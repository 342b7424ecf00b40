------------------------ MODULE PackageDraftProofs -------------------------
(***************************************************************************)
(* Proofs about a package revision from its first upload to its            *)
(* confirmation, for any number of clients, revisions, blobs and facts:    *)
(* the stored rows and files agree and stay within their limits, a draft   *)
(* that intake merged keeps what the files state, and what is confirmed is *)
(* what the client was shown.  Then proofs about the assistants that       *)
(* answer questions beside it, for any number of calls: what the limits of *)
(* the SSP assistant and of the package assistant are worth for what they  *)
(* charge, and that the search index holds the content of the revision     *)
(* that is asked about.                                                    *)
(*                                                                         *)
(* The byte limit and the token limits are sums over sets, which the       *)
(* community modules define by recursion.  The lemmas on sums establish    *)
(* that the recursion has one solution, by the well-foundedness of strict  *)
(* inclusion among the subsets of a finite set, and from it what a sum is  *)
(* when an element is added or changed, and that parts bound a whole.      *)
(***************************************************************************)
EXTENDS PackageDraft, PackageChat, FiniteSetTheorems, TLAPS

-----------------------------------------------------------------------------
(* Sums over finite sets                                                   *)

(* The element CHOOSE takes of a set: the order in which a sum is folded.  *)
Pick(s) == CHOOSE x \in s : TRUE

(* The recursive function behind MapThenSumSet, on the subsets of S        *)
IsSum(g, f, S) ==
    g = [s \in SUBSET S |-> IF s = {} THEN 0 ELSE f[Pick(s)] + g[s \ {Pick(s)}]]
SumOf(f, S) == MapThenSumSet(LAMBDA x : f[x], S)

(* The fold of the community modules is that function.                     *)
LEMMA SumUnfolds ==
    ASSUME NEW f, NEW S
    PROVE  SumOf(f, S) = (CHOOSE g : IsSum(g, f, S))[S]
  BY DEF SumOf, MapThenSumSet, MapThenFoldSet, IsSum, Pick

LEMMA PickIn ==
    ASSUME NEW s, s # {}
    PROVE  Pick(s) \in s
  BY DEF Pick

(* Every nonempty collection of subsets of a finite set has a smallest.    *)
LEMMA SmallestSubset ==
    ASSUME NEW S, IsFiniteSet(S), NEW T, T \subseteq SUBSET S, T # {}
    PROVE  \E s \in T : \A u \in T : u \subseteq s => u = s
  <1>1. IsWellFoundedOn(StrictSubsetOrdering(S), SUBSET S)
    BY FS_StrictSubsetOrderingWellFounded, FS_FiniteSubsetsOfFinite
  <1>2. PICK s \in T : \A u \in T : ~ (<<u, s>> \in StrictSubsetOrdering(S))
    BY <1>1, WFMin
  <1>3. ASSUME NEW u \in T, u \subseteq s, u # s PROVE FALSE
    <2>1. <<u, s>> \in (SUBSET S) \X (SUBSET S)
      OBVIOUS
    <2>2. <<u, s>> \in StrictSubsetOrdering(S)
      BY <2>1, <1>3 DEF StrictSubsetOrdering
    <2>3. QED
      BY <1>2, <2>2
  <1>4. QED
    BY <1>3

(* At most one function satisfies the recursion: two that differ would     *)
(* differ on a smallest subset.                                            *)
LEMMA SumUnique ==
    ASSUME NEW f, NEW S, IsFiniteSet(S), NEW g, NEW h, IsSum(g, f, S), IsSum(h, f, S)
    PROVE  g = h
  <1> DEFINE T == {s \in SUBSET S : g[s] # h[s]}
  <1>1. ASSUME NEW s \in T, \A u \in T : u \subseteq s => u = s PROVE FALSE
    <2> DEFINE u == s \ {Pick(s)}
    <2>1. s # {}
      BY DEF IsSum
    <2>2. u \subseteq s /\ u # s /\ u \in SUBSET S
      BY <2>1, PickIn
    <2>3. g[u] = h[u]
      BY <1>1, <2>2
    <2>4. g[s] = f[Pick(s)] + g[u] /\ h[s] = f[Pick(s)] + h[u]
      BY <2>1 DEF IsSum
    <2>5. QED
      BY <2>3, <2>4
  <1>2. T \subseteq SUBSET S
    OBVIOUS
  <1> HIDE DEF T
  <1>3. T = {}
    BY <1>1, <1>2, SmallestSubset
  <1>4. QED
    BY <1>3 DEF IsSum, T

(* It restricts to the subsets of a subset.                                *)
LEMMA SumRestricts ==
    ASSUME NEW f, NEW S, NEW g, IsSum(g, f, S), NEW U \in SUBSET S
    PROVE  IsSum([s \in SUBSET U |-> g[s]], f, U)
  <1> DEFINE h == [s \in SUBSET U |-> g[s]]
  <1>1. ASSUME NEW s \in SUBSET U
        PROVE  h[s] = IF s = {} THEN 0 ELSE f[Pick(s)] + h[s \ {Pick(s)}]
    BY DEF IsSum
  <1>2. QED
    BY <1>1 DEF IsSum

(* And there is one: a smallest subset without one would have one, built   *)
(* from that of the subset without its picked element.                     *)
LEMMA SumExists ==
    ASSUME NEW f, NEW S, IsFiniteSet(S)
    PROVE  \E g : IsSum(g, f, S)
  <1> DEFINE T == {s \in SUBSET S : ~ \E g : IsSum(g, f, s)}
             G(u) == CHOOSE g : IsSum(g, f, u)
  <1>1. ASSUME NEW x \in T, \A u \in T : u \subseteq x => u = x PROVE FALSE
    <2> DEFINE rest(s) == s \ {Pick(s)}
               h == [s \in SUBSET x |-> IF s = {} THEN 0 ELSE f[Pick(s)] + G(rest(s))[rest(s)]]
    <2>1. ASSUME NEW u \in SUBSET x, u # x PROVE IsSum(G(u), f, u) /\ IsFiniteSet(u)
      BY <2>1, <1>1, FS_Subset
    <2>2. ASSUME NEW s \in SUBSET x, s # {} PROVE h[rest(s)] = G(rest(s))[rest(s)]
      <3> DEFINE u == rest(s)
                 v == rest(u)
      <3>1. u \in SUBSET x /\ u # x /\ IsSum(G(u), f, u) /\ IsFiniteSet(u)
        BY <2>1, <2>2, PickIn
      <3>2. CASE u = {}
        BY <3>1, <3>2 DEF IsSum
      <3>3. CASE u # {}
        <4>1. v \in SUBSET u /\ v # x /\ v \in SUBSET x
          BY <3>1, <3>3, PickIn
        <4>2. IsSum(G(v), f, v) /\ IsFiniteSet(v)
          BY <4>1, <2>1
        <4>3. IsSum([t \in SUBSET v |-> G(u)[t]], f, v)
          BY <3>1, <4>1, SumRestricts
        <4>4. G(v) = [t \in SUBSET v |-> G(u)[t]]
          BY <4>2, <4>3, SumUnique
        <4>5. G(v)[v] = G(u)[v]
          BY <4>4
        <4>6. G(u)[u] = f[Pick(u)] + G(u)[v]
          BY <3>1, <3>3 DEF IsSum
        <4>7. h[u] = f[Pick(u)] + G(v)[v]
          BY <3>1, <3>3
        <4>8. QED
          BY <4>5, <4>6, <4>7
      <3>4. QED
        BY <3>2, <3>3
    <2>3. ASSUME NEW s \in SUBSET x
          PROVE  h[s] = IF s = {} THEN 0 ELSE f[Pick(s)] + h[rest(s)]
      <3>1. CASE s = {}
        BY <3>1
      <3>2. CASE s # {}
        <4>1. h[s] = f[Pick(s)] + G(rest(s))[rest(s)]
          BY <3>2
        <4>2. h[rest(s)] = G(rest(s))[rest(s)]
          BY <3>2, <2>2
        <4> HIDE DEF h, G, rest
        <4>3. QED
          BY <3>2, <4>1, <4>2
      <3>3. QED
        BY <3>1, <3>2
    <2>4. h = [s \in SUBSET x |-> h[s]]
      OBVIOUS
    <2> HIDE DEF h
    <2>5. IsSum(h, f, x)
      BY <2>3, <2>4 DEF IsSum
    <2>6. QED
      BY <2>5
  <1>2. T \subseteq SUBSET S
    OBVIOUS
  <1> HIDE DEF T
  <1>3. T = {}
    BY <1>1, <1>2, SmallestSubset
  <1>4. QED
    BY <1>3 DEF T

(* The sum of a finite set is built up from the empty one ...              *)
LEMMA SumStep ==
    ASSUME NEW f, NEW S, IsFiniteSet(S)
    PROVE  SumOf(f, S) = IF S = {} THEN 0 ELSE f[Pick(S)] + SumOf(f, S \ {Pick(S)})
  <1> DEFINE G(u) == CHOOSE g : IsSum(g, f, u)
             u == S \ {Pick(S)}
  <1>1. IsSum(G(S), f, S)
    BY SumExists
  <1>2. IsSum(G(u), f, u) /\ IsFiniteSet(u)
    BY SumExists, FS_Subset
  <1>5. IsSum([t \in SUBSET u |-> G(S)[t]], f, u)
    BY <1>1, SumRestricts
  <1>3. G(u) = [t \in SUBSET u |-> G(S)[t]]
    BY <1>2, <1>5, SumUnique
  <1>4. G(u)[u] = G(S)[u]
    BY <1>3
  <1>6. QED
    BY <1>1, <1>4, SumUnfolds DEF IsSum

(* ... is a natural number ...                                             *)
LEMMA SumType ==
    ASSUME NEW f, NEW S, IsFiniteSet(S), \A x \in S : f[x] \in Nat
    PROVE  SumOf(f, S) \in Nat
  <1> DEFINE T == {s \in SUBSET S : SumOf(f, s) \notin Nat}
  <1>1. ASSUME NEW s \in T, \A u \in T : u \subseteq s => u = s PROVE FALSE
    <2> DEFINE u == s \ {Pick(s)}
    <2>1. SumOf(f, s) = IF s = {} THEN 0 ELSE f[Pick(s)] + SumOf(f, u)
      BY SumStep, FS_Subset
    <2>2. s # {} /\ Pick(s) \in s
      BY <2>1, PickIn
    <2>3. SumOf(f, u) \in Nat /\ f[Pick(s)] \in Nat
      BY <1>1, <2>2
    <2>4. QED
      BY <2>1, <2>2, <2>3
  <1>2. T \subseteq SUBSET S
    OBVIOUS
  <1> HIDE DEF T
  <1>3. T = {}
    BY <1>1, <1>2, SmallestSubset
  <1>4. QED
    BY <1>3 DEF T

(* ... and does not depend on the order.                                   *)
LEMMA SumTake ==
    ASSUME NEW f, NEW S, IsFiniteSet(S), \A x \in S : f[x] \in Nat, NEW x \in S
    PROVE  SumOf(f, S) = f[x] + SumOf(f, S \ {x})
  <1> DEFINE T == {s \in SUBSET S : \E y \in s : SumOf(f, s) # f[y] + SumOf(f, s \ {y})}
  <1>1. ASSUME NEW s \in T, \A u \in T : u \subseteq s => u = s PROVE FALSE
    <2>1. PICK y \in s : SumOf(f, s) # f[y] + SumOf(f, s \ {y})
      OBVIOUS
    <2> DEFINE p == Pick(s)
    <2>2. p \in s /\ SumOf(f, s) = f[p] + SumOf(f, s \ {p})
      BY SumStep, FS_Subset, PickIn
    <2>3. y # p
      BY <2>1, <2>2
    <2>4. SumOf(f, s \ {p}) = f[y] + SumOf(f, (s \ {p}) \ {y})
      BY <1>1, <2>2, <2>3
    <2>5. SumOf(f, s \ {y}) = f[p] + SumOf(f, (s \ {y}) \ {p})
      BY <1>1, <2>2, <2>3
    <2>6. (s \ {y}) \ {p} = (s \ {p}) \ {y}
      OBVIOUS
    <2>7. SumOf(f, (s \ {p}) \ {y}) \in Nat /\ f[p] \in Nat /\ f[y] \in Nat
      BY <2>2, SumType, FS_Subset
    <2> DEFINE a == SumOf(f, s)
               b == SumOf(f, s \ {p})
               c == SumOf(f, s \ {y})
               d == SumOf(f, (s \ {p}) \ {y})
    <2>8. /\ a # f[y] + c /\ a = f[p] + b /\ b = f[y] + d /\ c = f[p] + d
          /\ d \in Nat /\ f[p] \in Nat /\ f[y] \in Nat
      BY <2>1, <2>2, <2>4, <2>5, <2>6, <2>7
    <2> HIDE DEF a, b, c, d, p
    <2>9. QED
      BY <2>8
  <1>2. T \subseteq SUBSET S
    OBVIOUS
  <1> HIDE DEF T
  <1>3. T = {}
    BY <1>1, <1>2, SmallestSubset
  <1>4. QED
    BY <1>3 DEF T

(* The form in which the proofs use it: one element more                   *)
LEMMA SumAdd ==
    ASSUME NEW f, NEW S, IsFiniteSet(S), NEW x, x \notin S, \A y \in S \cup {x} : f[y] \in Nat
    PROVE  SumOf(f, S \cup {x}) = f[x] + SumOf(f, S)
  <1>1. IsFiniteSet(S \cup {x}) /\ (S \cup {x}) \ {x} = S
    BY FS_AddElement
  <1>2. QED
    BY <1>1, SumTake

(* Whatever satisfies the recursion gives the sum.                         *)
LEMMA SumChosen ==
    ASSUME NEW f, NEW S, IsFiniteSet(S), NEW g, IsSum(g, f, S)
    PROVE  SumOf(f, S) = g[S]
  <1>1. IsSum(CHOOSE h : IsSum(h, f, S), f, S)
    OBVIOUS
  <1>2. g = (CHOOSE h : IsSum(h, f, S))
    BY <1>1, SumUnique
  <1>3. QED
    BY <1>2, SumUnfolds

(* A sum depends on the summands only ...                                  *)
LEMMA SumSame ==
    ASSUME NEW f, NEW h, NEW S, IsFiniteSet(S), \A x \in S : f[x] = h[x]
    PROVE  SumOf(f, S) = SumOf(h, S)
  <1>1. PICK g : IsSum(g, f, S)
    BY SumExists
  <1>2. \A s \in SUBSET S : s # {} => f[Pick(s)] = h[Pick(s)]
    BY PickIn
  <1>3. IsSum(g, h, S)
    BY <1>1, <1>2 DEF IsSum
  <1>4. QED
    BY <1>1, <1>3, SumChosen

(* ... is 0 if they are, is no less than any of them ...                   *)
LEMMA SumZero ==
    ASSUME NEW f, NEW S, IsFiniteSet(S), \A x \in S : f[x] = 0
    PROVE  SumOf(f, S) = 0
  <1> DEFINE g == [s \in SUBSET S |-> 0]
  <1>1. \A s \in SUBSET S : s # {} => f[Pick(s)] = 0 /\ s \ {Pick(s)} \in SUBSET S
    BY PickIn
  <1>2. IsSum(g, f, S)
    BY <1>1 DEF IsSum
  <1>3. QED
    BY <1>2, SumChosen

LEMMA SumTerm ==
    ASSUME NEW f, NEW S, IsFiniteSet(S), \A x \in S : f[x] \in Nat, NEW x \in S
    PROVE  f[x] <= SumOf(f, S)
  <1>1. IsFiniteSet(S \ {x})
    BY FS_Subset
  <1>2. SumOf(f, S \ {x}) \in Nat
    BY <1>1, SumType
  <1>3. SumOf(f, S) = f[x] + SumOf(f, S \ {x})
    BY SumTake
  <1>4. QED
    BY <1>2, <1>3

(* ... and changes with one of them by as much.                            *)
LEMMA SumChange ==
    ASSUME NEW f, NEW h, NEW S, IsFiniteSet(S), NEW v \in S,
           \A x \in S : f[x] \in Nat /\ h[x] \in Nat,
           \A x \in S \ {v} : h[x] = f[x]
    PROVE  SumOf(h, S) + f[v] = SumOf(f, S) + h[v]
  <1>1. IsFiniteSet(S \ {v})
    BY FS_Subset
  <1>2. SumOf(f, S \ {v}) = SumOf(h, S \ {v}) /\ SumOf(f, S \ {v}) \in Nat
    BY <1>1, SumSame, SumType
  <1>3. SumOf(f, S) = f[v] + SumOf(f, S \ {v}) /\ SumOf(h, S) = h[v] + SumOf(h, S \ {v})
    BY SumTake
  <1>4. QED
    BY <1>2, <1>3

LEMMA SumSubset ==
    ASSUME NEW f, NEW S, IsFiniteSet(S), \A x \in S : f[x] \in Nat, NEW V, V \subseteq S
    PROVE  SumOf(f, V) <= SumOf(f, S)
  <1> DEFINE T == {d \in SUBSET S : ~ (SumOf(f, S \ d) <= SumOf(f, S))}
  <1>1. ASSUME NEW d \in T, \A u \in T : u \subseteq d => u = d PROVE FALSE
    <2>1. \A u \in SUBSET S : IsFiniteSet(S \ u) /\ SumOf(f, S \ u) \in Nat
      BY FS_Subset, SumType
    <2>2. CASE d = {}
      <3>1. S \ d = S
        BY <2>2
      <3>2. SumOf(f, S) \in Nat
        BY SumType
      <3>3. QED
        BY <3>1, <3>2
    <2>3. CASE d # {}
      <3>1. PICK x : x \in d
        BY <2>3
      <3> DEFINE u == d \ {x}
      <3>2. u \in SUBSET S /\ u # d /\ u \subseteq d /\ x \in S \ u /\ (S \ u) \ {x} = S \ d
        BY <3>1
      <3>3. SumOf(f, S \ u) <= SumOf(f, S)
        BY <1>1, <3>2
      <3>4. SumOf(f, S \ u) = f[x] + SumOf(f, (S \ u) \ {x})
        <4> DEFINE W == S \ u
        <4>1. IsFiniteSet(W) /\ x \in W
          BY <2>1, <3>2
        <4>2. \A y \in W : f[y] \in Nat
          OBVIOUS
        <4> HIDE DEF W
        <4>3. SumOf(f, W) = f[x] + SumOf(f, W \ {x})
          BY <4>1, <4>2, SumTake
        <4>4. QED
          BY <4>3 DEF W
      <3>5. f[x] \in Nat /\ SumOf(f, S) \in Nat
        BY <3>2, SumType
      <3> HIDE DEF u
      <3>6. SumOf(f, S \ d) <= SumOf(f, S)
        BY <2>1, <3>2, <3>3, <3>4, <3>5
      <3>7. QED
        BY <3>6
    <2>4. QED
      BY <2>2, <2>3
  <1>2. T = {} => SumOf(f, S \ (S \ V)) <= SumOf(f, S)
    OBVIOUS
  <1>3. S \ (S \ V) = V
    OBVIOUS
  <1>4. T \subseteq SUBSET S
    OBVIOUS
  <1> HIDE DEF T
  <1>5. T = {}
    BY <1>1, <1>4, SmallestSubset
  <1>6. QED
    BY <1>2, <1>3, <1>5

LEMMA DisjointUnion ==
    ASSUME NEW A, IsFiniteSet(A), NEW B, IsFiniteSet(B), A \cap B = {}
    PROVE  /\ IsFiniteSet(A \cup B)
           /\ Cardinality(A \cup B) = Cardinality(A) + Cardinality(B)
  <1>1. Cardinality(A \cap B) = 0
    BY FS_EmptySet
  <1>2. Cardinality(A) \in Nat /\ Cardinality(B) \in Nat
    BY FS_CardinalityType
  <1>3. /\ IsFiniteSet(A \cup B)
        /\ Cardinality(A \cup B) = Cardinality(A) + Cardinality(B) - Cardinality(A \cap B)
    BY FS_Union
  <1>4. \A n \in Nat : n - 0 = n
    OBVIOUS
  <1>5. QED
    BY <1>1, <1>2, <1>3, <1>4

(* A set is no larger than what bounds its parts: one part for each element *)
(* of a finite set V, given by part(x).                                     *)
LEMMA PartsBound ==
    ASSUME NEW X, IsFiniteSet(X), NEW V, IsFiniteSet(V), NEW part \in [X -> V],
           NEW f \in [V -> Nat], NEW M \in Nat,
           \A v \in V : Cardinality({x \in X : part[x] = v}) <= f[v] + M
    PROVE  Cardinality(X) <= SumOf(f, V) + M * Cardinality(V)
  <1> DEFINE In(s) == {x \in X : part[x] \in s}
             T == {s \in SUBSET V : ~ (Cardinality(In(s)) <= SumOf(f, s) + M * Cardinality(s))}
  <1>1. ASSUME NEW s \in T, \A u \in T : u \subseteq s => u = s PROVE FALSE
    <2>1. IsFiniteSet(s) /\ s \in SUBSET V
      BY FS_Subset
    <2>2. CASE s = {}
      <3>1. Cardinality(In(s)) = 0 /\ Cardinality(s) = 0
        BY <2>2, FS_EmptySet
      <3>2. SumOf(f, s) = 0
        BY <2>1, <2>2, SumZero
      <3>3. QED
        BY <3>1, <3>2
    <2>3. CASE s # {}
      <3>1. PICK v : v \in s
        BY <2>3
      <3> DEFINE u == s \ {v}
                 A == {x \in X : part[x] = v}
      <3>2. u \in SUBSET V /\ u # s /\ IsFiniteSet(u)
        BY <2>1, <3>1, FS_Subset
      <3>3. Cardinality(In(u)) <= SumOf(f, u) + M * Cardinality(u)
        BY <1>1, <3>2
      <3>4. In(s) = In(u) \cup A /\ IsFiniteSet(In(u)) /\ IsFiniteSet(A) /\ In(u) \cap A = {}
        BY <3>1, FS_Subset
      <3>5. Cardinality(In(s)) = Cardinality(In(u)) + Cardinality(A)
        <4> HIDE DEF In, A, u
        <4>1. QED
          BY <3>4, DisjointUnion
      <3>6. Cardinality(s) = Cardinality(u) + 1 /\ Cardinality(u) \in Nat
        BY <2>1, <3>1, <3>2, FS_RemoveElement, FS_CardinalityType
      <3>7. SumOf(f, s) = f[v] + SumOf(f, u) /\ SumOf(f, u) \in Nat /\ f[v] \in Nat
        BY <2>1, <3>1, <3>2, SumTake, SumType
      <3>8. M * Cardinality(s) = M * Cardinality(u) + M /\ M * Cardinality(u) \in Nat
        BY <3>6
      <3>9. Cardinality(A) <= f[v] + M /\ Cardinality(A) \in Nat /\ Cardinality(In(u)) \in Nat
        BY <2>1, <3>1, <3>4, FS_CardinalityType
      <3> HIDE DEF A, u, In
      <3>10. Cardinality(In(s)) <= SumOf(f, s) + M * Cardinality(s)
        BY <3>3, <3>5, <3>7, <3>8, <3>9
      <3>11. QED
        BY <3>10
    <2>4. QED
      BY <2>2, <2>3
  <1>2. T \subseteq SUBSET V
    OBVIOUS
  <1>3. In(V) = X
    OBVIOUS
  <1>4. T = {} => Cardinality(In(V)) <= SumOf(f, V) + M * Cardinality(V)
    OBVIOUS
  <1> HIDE DEF T, In
  <1>5. T = {}
    BY <1>1, <1>2, SmallestSubset
  <1>6. QED
    BY <1>3, <1>4, <1>5

-----------------------------------------------------------------------------
(* A revision and its draft                                                *)

(* A draft that intake merged has what an uploaded file states, and a      *)
(* source for every value.                                                 *)
Grounded(d, files) ==
    d.by = "intake" =>
       \A t \in Targets :
          /\ BaseFields(files)[t] # None => d.document.fields[t] = BaseFields(files)[t]
          /\ d.document.fields[t] # None => d.provenance[t] # {}

(* Types of the rows, without the size of a draft.                         *)
DraftTypes ==
    /\ revision \in [Revisions -> PackageRevision]
    /\ artifact \in [Revisions -> SUBSET Blobs]
    /\ draft \in [Revisions -> SUBSET PackageRevisionDraft]
    /\ sealed \in [Revisions -> SUBSET SealedPackageContent]
    /\ snapshots \in Seq(SystemContextSnapshot)
    /\ proposal \in [Revisions -> [Targets -> FactProposal]]
    /\ blob \subseteq Blobs /\ staging \subseteq Clients /\ file \in [Revisions -> SUBSET Blobs]
    /\ client \in [Clients -> Request] /\ view \in [Clients -> View]

(* What is stored of a revision.                                           *)
StoredOK(r) ==
    /\ artifact[r] \subseteq blob /\ IsFiniteSet(artifact[r])
    /\ Cardinality(artifact[r]) <= MaxFiles /\ Bytes(artifact[r]) <= MaxBytes
    /\ IF revision[r].status \in {"absent", "uploading"} THEN revision[r].manifest = {}
       ELSE revision[r].manifest # {} => /\ file[r] = revision[r].manifest
                                         /\ artifact[r] = revision[r].manifest

Confirmable == {"awaiting_confirmation", "ready"}

(* What is known of it: a draft only after intake, at most one, sealed     *)
(* content only with a confirmation.                                       *)
KnownOK(r) ==
    /\ revision[r].status = "absent" => revision[r].version = 0
    /\ draft[r] # {} => revision[r].status \in Confirmable
    /\ sealed[r] # {} => revision[r].status = "ready"
    /\ draft[r] = {} \/ \E d \in draft[r] : draft[r] = {d}
    /\ \A d \in draft[r] : Grounded(d, Files(r))

Holding == {"staged", "stored", "written"}

(* A reported blocker still holds of the row and its drafts; the two that  *)
(* a confirmation does not look at, or that go without a new version, are  *)
(* left out.                                                               *)
Standing(blockers, row, drafts) ==
    /\ "revision_not_awaiting_confirmation" \in blockers => row.status # "awaiting_confirmation"
    /\ "revision_metadata_incomplete" \in blockers => ~MetadataComplete(row.metadata)
    /\ "export_blocked" \in blockers => \E d \in drafts : ExportBlocked(d.document, row.metadata)

(* What a request in flight relies on                                      *)
RequestOK(q) ==
    /\ q.op # "idle" => q.revision \in Revisions
    /\ q.op \in Holding => /\ revision[q.revision].status = "uploading"
                           /\ revision[q.revision].version < MaxVersion
                           /\ q.seen = artifact[q.revision]
    /\ q.op \in {"staged", "stored"} => q.blob \in Blobs
    /\ q.op = "stored" => q.blob \in blob
    /\ q.op = "written" => file[q.revision] = artifact[q.revision]
    /\ q.op = "migrating" => revision[q.revision].status \in Confirmable
    /\ q.op \in {"reading", "reporting", "migrating"} =>
         /\ q.version <= revision[q.revision].version
         /\ q.version = revision[q.revision].version =>
              /\ q.metadata = revision[q.revision].metadata
              /\ q.status = revision[q.revision].status
    /\ q.op = "reporting" /\ q.version = revision[q.revision].version =>
         Standing(q.blockers, revision[q.revision], draft[q.revision])

OneHolder ==
    \A c, e \in Clients :
       client[c].op \in Holding /\ client[e].op \in Holding /\ client[c].revision = client[e].revision
          => c = e

(* What a client was shown is the draft, unless the version has gone on.   *)
ViewOK(v) ==
    v.revision # None =>
       /\ v.version <= revision[v.revision].version
       /\ v.document # {} => draft[v.revision] # {}
       /\ v.document # {} /\ v.version = revision[v.revision].version =>
            v.document = {Normalize(d.document, revision[v.revision].metadata) : d \in draft[v.revision]}
       /\ v.version = revision[v.revision].version =>
            Standing(v.blockers, revision[v.revision], draft[v.revision])

DraftInv ==
    /\ DraftTypes
    /\ \A r \in Revisions : StoredOK(r) /\ KnownOK(r)
    /\ \A c \in Clients : RequestOK(client[c]) /\ ViewOK(view[c])
    /\ OneHolder
(* What the document normalisations return; none touches the facts.        *)
LEMMA NormalizeType ==
    ASSUME NEW d \in Document, NEW m \in Metadata
    PROVE  Normalize(d, m) \in Document /\ Normalize(d, m).fields = d.fields
  BY DEF Normalize, NormalizedImpact, ExpectedPath, Document, Metadata

LEMMA ShellType ==
    ASSUME NEW d \in Document, NEW m \in Metadata
    PROVE  ApplyProfileShell(d, m) \in Document /\ ApplyProfileShell(d, m).fields = d.fields
  BY DEF ApplyProfileShell, NormalizedImpact, ExpectedPath, Document, Metadata

LEMMA MergedMetadataType ==
    ASSUME NEW m \in Metadata, NEW n \in Metadata, NEW p \in PatchTo(n)
    PROVE  MergedMetadata(m, p) \in Metadata
  BY DEF MergedMetadata, PatchTo, Metadata, NoMetadata

(* The draft that intake starts from takes its facts from the files.       *)
LEMMA BaseFieldsType ==
    ASSUME NEW files \in SUBSET FileContent
    PROVE  BaseFields(files) \in Fields
  <1>1. ASSUME NEW t \in Targets PROVE BaseFields(files)[t] \in Values \cup {None}
    BY DEF BaseFields, Manifests, FileContent, Fields
  <1>2. QED
    BY <1>1 DEF BaseFields, Fields

LEMMA InitialDraftType ==
    ASSUME NEW files \in SUBSET FileContent, NEW m \in Metadata
    PROVE  /\ InitialDraft(files, m) \in Document
           /\ InitialDraft(files, m).fields = BaseFields(files)
           /\ BaseProvenance(files) \in [Targets -> SUBSET Nat]
  <1>1. BaseFields(files) \in Fields
    BY BaseFieldsType
  <1>2. ManifestImpact(files, m) \in Impacts \cup {None}
    BY DEF ManifestImpact, Manifests, FileContent, Metadata
  <1>3. EmptyShell(m.profile) \in Document
    BY DEF EmptyShell, ExpectedPath, Document, Fields, EmptyFields, Metadata
  <1>4. InitialDraft(files, m) \in Document /\ InitialDraft(files, m).fields = BaseFields(files)
    BY <1>1, <1>2, <1>3 DEF InitialDraft, Document
  <1>5. BaseProvenance(files) \in [Targets -> SUBSET Nat]
    <2>1. ASSUME NEW t \in Targets
          PROVE  (IF BaseFields(files)[t] = None THEN {} ELSE {0}) \in SUBSET Nat
      OBVIOUS
    <2>2. QED
      BY <2>1 DEF BaseProvenance
  <1>6. QED
    BY <1>4, <1>5

(* The MAP steps only add to it ...                                        *)
LEMMA ReduceType ==
    ASSUME NEW map \in [Steps -> MapStep], NEW m, NEW base \in Document,
           NEW p \in [Targets -> SUBSET Nat]
    PROVE  /\ Reduce(map, m, base) \in Document
           /\ ReduceProvenance(map, m, base, p) \in [Targets -> SUBSET Nat]
  <1>1. ASSUME NEW t \in Targets
        PROVE  /\ Proposing(map, t) \in SUBSET Steps
               /\ Accepted(map, m, base, t) => \E s \in Proposing(map, t) : map[s].facts[t] \in Values
               /\ Accepted(map, m, base, t) => (CHOOSE v \in Proposed(map, t) : TRUE) \in Values
    BY DEF Proposing, Accepted, Proposed, MapStep
  <1>2. [t \in Targets |-> IF Accepted(map, m, base, t) /\ base.fields[t] = None
                           THEN CHOOSE v \in Proposed(map, t) : TRUE ELSE base.fields[t]] \in Fields
    BY <1>1 DEF Document, Fields
  <1>3. /\ {t \in Targets : Conflicting(map, m, base, t)} \in SUBSET Targets
        /\ TargetGaps(map, m, base) \cup StepGaps(map) \in SUBSET (Targets \cup Steps)
    BY DEF TargetGaps, StepGaps, AdaptationGaps
  <1>4. Reduce(map, m, base) \in Document
    BY <1>2, <1>3 DEF Reduce, Document
  <1>5. ReduceProvenance(map, m, base, p) \in [Targets -> SUBSET Nat]
    BY <1>1, MergeAssumption DEF ReduceProvenance
  <1>6. QED
    BY <1>4, <1>5

(* ... so that the merged draft keeps what the files state.                *)
LEMMA ReduceGrounds ==
    ASSUME NEW map \in [Steps -> MapStep], NEW m \in Metadata, NEW files \in SUBSET FileContent,
           NEW t \in Targets
    PROVE  LET base == InitialDraft(files, m)
               new == Reduce(map, m, base).fields[t] IN
           /\ BaseFields(files)[t] # None => new = BaseFields(files)[t]
           /\ new # None => ReduceProvenance(map, m, base, BaseProvenance(files))[t] # {}
  <1> DEFINE base == InitialDraft(files, m)
             new == Reduce(map, m, base).fields[t]
  <1>1. base \in Document /\ base.fields = BaseFields(files)
    BY InitialDraftType
  <1> HIDE DEF base
  <1>2. new = IF Accepted(map, m, base, t) /\ base.fields[t] = None
              THEN CHOOSE v \in Proposed(map, t) : TRUE ELSE base.fields[t]
    BY <1>1 DEF Reduce, Document
  <1>3. Accepted(map, m, base, t) => Proposing(map, t) # {}
    BY DEF Accepted
  <1>4. ReduceProvenance(map, m, base, BaseProvenance(files))[t] =
          IF Accepted(map, m, base, t) THEN Proposing(map, t) ELSE BaseProvenance(files)[t]
    BY DEF ReduceProvenance
  <1>5. BaseProvenance(files)[t] = IF BaseFields(files)[t] = None THEN {} ELSE {0}
    BY DEF BaseProvenance
  <1>6. QED
    BY <1>1, <1>2, <1>3, <1>4, <1>5 DEF base

(* The bytes of a revision's files                                         *)
LEMMA BytesAdd ==
    ASSUME NEW S \in SUBSET Blobs, IsFiniteSet(S), NEW b \in Blobs, b \notin S
    PROVE  Bytes(S \cup {b}) = Bytes(S) + Size[b]
  <1>1. \A x \in S \cup {b} : Size[x] \in Nat
    BY PackageAssumption
  <1>2. SumOf(Size, S \cup {b}) = Size[b] + SumOf(Size, S)
    BY <1>1, SumAdd
  <1>3. SumOf(Size, S) \in Nat /\ Size[b] \in Nat
    BY <1>1, SumType
  <1>4. SumOf(Size, S \cup {b}) = SumOf(Size, S) + Size[b]
    BY <1>2, <1>3
  <1>5. QED
    BY <1>4 DEF Bytes, SumOf

LEMMA BytesEmpty == Bytes({}) = 0
  <1>1. SumOf(Size, {}) = 0
    BY SumStep, FS_EmptySet
  <1>2. QED
    BY <1>1 DEF Bytes, SumOf

(* A client without a request                                              *)
LEMMA IdleRequest == RequestOK(Idle) /\ Idle \in Request /\ Idle.op = "idle"
  BY PackageAssumption
     DEF RequestOK, Idle, Holding, Request, Operations, Statuses, NoMetadata, Metadata

(* An action that leaves the rows and at most begins or ends a request.    *)
LEMMA RequestStep ==
    ASSUME DraftInv, DraftTypes', NEW c \in Clients,
           UNCHANGED <<revision, artifact, sealed, draft>>, blob \subseteq blob',
           \A q \in Revisions : file'[q] = file[q] \/ (Unlocked(q) /\ revision[q].status = "uploading"),
           \A e \in Clients \ {c} : client'[e] = client[e] /\ view'[e] = view[e],
           RequestOK(client[c])', ViewOK(view[c])',
           client'[c].op \in Holding =>
              \/ client[c].op \in Holding /\ client'[c].revision = client[c].revision
              \/ Unlocked(client'[c].revision)
    PROVE  DraftInv'
  <1>1. ASSUME NEW r \in Revisions PROVE StoredOK(r)' /\ KnownOK(r)'
    <2>1. StoredOK(r)'
      BY DEF DraftInv, StoredOK
    <2>2. KnownOK(r)'
      BY DEF DraftInv, KnownOK, Files
    <2>3. QED
      BY <2>1, <2>2
  <1>2. ASSUME NEW e \in Clients PROVE RequestOK(client[e])' /\ ViewOK(view[e])'
    <2>1. CASE e = c
      BY <2>1
    <2>2. CASE e # c
      <3>1. client'[e] = client[e] /\ view'[e] = view[e] /\ RequestOK(client[e]) /\ ViewOK(view[e])
        BY <2>2 DEF DraftInv
      <3>2. client[e].op = "written" => file'[client[e].revision] = file[client[e].revision]
        BY <3>1 DEF RequestOK, Unlocked, Holding
      <3>3. RequestOK(client[e])'
        BY <3>1, <3>2 DEF RequestOK
      <3>4. ViewOK(view[e])'
        BY <3>1 DEF ViewOK
      <3>5. QED
        BY <3>3, <3>4
    <2>3. QED
      BY <2>1, <2>2
  <1>3. OneHolder'
    <2>1. ASSUME NEW e \in Clients, e # c, client'[e].op \in Holding, client'[c].op \in Holding,
                 client'[e].revision = client'[c].revision
          PROVE FALSE
      <3>1. client'[e] = client[e]
        BY <2>1
      <3>2. CASE client[c].op \in Holding /\ client'[c].revision = client[c].revision
        BY <2>1, <3>1, <3>2 DEF DraftInv, OneHolder
      <3>3. CASE Unlocked(client'[c].revision)
        BY <2>1, <3>1, <3>3 DEF Unlocked, Holding
      <3>4. QED
        BY <2>1, <3>2, <3>3
    <2>2. ASSUME NEW d \in Clients, NEW e \in Clients, d # c, e # c,
                 client'[d].op \in Holding, client'[e].op \in Holding,
                 client'[d].revision = client'[e].revision
          PROVE d = e
      BY <2>2 DEF DraftInv, OneHolder
    <2>3. QED
      BY <2>1, <2>2 DEF OneHolder
  <1>4. QED
    BY <1>1, <1>2, <1>3 DEF DraftInv

(* An action that writes the row of a revision nobody else holds: its      *)
(* version goes up, so nothing read before is mistaken for current.        *)
LEMMA RowStep ==
    ASSUME DraftInv, DraftTypes', NEW r \in Revisions,
           revision'[r].version > revision[r].version,
           \A q \in Revisions \ {r} :
              /\ revision'[q] = revision[q] /\ artifact'[q] = artifact[q]
              /\ draft'[q] = draft[q] /\ sealed'[q] = sealed[q],
           \A c \in Clients :
              \/ client'[c] = Idle
              \/ client'[c] = client[c] /\ ~(client[c].op \in Holding /\ client[c].revision = r),
           revision[r].status \in Confirmable => revision'[r].status \in Confirmable,
           draft[r] # {} => draft'[r] # {},
           StoredOK(r)', KnownOK(r)',
           UNCHANGED <<blob, file, view>>
    PROVE  DraftInv'
  <1>1. ASSUME NEW q \in Revisions PROVE StoredOK(q)' /\ KnownOK(q)'
    <2>1. CASE q = r
      BY <2>1
    <2>2. CASE q # r
      <3>1. StoredOK(q) /\ KnownOK(q)
        BY DEF DraftInv
      <3>2. StoredOK(q)'
        BY <2>2, <3>1 DEF StoredOK
      <3>3. KnownOK(q)'
        BY <2>2, <3>1 DEF KnownOK, Files
      <3>4. QED
        BY <3>2, <3>3
    <2>3. QED
      BY <2>1, <2>2
  <1>2. /\ revision[r].version \in Nat /\ revision'[r].version \in Nat
        /\ \A q \in Revisions : revision[q].version \in Nat
    BY PackageAssumption DEF DraftInv, DraftTypes, PackageRevision
  <1>3. ASSUME NEW c \in Clients PROVE RequestOK(client[c])' /\ ViewOK(view[c])'
    <2>1. RequestOK(client[c])'
      <3>1. CASE client'[c] = Idle
        BY <3>1, IdleRequest DEF RequestOK, Idle, Holding
      <3>2. CASE /\ client'[c] = client[c]
                 /\ ~(client[c].op \in Holding /\ client[c].revision = r)
        <4> DEFINE q == client[c].revision
        <4>1. RequestOK(client[c]) /\ client[c].version \in Nat
          BY PackageAssumption DEF DraftInv, DraftTypes, Request
        <4>2. CASE q = r
          <5>1. client[c].op \notin Holding
            BY <3>2, <4>2
          <5>2. client[c].op \in {"reading", "reporting", "migrating"} =>
                  client[c].version < revision'[r].version
            BY <4>1, <4>2, <1>2 DEF RequestOK
          <5>3. QED
            BY <3>2, <4>1, <4>2, <5>1, <5>2, <1>2 DEF RequestOK, Holding
        <4>3. CASE q # r
          BY <3>2, <4>1, <4>3 DEF RequestOK, Holding
        <4>4. QED
          BY <4>2, <4>3
      <3>3. QED
        BY <3>1, <3>2
    <2>2. ViewOK(view[c])'
      <3> DEFINE v == view[c]
      <3>1. ViewOK(v) /\ v.version \in Nat /\ v.revision \in Revisions \cup {None} /\ view'[c] = v
        BY PackageAssumption DEF DraftInv, DraftTypes, View
      <3>2. CASE v.revision = r
        <4>1. v.version < revision'[r].version
          BY <3>1, <3>2, <1>2, PackageAssumption DEF ViewOK
        <4>2. QED
          BY <3>1, <3>2, <4>1, <1>2 DEF ViewOK
      <3>3. CASE v.revision # r
        BY <3>1, <3>3 DEF ViewOK
      <3>4. QED
        BY <3>2, <3>3
    <2>3. QED
      BY <2>1, <2>2
  <1>4. OneHolder'
    BY IdleRequest DEF DraftInv, OneHolder, Holding
  <1>5. QED
    BY <1>1, <1>3, <1>4 DEF DraftInv

(* What the files of a revision state                                      *)
LEMMA FilesType ==
    ASSUME DraftInv, NEW r \in Revisions
    PROVE  Files(r) \in SUBSET FileContent
  BY PackageAssumption DEF DraftInv, DraftTypes, Files

(* Initial states                                                          *)
LEMMA InitInvariant == DraftInit => DraftInv
  <1> SUFFICES ASSUME DraftInit PROVE DraftInv
    OBVIOUS
  <1>1. /\ Absent \in PackageRevision
        /\ \A m \in Metadatas : /\ LegacyRevision(m) \in PackageRevision
                                /\ LegacyRevision(m).status = "awaiting_confirmation"
                                /\ LegacyRevision(m).manifest = {}
    <2>1. 0 \in 0..MaxVersion /\ 1 \in 0..MaxVersion /\ 0 \in Nat /\ {} \in SUBSET Blobs
      BY PackageAssumption
    <2>2. NoMetadata \in Metadata /\ \A m \in Metadatas : m \in Metadata
      BY PackageAssumption DEF NoMetadata, Metadata, CreateInput
    <2>3. Absent \in PackageRevision /\ Absent.manifest = {}
      BY <2>1, <2>2 DEF Absent, PackageRevision, Statuses
    <2>4. ASSUME NEW m \in Metadatas
          PROVE  /\ LegacyRevision(m) \in PackageRevision
                 /\ LegacyRevision(m).status = "awaiting_confirmation"
                 /\ LegacyRevision(m).manifest = {}
      BY <2>1, <2>2, <2>3 DEF LegacyRevision, PackageRevision, Statuses
    <2>5. QED
      BY <2>3, <2>4
  <1>2. revision \in [Revisions -> PackageRevision]
    BY <1>1 DEF DraftInit
  <1>3. proposal \in [Revisions -> [Targets -> FactProposal]]
    BY DEF DraftInit, FactProposal, NoProposal
  <1>4. snapshots \in Seq(SystemContextSnapshot)
    BY DEF DraftInit
  <1>5. NoView \in View
    BY PackageAssumption DEF NoView, View
  <1>6. DraftTypes
    BY <1>2, <1>3, <1>4, <1>5, IdleRequest DEF DraftInit, DraftTypes
  <1>7. ASSUME NEW r \in Revisions PROVE StoredOK(r) /\ KnownOK(r)
    <2>1. /\ revision[r].manifest = {}
          /\ revision[r].status = "absent" => revision[r].version = 0
      BY <1>1 DEF DraftInit, Absent
    <2>2. IsFiniteSet({}) /\ Cardinality({}) = 0 /\ Bytes({}) = 0
      BY FS_EmptySet, BytesEmpty
    <2>3. MaxFiles \in Nat /\ MaxBytes \in Nat
      BY PackageAssumption
    <2>4. artifact[r] = {} /\ draft[r] = {} /\ sealed[r] = {}
      BY DEF DraftInit
    <2>5. QED
      BY <2>1, <2>2, <2>3, <2>4 DEF StoredOK, KnownOK
  <1>8. ASSUME NEW c \in Clients PROVE RequestOK(client[c]) /\ ViewOK(view[c])
    BY IdleRequest DEF DraftInit, ViewOK, NoView
  <1>9. OneHolder
    BY IdleRequest DEF DraftInit, OneHolder, Holding
  <1>10. QED
    BY <1>6, <1>7, <1>8, <1>9 DEF DraftInv

(* No blocker stands of anything; and what stands without a draft stands   *)
(* when one is inserted.                                                   *)
LEMMA NothingStands ==
    ASSUME NEW row, NEW drafts
    PROVE  Standing({}, row, drafts)
  BY DEF Standing

LEMMA InsertedStands ==
    ASSUME NEW B, NEW row, Standing(B, row, {}), NEW drafts
    PROVE  Standing(B, row, drafts)
  BY DEF Standing

(* What the beginning and the end of a request leave: each changes the row *)
(* of its client only.                                                     *)
LEMMA BegunRequest ==
    ASSUME DraftInv, NEW c \in Clients, NEW r \in Revisions, NEW b \in Blobs \cup {None},
           NEW op \in Operations,
           Begin(c, r, op, b)
    PROVE  /\ client' \in [Clients -> Request]
           /\ client'[c] \in Request
           /\ client'[c].op = op /\ client'[c].revision = r /\ client'[c].blob = b
           /\ client'[c].version = revision[r].version /\ client'[c].status = revision[r].status
           /\ client'[c].metadata = revision[r].metadata /\ client'[c].seen = artifact[r]
           /\ \A e \in Clients \ {c} : client'[e] = client[e]
  <1> DEFINE q == [op |-> op, revision |-> r, blob |-> b, version |-> revision[r].version,
                   status |-> revision[r].status, metadata |-> revision[r].metadata,
                   seen |-> artifact[r], blockers |-> {}]
  <1>1. q \in Request
    BY DEF DraftInv, DraftTypes, PackageRevision, Request
  <1>2. client' = [client EXCEPT ![c] = q] /\ client \in [Clients -> Request]
    BY DEF Begin, DraftInv, DraftTypes
  <1>3. /\ q.op = op /\ q.revision = r /\ q.blob = b /\ q.version = revision[r].version
        /\ q.status = revision[r].status /\ q.metadata = revision[r].metadata /\ q.seen = artifact[r]
    OBVIOUS
  <1> HIDE DEF q
  <1>4. client'[c] = q /\ client' \in [Clients -> Request]
    BY <1>1, <1>2
  <1>5. QED
    BY <1>1, <1>2, <1>3, <1>4

LEMMA EndedRequest ==
    ASSUME DraftInv, NEW c \in Clients, End(c)
    PROVE  /\ client' \in [Clients -> Request] /\ client'[c] = Idle
           /\ \A e \in Clients \ {c} : client'[e] = client[e]
  BY IdleRequest DEF End, DraftInv, DraftTypes

(* The steps that only begin or end a request, or write blobs: no row of a *)
(* revision changes.                                                       *)
LEMMA RollbackInvariant ==
    ASSUME DraftInv, NEW c \in Clients, Rollback(c)
    PROVE  DraftInv'
  <1>1. client' \in [Clients -> Request] /\ client'[c] = Idle
        /\ \A e \in Clients \ {c} : client'[e] = client[e]
    BY EndedRequest DEF Rollback
  <1>2. DraftTypes'
    BY <1>1 DEF DraftInv, DraftTypes, Rollback
  <1>3. RequestOK(client[c])' /\ client'[c].op \notin Holding
    BY <1>1, IdleRequest DEF RequestOK, Holding
  <1>4. ViewOK(view[c])'
    BY DEF DraftInv, ViewOK, Rollback
  <1>5. QED
    BY <1>1, <1>2, <1>3, <1>4, RequestStep DEF Rollback

LEMMA UploadInvariant ==
    ASSUME DraftInv, NEW c \in Clients, NEW r \in Revisions, NEW b \in Blobs, Upload(c, r, b)
    PROVE  DraftInv'
  <1>1. /\ client' \in [Clients -> Request] /\ client'[c].op = "staged"
        /\ client'[c].revision = r /\ client'[c].blob = b /\ client'[c].seen = artifact[r]
        /\ \A e \in Clients \ {c} : client'[e] = client[e]
    BY BegunRequest DEF Upload, Operations
  <1>2. /\ revision[r].status = "uploading" /\ revision[r].version < MaxVersion /\ Unlocked(r)
        /\ UNCHANGED <<revision, artifact, draft, sealed, snapshots, proposal, blob, file, view>>
        /\ staging' = staging \cup {c}
    BY DEF Upload, UploadBegins, Mutable
  <1>3. DraftTypes'
    BY <1>1, <1>2 DEF DraftInv, DraftTypes
  <1>4. RequestOK(client[c])'
    BY <1>1, <1>2 DEF RequestOK, Holding
  <1>5. ViewOK(view[c])'
    BY <1>2 DEF DraftInv, ViewOK
  <1>6. QED
    BY <1>1, <1>2, <1>3, <1>4, <1>5, RequestStep

LEMMA StoreInvariant ==
    ASSUME DraftInv, NEW c \in Clients, Store(c)
    PROVE  DraftInv'
  <1>1. /\ client[c].op = "staged" /\ staging' = staging \ {c}
        /\ UNCHANGED <<revision, artifact, draft, sealed, snapshots, proposal, file, view>>
    BY DEF Store
  <1>2. client[c] \in Request /\ RequestOK(client[c])
    BY DEF DraftInv, DraftTypes
  <1>3. ViewOK(view[c])'
    BY <1>1 DEF DraftInv, ViewOK
  <1>4. CASE blob' = blob \cup {client[c].blob} /\ client' = [client EXCEPT ![c].op = "stored"]
    <2>1. client'[c] = [client[c] EXCEPT !.op = "stored"]
          /\ \A e \in Clients \ {c} : client'[e] = client[e]
      BY <1>4 DEF DraftInv, DraftTypes
    <2>2. /\ client'[c] \in Request /\ client'[c].op = "stored"
          /\ client'[c].revision = client[c].revision /\ client'[c].blob = client[c].blob
          /\ client'[c].seen = client[c].seen
      BY <1>2, <2>1 DEF Request, Operations
    <2>3. client[c].blob \in Blobs
      BY <1>1, <1>2 DEF RequestOK
    <2>4. client' \in [Clients -> Request]
      BY <1>4, <2>1, <2>2 DEF DraftInv, DraftTypes
    <2>5. DraftTypes'
      BY <1>1, <1>4, <2>3, <2>4 DEF DraftInv, DraftTypes
    <2>6. RequestOK(client[c])'
      BY <1>1, <1>2, <1>4, <2>2 DEF RequestOK, Holding
    <2>7. client[c].op \in Holding
      BY <1>1 DEF Holding
    <2>8. QED
      BY <1>1, <1>3, <1>4, <2>1, <2>2, <2>5, <2>6, <2>7, RequestStep
  <1>5. CASE blob' = blob /\ End(c)
    <2>1. client' \in [Clients -> Request] /\ client'[c] = Idle
          /\ \A e \in Clients \ {c} : client'[e] = client[e]
      BY <1>5, EndedRequest
    <2>2. DraftTypes'
      BY <1>1, <1>5, <2>1 DEF DraftInv, DraftTypes
    <2>3. RequestOK(client[c])' /\ client'[c].op \notin Holding
      BY <2>1, IdleRequest DEF RequestOK, Holding
    <2>4. QED
      BY <1>1, <1>3, <1>5, <2>1, <2>2, <2>3, RequestStep
  <1>6. QED
    BY <1>4, <1>5 DEF Store, StoreStream

LEMMA FinalizeInvariant ==
    ASSUME DraftInv, NEW c \in Clients, NEW r \in Revisions, Finalize(c, r)
    PROVE  DraftInv'
  <1>1. /\ client' \in [Clients -> Request] /\ client'[c].op = "written"
        /\ client'[c].revision = r /\ client'[c].seen = artifact[r]
        /\ \A e \in Clients \ {c} : client'[e] = client[e]
    BY BegunRequest DEF Finalize, Operations
  <1>2. /\ revision[r].status = "uploading" /\ revision[r].version < MaxVersion /\ Unlocked(r)
        /\ UNCHANGED <<revision, artifact, draft, sealed, snapshots, proposal, blob, staging, view>>
        /\ file' = [file EXCEPT ![r] = artifact[r]]
    BY DEF Finalize, Mutable, WrittenManifest
  <1>3. /\ file' \in [Revisions -> SUBSET Blobs] /\ file'[r] = artifact[r]
        /\ \A q \in Revisions \ {r} : file'[q] = file[q]
    BY <1>2 DEF DraftInv, DraftTypes
  <1>4. DraftTypes'
    BY <1>1, <1>2, <1>3 DEF DraftInv, DraftTypes
  <1>5. RequestOK(client[c])'
    BY <1>1, <1>2, <1>3 DEF RequestOK, Holding
  <1>6. ViewOK(view[c])'
    BY <1>2 DEF DraftInv, ViewOK
  <1>7. view' = view /\ revision' = revision /\ Unlocked(client'[c].revision)
    BY <1>1, <1>2
  <1>8. \A q \in Revisions : file'[q] = file[q] \/ (Unlocked(q) /\ revision[q].status = "uploading")
    BY <1>2, <1>3
  <1>9. QED
    BY <1>1, <1>2, <1>4, <1>5, <1>6, <1>7, <1>8, RequestStep

LEMMA ReadRevisionInvariant ==
    ASSUME DraftInv, NEW c \in Clients, NEW r \in Revisions, ReadRevision(c, r)
    PROVE  DraftInv'
  <1>1. /\ client' \in [Clients -> Request] /\ client'[c].op = "reading"
        /\ client'[c].revision = r /\ client'[c].version = revision[r].version
        /\ client'[c].metadata = revision[r].metadata /\ client'[c].status = revision[r].status
        /\ \A e \in Clients \ {c} : client'[e] = client[e]
    BY BegunRequest DEF ReadRevision, Operations
  <1>2. UNCHANGED <<revision, artifact, draft, sealed, snapshots, proposal, blob, staging, file, view>>
    BY DEF ReadRevision, storage
  <1>3. DraftTypes'
    BY <1>1, <1>2 DEF DraftInv, DraftTypes
  <1>4. revision[r].version <= revision[r].version
    BY PackageAssumption DEF DraftInv, DraftTypes, PackageRevision
  <1>5. RequestOK(client[c])' /\ client'[c].op \notin Holding
    BY <1>1, <1>2, <1>4 DEF RequestOK, Holding
  <1>6. ViewOK(view[c])'
    BY <1>2 DEF DraftInv, ViewOK
  <1>7. QED
    BY <1>1, <1>2, <1>3, <1>5, <1>6, RequestStep

LEMMA ReviewInvariant ==
    ASSUME DraftInv, NEW c \in Clients, NEW r \in Revisions, Review(c, r)
    PROVE  DraftInv'
  <1>1. /\ client' \in [Clients -> Request] /\ client'[c].op = "reviewing"
        /\ client'[c].revision = r
        /\ \A e \in Clients \ {c} : client'[e] = client[e]
    BY BegunRequest DEF Review, Operations
  <1>2. UNCHANGED <<revision, artifact, draft, sealed, snapshots, proposal, blob, staging, file, view>>
    BY DEF Review, storage
  <1>3. DraftTypes'
    BY <1>1, <1>2 DEF DraftInv, DraftTypes
  <1>4. RequestOK(client[c])' /\ client'[c].op \notin Holding
    BY <1>1, <1>2 DEF RequestOK, Holding
  <1>5. ViewOK(view[c])'
    BY <1>2 DEF DraftInv, ViewOK
  <1>6. QED
    BY <1>1, <1>2, <1>3, <1>4, <1>5, RequestStep

LEMMA CommitReviewInvariant ==
    ASSUME DraftInv, NEW c \in Clients, CommitReview(c)
    PROVE  DraftInv'
  <1>1. /\ client' \in [Clients -> Request] /\ client'[c] = Idle
        /\ \A e \in Clients \ {c} : client'[e] = client[e]
    BY EndedRequest DEF CommitReview
  <1>2. UNCHANGED <<revision, artifact, draft, sealed, snapshots, blob, staging, file, view>>
    BY DEF CommitReview, storage
  <1>3. PICK t \in Targets, s \in {"accepted", "edited", "rejected"}, v \in Values :
          proposal' = [proposal EXCEPT ![client[c].revision][t] = [value |-> v, status |-> s]]
    BY DEF CommitReview
  <1>4. [value |-> v, status |-> s] \in FactProposal
    BY DEF FactProposal
  <1>5. proposal' \in [Revisions -> [Targets -> FactProposal]]
    BY <1>3, <1>4 DEF DraftInv, DraftTypes
  <1>6. DraftTypes'
    BY <1>1, <1>2, <1>5 DEF DraftInv, DraftTypes
  <1>7. RequestOK(client[c])' /\ client'[c].op \notin Holding
    BY <1>1, IdleRequest DEF RequestOK, Holding
  <1>8. ViewOK(view[c])'
    BY <1>2 DEF DraftInv, ViewOK
  <1>9. QED
    BY <1>1, <1>2, <1>6, <1>7, <1>8, RequestStep

LEMMA GetRevisionInvariant ==
    ASSUME DraftInv, NEW c \in Clients, NEW r \in Revisions, GetRevision(c, r)
    PROVE  DraftInv'
  <1> DEFINE v == [revision |-> r, version |-> revision[r].version, document |-> {},
                   blockers |-> {}]
  <1>1. /\ UNCHANGED <<revision, artifact, draft, sealed, snapshots, proposal, blob, staging, file,
                       client>>
        /\ view' = [view EXCEPT ![c] = v]
    BY DEF GetRevision, storage
  <1>2. v \in View
    BY DEF DraftInv, DraftTypes, PackageRevision, View
  <1>3. /\ view' \in [Clients -> View] /\ view'[c] = v
        /\ \A e \in Clients \ {c} : view'[e] = view[e]
    BY <1>1, <1>2 DEF DraftInv, DraftTypes
  <1>4. DraftTypes'
    BY <1>1, <1>3 DEF DraftInv, DraftTypes
  <1>5. RequestOK(client[c])'
    BY <1>1 DEF DraftInv, RequestOK
  <1>6. revision[r].version <= revision[r].version
    BY PackageAssumption DEF DraftInv, DraftTypes, PackageRevision
  <1>7. ViewOK(view[c])'
    BY <1>1, <1>3, <1>6 DEF ViewOK, Standing
  <1>8. QED
    BY <1>1, <1>3, <1>4, <1>5, <1>7, RequestStep

(* What a client is shown of the drafts that were read                     *)
LEMMA ShownView ==
    ASSUME DraftInv, NEW c \in Clients, client[c].op # "idle",
           NEW d \in SUBSET PackageRevisionDraft
    PROVE  /\ Shown(c, d) \in View
           /\ Shown(c, d).revision = client[c].revision
           /\ Shown(c, d).version = client[c].version
           /\ Shown(c, d).document = {Normalize(x.document, client[c].metadata) : x \in d}
           /\ Shown(c, d).blockers = {}
  <1>1. client[c] \in Request
    BY DEF DraftInv, DraftTypes
  <1>2. client[c].metadata \in Metadata
    BY <1>1 DEF Request
  <1>3. \A x \in d : Normalize(x.document, client[c].metadata) \in Document
    BY <1>2, NormalizeType DEF PackageRevisionDraft
  <1>4. {Normalize(x.document, client[c].metadata) : x \in d} \in SUBSET Document
    BY <1>3
  <1>5. QED
    BY <1>1, <1>4 DEF Shown, View, Request

LEMMA ReadDraftInvariant ==
    ASSUME DraftInv, NEW c \in Clients, ReadDraft(c)
    PROVE  DraftInv'
  <1> PICK r : r = client[c].revision
    OBVIOUS
  <1>1. client[c] \in Request /\ RequestOK(client[c]) /\ client[c].op = "reading"
    BY DEF DraftInv, DraftTypes, ReadDraft
  <1>2. UNCHANGED <<revision, artifact, draft, sealed, snapshots, proposal, blob, staging, file>>
    BY DEF ReadDraft, storage
  <1>3. /\ r \in Revisions /\ client[c].version <= revision[r].version
        /\ client[c].version = revision[r].version =>
             /\ client[c].metadata = revision[r].metadata /\ client[c].status = revision[r].status
    BY <1>1 DEF RequestOK
  <1>4. CASE Migrates(r) /\ client' = [client EXCEPT ![c].op = "migrating"] /\ view' = view
    <2>1. client'[c] = [client[c] EXCEPT !.op = "migrating"]
          /\ \A e \in Clients \ {c} : client'[e] = client[e]
      BY <1>4 DEF DraftInv, DraftTypes
    <2>2. /\ client'[c] \in Request /\ client'[c].op = "migrating"
          /\ client'[c].revision = r /\ client'[c].version = client[c].version
          /\ client'[c].metadata = client[c].metadata /\ client'[c].status = client[c].status
      BY <1>1, <2>1 DEF Request, Operations
    <2>3. client' \in [Clients -> Request]
      BY <1>4, <2>1, <2>2 DEF DraftInv, DraftTypes
    <2>4. DraftTypes'
      BY <1>2, <1>4, <2>3 DEF DraftInv, DraftTypes
    <2>5. revision[r].status \in Confirmable
      BY <1>4 DEF Migrates, Confirmable
    <2>6. RequestOK(client[c])' /\ client'[c].op \notin Holding
      BY <1>2, <1>3, <2>2, <2>5 DEF RequestOK, Holding
    <2>7. ViewOK(view[c])'
      BY <1>2, <1>4 DEF DraftInv, ViewOK
    <2>8. QED
      BY <1>2, <1>4, <2>1, <2>4, <2>6, <2>7, RequestStep
  <1>5. CASE End(c) /\ view' = [view EXCEPT ![c] = Shown(c, draft[r])]
    <2>1. /\ client' \in [Clients -> Request] /\ client'[c] = Idle
          /\ \A e \in Clients \ {c} : client'[e] = client[e]
      BY <1>5, EndedRequest
    <2>2. RequestOK(client[c])' /\ client'[c].op \notin Holding
      BY <2>1, IdleRequest DEF RequestOK, Holding
    <2>3. draft[r] \in SUBSET PackageRevisionDraft
      BY <1>3 DEF DraftInv, DraftTypes
    <2>4. /\ Shown(c, draft[r]) \in View /\ Shown(c, draft[r]).revision = r
          /\ Shown(c, draft[r]).version = client[c].version
          /\ Shown(c, draft[r]).document =
               {Normalize(x.document, client[c].metadata) : x \in draft[r]}
          /\ Shown(c, draft[r]).blockers = {}
      BY <1>1, <2>3, ShownView
    <2>5. /\ view' \in [Clients -> View] /\ view'[c] = Shown(c, draft[r])
          /\ \A e \in Clients \ {c} : view'[e] = view[e]
      BY <1>5, <2>4 DEF DraftInv, DraftTypes
    <2>6. DraftTypes'
      BY <1>2, <2>1, <2>5 DEF DraftInv, DraftTypes
    <2>7. ViewOK(view[c])'
      <3> PICK v : v = Shown(c, draft[r])
        OBVIOUS
      <3>1. view'[c] = v /\ v.revision = r /\ v.blockers = {} /\ v.version = client[c].version
        BY <2>4, <2>5
      <3>2. Standing(v.blockers, revision'[v.revision], draft'[v.revision])
        BY <3>1, NothingStands
      <3>3. QED
        BY <1>2, <1>3, <2>4, <3>1, <3>2 DEF ViewOK
    <2>8. QED
      BY <1>2, <2>1, <2>2, <2>5, <2>6, <2>7, RequestStep
  <1>6. QED
    BY <1>4, <1>5 DEF ReadDraft

(* What the report lists when it reads the draft holds of what it reads.   *)
LEMMA ReportedStands ==
    ASSUME NEW row, NEW drafts, NEW pending \in BOOLEAN
    PROVE  LET B == ReportBlockers(row.status, row.metadata, {d.document : d \in drafts}, pending)
           IN  B \in SUBSET Blockers /\ Standing(B, row, drafts)
  BY DEF ReportBlockers, Blockers, Standing

LEMMA ReportDraftInvariant ==
    ASSUME DraftInv, NEW c \in Clients, ReportDraft(c)
    PROVE  DraftInv'
  <1> PICK r : r = client[c].revision
    OBVIOUS
  <1> PICK B : B = ReportBlockers(client[c].status, client[c].metadata,
                                  {d.document : d \in draft[r]}, TRUE)
    OBVIOUS
  <1>1. client[c] \in Request /\ RequestOK(client[c]) /\ client[c].op = "reading"
    BY DEF DraftInv, DraftTypes, ReportDraft
  <1>2. UNCHANGED <<revision, artifact, draft, sealed, snapshots, proposal, blob, staging, file,
                    view>>
    BY DEF ReportDraft, storage
  <1>3. /\ r \in Revisions /\ client[c].version <= revision[r].version
        /\ client[c].version = revision[r].version =>
             /\ client[c].metadata = revision[r].metadata /\ client[c].status = revision[r].status
    BY <1>1 DEF RequestOK
  <1>4. ViewOK(view[c])'
    BY <1>2 DEF DraftInv, ViewOK
  <1>5. CASE client' = [client EXCEPT ![c].op = "reporting", ![c].blockers = B]
    <2>1. /\ client'[c] = [client[c] EXCEPT !.op = "reporting", !.blockers = B]
          /\ \A e \in Clients \ {c} : client'[e] = client[e]
      BY <1>5 DEF DraftInv, DraftTypes
    <2>2. B \in SUBSET Blockers
      BY DEF ReportBlockers, Blockers
    <2>3. /\ client'[c] \in Request /\ client'[c].op = "reporting" /\ client'[c].blockers = B
          /\ client'[c].revision = r /\ client'[c].version = client[c].version
          /\ client'[c].metadata = client[c].metadata /\ client'[c].status = client[c].status
      BY <1>1, <2>1, <2>2 DEF Request, Operations
    <2>4. client' \in [Clients -> Request]
      BY <1>5, <2>1, <2>3 DEF DraftInv, DraftTypes
    <2>5. DraftTypes'
      BY <1>2, <2>4 DEF DraftInv, DraftTypes
    <2>6. client[c].version = revision[r].version => Standing(B, revision[r], draft[r])
      BY <1>3, ReportedStands
    <2>7. RequestOK(client[c])' /\ client'[c].op \notin Holding
      BY <1>2, <1>3, <2>3, <2>6 DEF RequestOK, Holding
    <2>8. QED
      BY <1>2, <1>4, <2>1, <2>5, <2>7, RequestStep
  <1>6. CASE End(c)
    <2>1. client' \in [Clients -> Request] /\ client'[c] = Idle
          /\ \A e \in Clients \ {c} : client'[e] = client[e]
      BY <1>6, EndedRequest
    <2>2. DraftTypes'
      BY <1>2, <2>1 DEF DraftInv, DraftTypes
    <2>3. RequestOK(client[c])' /\ client'[c].op \notin Holding
      BY <2>1, IdleRequest DEF RequestOK, Holding
    <2>4. QED
      BY <1>2, <1>4, <2>1, <2>2, <2>3, RequestStep
  <1>7. QED
    BY <1>5, <1>6 DEF ReportDraft

LEMMA ReportProposalsInvariant ==
    ASSUME DraftInv, NEW c \in Clients, ReportProposals(c)
    PROVE  DraftInv'
  <1> PICK r : r = client[c].revision
    OBVIOUS
  <1> PICK B : B = IF Pending(r) THEN client[c].blockers
                   ELSE client[c].blockers \ {"pending_legacy_fact_proposals"}
    OBVIOUS
  <1> DEFINE v == [revision |-> r, version |-> client[c].version, document |-> {}, blockers |-> B]
  <1>1. client[c] \in Request /\ RequestOK(client[c]) /\ client[c].op = "reporting"
    BY DEF DraftInv, DraftTypes, ReportProposals
  <1>2. /\ UNCHANGED <<revision, artifact, draft, sealed, snapshots, proposal, blob, staging, file>>
        /\ view' = [view EXCEPT ![c] = v] /\ End(c)
    BY DEF ReportProposals, ReportedVersion, storage
  <1>3. /\ r \in Revisions /\ client[c].version <= revision[r].version
        /\ client[c].version = revision[r].version => Standing(client[c].blockers, revision[r], draft[r])
    BY <1>1 DEF RequestOK
  <1>4. client[c].version = revision[r].version => Standing(B, revision[r], draft[r])
    BY <1>3 DEF Standing
  <1>5. v \in View
    BY <1>1, <1>3 DEF Request, View
  <1>6. /\ view' \in [Clients -> View] /\ view'[c] = v
        /\ \A e \in Clients \ {c} : view'[e] = view[e]
    BY <1>2, <1>5 DEF DraftInv, DraftTypes
  <1>7. /\ client' \in [Clients -> Request] /\ client'[c] = Idle
        /\ \A e \in Clients \ {c} : client'[e] = client[e]
    BY <1>2, EndedRequest
  <1>8. DraftTypes'
    BY <1>2, <1>6, <1>7 DEF DraftInv, DraftTypes
  <1>9. RequestOK(client[c])' /\ client'[c].op \notin Holding
    BY <1>7, IdleRequest DEF RequestOK, Holding
  <1>10. ViewOK(view[c])'
    BY <1>2, <1>3, <1>4, <1>6 DEF ViewOK
  <1>11. QED
    BY <1>2, <1>6, <1>7, <1>8, <1>9, <1>10, RequestStep

LEMMA CleanupInvariant ==
    ASSUME DraftInv, CleanupStale
    PROVE  DraftInv'
  <1>1. /\ UNCHANGED <<revision, artifact, draft, sealed, snapshots, proposal, blob, file, client, view>>
        /\ staging' = {}
    BY DEF CleanupStale
  <1>2. DraftTypes'
    BY <1>1 DEF DraftInv, DraftTypes
  <1>3. ASSUME NEW r \in Revisions PROVE StoredOK(r)' /\ KnownOK(r)'
    BY <1>1 DEF DraftInv, StoredOK, KnownOK, Files
  <1>4. ASSUME NEW c \in Clients PROVE RequestOK(client[c])' /\ ViewOK(view[c])'
    BY <1>1 DEF DraftInv, RequestOK, ViewOK
  <1>5. OneHolder'
    BY <1>1 DEF DraftInv, OneHolder
  <1>6. QED
    BY <1>2, <1>3, <1>4, <1>5 DEF DraftInv

(* The migration of a legacy revision                                      *)
LEMMA LegacyDraftType ==
    ASSUME DraftInv, NEW r \in Revisions, NEW m \in Metadata
    PROVE  LegacyDraft(r, m) \in PackageRevisionDraft /\ LegacyDraft(r, m).by = "legacy"
  <1>1. proposal[r] \in [Targets -> FactProposal]
    BY DEF DraftInv, DraftTypes
  <1>2. [t \in Targets |-> proposal[r][t].value] \in Fields
    BY <1>1 DEF Fields, FactProposal
  <1>3. LegacyManifest(r) \in FileContent
    BY <1>2 DEF LegacyManifest, FileContent
  <1>4. {LegacyManifest(r)} \in SUBSET FileContent
    BY <1>3
  <1>5. /\ InitialDraft({LegacyManifest(r)}, m) \in Document
        /\ BaseProvenance({LegacyManifest(r)}) \in [Targets -> SUBSET Nat]
    BY <1>4, InitialDraftType
  <1>6. QED
    BY <1>5 DEF LegacyDraft, PackageRevisionDraft

LEMMA MigrateInvariant ==
    ASSUME DraftInv, NEW c \in Clients, Migrate(c)
    PROVE  DraftInv'
  <1> PICK r : r = client[c].revision
    OBVIOUS
  <1> PICK d : d = LegacyDraft(r, client[c].metadata)
    OBVIOUS
  <1>1. /\ client[c].op = "migrating" /\ draft[r] = {}
        /\ draft' = [draft EXCEPT ![r] = {d}]
        /\ view' = [view EXCEPT ![c] = Shown(c, {d})]
        /\ End(c)
        /\ UNCHANGED <<revision, artifact, sealed, snapshots, proposal, blob, staging, file>>
    BY DEF Migrate, storage
  <1>2. client[c] \in Request /\ RequestOK(client[c])
    BY DEF DraftInv, DraftTypes
  <1>3. /\ r \in Revisions /\ revision[r].status \in Confirmable
        /\ client[c].version <= revision[r].version
        /\ client[c].version = revision[r].version => client[c].metadata = revision[r].metadata
    BY <1>1, <1>2 DEF RequestOK
  <1>4. d \in PackageRevisionDraft /\ d.by = "legacy"
    BY <1>2, <1>3, LegacyDraftType DEF Request
  <1>5. /\ draft'[r] = {d} /\ \A q \in Revisions \ {r} : draft'[q] = draft[q]
        /\ draft' \in [Revisions -> SUBSET PackageRevisionDraft]
    BY <1>1, <1>3, <1>4 DEF DraftInv, DraftTypes
  <1>6. /\ client' \in [Clients -> Request] /\ client'[c] = Idle
        /\ \A e \in Clients \ {c} : client'[e] = client[e]
    BY <1>1, EndedRequest
  <1>7. /\ Shown(c, {d}) \in View /\ Shown(c, {d}).revision = r
        /\ Shown(c, {d}).version = client[c].version
        /\ Shown(c, {d}).document = {Normalize(x.document, client[c].metadata) : x \in {d}}
        /\ Shown(c, {d}).blockers = {}
    BY <1>1, <1>4, ShownView
  <1>8. /\ view' \in [Clients -> View] /\ view'[c] = Shown(c, {d})
        /\ \A e \in Clients \ {c} : view'[e] = view[e]
    BY <1>1, <1>7 DEF DraftInv, DraftTypes
  <1>9. DraftTypes'
    BY <1>1, <1>5, <1>6, <1>8 DEF DraftInv, DraftTypes
  <1>10. ASSUME NEW q \in Revisions PROVE StoredOK(q)' /\ KnownOK(q)'
    <2>1. StoredOK(q)'
      BY <1>1 DEF DraftInv, StoredOK
    <2>2. CASE q # r
      BY <1>1, <1>5, <2>1, <2>2 DEF DraftInv, KnownOK, Files
    <2>3. CASE q = r
      <3>1. Grounded(d, Files(r)')
        BY <1>4 DEF Grounded
      <3>2. KnownOK(r)
        BY <1>3 DEF DraftInv
      <3>3. revision[r].status # "absent"
        BY <1>3 DEF Confirmable
      <3>4. KnownOK(r)'
        BY <1>1, <1>3, <1>5, <3>1, <3>2, <3>3 DEF KnownOK
      <3>5. QED
        BY <2>1, <2>3, <3>4
    <2>4. QED
      BY <2>2, <2>3
  <1>11. ASSUME NEW e \in Clients PROVE RequestOK(client[e])' /\ ViewOK(view[e])'
    <2>1. CASE e = c
      <3>1. RequestOK(client[c])'
        BY <1>6, IdleRequest DEF RequestOK, Holding
      <3>2. ViewOK(view[c])'
        <4> PICK v : v = Shown(c, {d})
          OBVIOUS
        <4>1. view'[c] = v /\ v.revision = r /\ v.blockers = {} /\ v.version = client[c].version
          BY <1>7, <1>8
        <4>2. Standing(v.blockers, revision'[v.revision], draft'[v.revision])
          BY <4>1, NothingStands
        <4>3. v.document = {Normalize(x.document, client[c].metadata) : x \in {d}}
          BY <1>7
        <4>4. /\ revision' = revision /\ draft'[r] = {d} /\ v.version <= revision[r].version
              /\ v.version = revision[r].version => client[c].metadata = revision[r].metadata
          BY <1>1, <1>3, <1>5, <4>1
        <4>5. QED
          BY <4>1, <4>2, <4>3, <4>4 DEF ViewOK
      <3>3. QED
        BY <2>1, <3>1, <3>2
    <2>2. CASE e # c
      <3>1. client'[e] = client[e] /\ view'[e] = view[e] /\ RequestOK(client[e]) /\ ViewOK(view[e])
        BY <2>2, <1>6, <1>8 DEF DraftInv
      <3>2. RequestOK(client[e])'
        <4> PICK q : q = client[e]
          OBVIOUS
        <4>1. RequestOK(q) /\ client'[e] = q
          BY <3>1
        <4>2. /\ q.op = "reporting" => q.revision \in Revisions
              /\ q.op = "reporting" /\ q.version = revision[q.revision].version =>
                   Standing(q.blockers, revision[q.revision], draft[q.revision])
          BY <4>1 DEF RequestOK
        <4>3. q.op = "reporting" /\ q.version = revision[q.revision].version =>
                Standing(q.blockers, revision[q.revision], draft'[q.revision])
          <5>1. CASE q.revision = r
            BY <1>1, <4>2, <5>1, InsertedStands
          <5>2. CASE q.revision \in Revisions \ {r}
            <6>1. draft'[q.revision] = draft[q.revision]
              BY <1>5, <5>2
            <6>2. QED
              BY <4>2, <6>1
          <5>3. QED
            BY <4>2, <5>1, <5>2
        <4>4. QED
          BY <1>1, <4>1, <4>3 DEF RequestOK
      <3>3. view[e].revision \in Revisions \cup {None}
        BY DEF DraftInv, DraftTypes, View
      <3>4. view[e].revision = r => view[e].document = {}
        BY <1>1, <1>3, <3>1, PackageAssumption DEF ViewOK
      <3>5. ViewOK(view[e])'
        <4> PICK v : v = view[e]
          OBVIOUS
        <4>1. ViewOK(v) /\ v.revision \in Revisions \cup {None} /\ (v.revision = r => v.document = {})
          BY <3>1, <3>3, <3>4
        <4>2. revision' = revision
          BY <1>1
        <4>3. CASE v.revision = r
          <5>1. r # None
            BY <1>3, PackageAssumption
          <5>2. v.version = revision[r].version => Standing(v.blockers, revision[r], draft'[r])
            BY <1>1, <4>1, <4>3, <5>1, InsertedStands DEF ViewOK
          <5>3. v.version <= revision[r].version /\ v.document = {}
            BY <4>1, <4>3, <5>1 DEF ViewOK
          <5>4. QED
            BY <3>1, <4>2, <4>3, <5>2, <5>3 DEF ViewOK
        <4>4. CASE v.revision \in Revisions \ {r}
          <5>1. draft'[v.revision] = draft[v.revision]
            BY <1>5, <4>4
          <5>2. QED
            BY <3>1, <4>1, <4>2, <5>1 DEF ViewOK
        <4>5. CASE v.revision = None
          BY <3>1, <4>5 DEF ViewOK
        <4>6. QED
          BY <4>1, <4>3, <4>4, <4>5
      <3>6. QED
        BY <3>2, <3>5
    <2>3. QED
      BY <2>1, <2>2
  <1>12. OneHolder'
    BY <1>6, IdleRequest DEF DraftInv, OneHolder, Holding
  <1>13. QED
    BY <1>9, <1>10, <1>11, <1>12 DEF DraftInv

-----------------------------------------------------------------------------
(* A new row of a revision                                                 *)
LEMMA AddedRow ==
    ASSUME DraftInv, NEW r \in Revisions, NEW row \in PackageRevision,
           revision' = [revision EXCEPT ![r] = row]
    PROVE  /\ revision' \in [Revisions -> PackageRevision] /\ revision'[r] = row
           /\ \A q \in Revisions \ {r} : revision'[q] = revision[q]
  BY DEF DraftInv, DraftTypes

(* The version of a row rises with it.                                     *)
LEMMA NextVersion ==
    ASSUME DraftInv, NEW r \in Revisions, revision[r].version < MaxVersion
    PROVE  /\ revision[r].version + 1 \in 0..MaxVersion
           /\ revision[r].version + 1 > revision[r].version
  BY PackageAssumption DEF DraftInv, DraftTypes, PackageRevision

(* No request holds a revision whose lock was free, or that was held by    *)
(* the one that ends.                                                      *)
LEMMA NobodyHolds ==
    ASSUME NEW r \in Revisions, Unlocked(r), client' = client
    PROVE  \A c \in Clients :
              \/ client'[c] = Idle
              \/ client'[c] = client[c] /\ ~(client[c].op \in Holding /\ client[c].revision = r)
  BY DEF Unlocked, Holding

LEMMA OnlyHolder ==
    ASSUME DraftInv, NEW c \in Clients, client[c].op \in Holding, End(c)
    PROVE  \A e \in Clients :
              \/ client'[e] = Idle
              \/ /\ client'[e] = client[e]
                 /\ ~(client[e].op \in Holding /\ client[e].revision = client[c].revision)
  <1>1. client'[c] = Idle /\ \A e \in Clients \ {c} : client'[e] = client[e]
    BY EndedRequest
  <1>2. QED
    BY <1>1 DEF DraftInv, OneHolder

(* The transactions that write the row of a revision                       *)
LEMMA CreateInvariant ==
    ASSUME DraftInv, NEW c \in Clients, NEW r \in Revisions, Create(c, r)
    PROVE  DraftInv'
  <1> PICK m \in Metadatas, p \in Revisions \cup {None} :
         revision' = [revision EXCEPT ![r] = [Absent EXCEPT !.status = "uploading", !.version = 1,
                                                            !.metadata = m, !.parent = p]]
    BY DEF Create
  <1> DEFINE row == [Absent EXCEPT !.status = "uploading", !.version = 1,
                                   !.metadata = m, !.parent = p]
  <1>1. /\ revision[r].status = "absent" /\ revision[r].version = 0
        /\ UNCHANGED <<artifact, draft, sealed, snapshots, proposal, blob, staging, file, client, view>>
    BY DEF Create, storage, DraftInv, KnownOK
  <1>2. m \in Metadata /\ 1 \in 0..MaxVersion
    BY PackageAssumption DEF CreateInput
  <1>3. row \in PackageRevision /\ row.status = "uploading" /\ row.version = 1 /\ row.manifest = {}
    BY <1>2 DEF Absent, PackageRevision, Statuses
  <1>4. revision' = [revision EXCEPT ![r] = row]
    OBVIOUS
  <1> HIDE DEF row
  <1>5. /\ revision' \in [Revisions -> PackageRevision] /\ revision'[r] = row
        /\ \A q \in Revisions \ {r} : revision'[q] = revision[q]
    BY <1>3, <1>4, AddedRow
  <1>6. DraftTypes'
    BY <1>1, <1>5 DEF DraftInv, DraftTypes
  <1>7. StoredOK(r) /\ KnownOK(r)
    BY DEF DraftInv
  <1>8. draft[r] = {} /\ sealed[r] = {}
    BY <1>1, <1>7 DEF KnownOK, Confirmable
  <1>9. StoredOK(r)'
    BY <1>1, <1>3, <1>5, <1>7 DEF StoredOK
  <1>10. KnownOK(r)'
    BY <1>1, <1>3, <1>5, <1>8 DEF KnownOK
  <1>11. ASSUME NEW e \in Clients
         PROVE  client'[e] = client[e] /\ ~(client[e].op \in Holding /\ client[e].revision = r)
    BY <1>1 DEF DraftInv, RequestOK
  <1>12. QED
    BY <1>1, <1>3, <1>5, <1>6, <1>8, <1>9, <1>10, <1>11, RowStep DEF Confirmable

LEMMA CommitUploadInvariant ==
    ASSUME DraftInv, NEW c \in Clients, CommitUpload(c)
    PROVE  DraftInv'
  <1> PICK r : r = client[c].revision
    OBVIOUS
  <1> PICK b : b = client[c].blob
    OBVIOUS
  <1>1. /\ client[c].op = "stored" /\ client[c].op \in Holding
        /\ WithinLimits(client[c].seen, b) /\ b \notin artifact[r]
        /\ artifact' = [artifact EXCEPT ![r] = @ \cup {b}]
        /\ revision' = [revision EXCEPT ![r].version = @ + 1]
        /\ End(c)
        /\ UNCHANGED <<draft, sealed, snapshots, proposal, blob, staging, file, view>>
    BY DEF CommitUpload, storage, Holding
  <1>2. /\ r \in Revisions /\ b \in Blobs /\ b \in blob
        /\ revision[r].status = "uploading" /\ revision[r].version < MaxVersion
        /\ client[c].seen = artifact[r]
    BY <1>1 DEF DraftInv, RequestOK
  <1>3. StoredOK(r) /\ KnownOK(r)
    BY <1>2 DEF DraftInv
  <1> DEFINE row == [revision[r] EXCEPT !.version = @ + 1]
  <1>4. /\ row \in PackageRevision /\ row.version = revision[r].version + 1
        /\ row.status = "uploading" /\ row.manifest = revision[r].manifest
    BY <1>2, NextVersion DEF DraftInv, DraftTypes, PackageRevision
  <1>5. revision' = [revision EXCEPT ![r] = row]
    BY <1>1, <1>2 DEF DraftInv, DraftTypes
  <1> HIDE DEF row
  <1>6. /\ revision' \in [Revisions -> PackageRevision] /\ revision'[r] = row
        /\ \A q \in Revisions \ {r} : revision'[q] = revision[q]
    BY <1>2, <1>4, <1>5, AddedRow
  <1>7. /\ artifact' \in [Revisions -> SUBSET Blobs] /\ artifact'[r] = artifact[r] \cup {b}
        /\ \A q \in Revisions \ {r} : artifact'[q] = artifact[q]
    BY <1>1, <1>2 DEF DraftInv, DraftTypes
  <1>8. client' \in [Clients -> Request]
    BY <1>1, EndedRequest
  <1>9. DraftTypes'
    BY <1>1, <1>6, <1>7, <1>8 DEF DraftInv, DraftTypes
  <1>10. StoredOK(r)'
    <2>1. artifact[r] \in SUBSET Blobs /\ IsFiniteSet(artifact[r]) /\ artifact[r] \subseteq blob
      BY <1>2, <1>3 DEF DraftInv, DraftTypes, StoredOK
    <2>2. /\ IsFiniteSet(artifact[r] \cup {b})
          /\ Cardinality(artifact[r] \cup {b}) = Cardinality(artifact[r]) + 1
      BY <1>1, <2>1, FS_AddElement
    <2>3. Bytes(artifact[r] \cup {b}) = Bytes(artifact[r]) + Size[b]
      BY <1>1, <1>2, <2>1, BytesAdd
    <2>4. Cardinality(artifact[r]) \in Nat /\ MaxFiles \in Nat
      BY <2>1, FS_CardinalityType, PackageAssumption
    <2>5. /\ Cardinality(artifact[r] \cup {b}) <= MaxFiles
          /\ Bytes(artifact[r] \cup {b}) <= MaxBytes
      BY <1>1, <1>2, <2>2, <2>3, <2>4 DEF WithinLimits
    <2>6. QED
      BY <1>1, <1>2, <1>3, <1>4, <1>6, <1>7, <2>1, <2>2, <2>5 DEF StoredOK
  <1>11. draft[r] = {} /\ sealed[r] = {}
    BY <1>2, <1>3 DEF KnownOK, Confirmable
  <1>12. KnownOK(r)'
    BY <1>1, <1>4, <1>6, <1>11 DEF KnownOK
  <1>13. revision'[r].version > revision[r].version
    BY <1>2, <1>4, <1>6, NextVersion
  <1>14. \A e \in Clients :
              \/ client'[e] = Idle
              \/ client'[e] = client[e] /\ ~(client[e].op \in Holding /\ client[e].revision = r)
    BY <1>1, OnlyHolder
  <1>15. QED
    BY <1>1, <1>2, <1>6, <1>7, <1>9, <1>10, <1>11, <1>12, <1>13, <1>14, RowStep DEF Confirmable

LEMMA CommitFinalizeInvariant ==
    ASSUME DraftInv, NEW c \in Clients, CommitFinalize(c)
    PROVE  DraftInv'
  <1> PICK r : r = client[c].revision
    OBVIOUS
  <1>1. /\ client[c].op = "written" /\ client[c].op \in Holding
        /\ revision' = [revision EXCEPT ![r].status = "scanning", ![r].manifest = file[r],
                                        ![r].version = @ + 1]
        /\ End(c)
        /\ UNCHANGED <<artifact, draft, sealed, snapshots, proposal, blob, staging, file, view>>
    BY DEF CommitFinalize, storage, Holding
  <1>2. /\ r \in Revisions /\ file[r] = artifact[r] /\ file[r] \in SUBSET Blobs
        /\ revision[r].status = "uploading" /\ revision[r].version < MaxVersion
    BY <1>1 DEF DraftInv, RequestOK, DraftTypes
  <1>3. StoredOK(r) /\ KnownOK(r)
    BY <1>2 DEF DraftInv
  <1> DEFINE row == [revision[r] EXCEPT !.status = "scanning", !.manifest = file[r],
                                        !.version = @ + 1]
  <1>4. /\ row \in PackageRevision /\ row.version = revision[r].version + 1
        /\ row.status = "scanning" /\ row.manifest = file[r]
    BY <1>2, NextVersion DEF DraftInv, DraftTypes, PackageRevision, Statuses
  <1>5. revision' = [revision EXCEPT ![r] = row]
    BY <1>1, <1>2 DEF DraftInv, DraftTypes
  <1> HIDE DEF row
  <1>6. /\ revision' \in [Revisions -> PackageRevision] /\ revision'[r] = row
        /\ \A q \in Revisions \ {r} : revision'[q] = revision[q]
    BY <1>2, <1>4, <1>5, AddedRow
  <1>7. client' \in [Clients -> Request]
    BY <1>1, EndedRequest
  <1>8. DraftTypes'
    BY <1>1, <1>6, <1>7 DEF DraftInv, DraftTypes
  <1>9. StoredOK(r)'
    BY <1>1, <1>2, <1>3, <1>4, <1>6 DEF StoredOK
  <1>10. draft[r] = {} /\ sealed[r] = {}
    BY <1>2, <1>3 DEF KnownOK, Confirmable
  <1>11. KnownOK(r)'
    BY <1>1, <1>4, <1>6, <1>10 DEF KnownOK
  <1>12. revision'[r].version > revision[r].version
    BY <1>2, <1>4, <1>6, NextVersion
  <1>13. \A e \in Clients :
              \/ client'[e] = Idle
              \/ client'[e] = client[e] /\ ~(client[e].op \in Holding /\ client[e].revision = r)
    BY <1>1, OnlyHolder
  <1>14. QED
    BY <1>1, <1>2, <1>6, <1>8, <1>9, <1>10, <1>11, <1>12, <1>13, RowStep DEF Confirmable

LEMMA ScanInvariant ==
    ASSUME DraftInv, NEW r \in Revisions, Scan(r)
    PROVE  DraftInv'
  <1> PICK s \in {"extracting", "quarantined", "invalid"} :
         revision' = [revision EXCEPT ![r].status = s, ![r].version = @ + 1]
    BY DEF Scan
  <1>1. /\ revision[r].status = "scanning" /\ revision[r].version < MaxVersion /\ Unlocked(r)
        /\ UNCHANGED <<artifact, draft, sealed, snapshots, proposal, blob, staging, file, client, view>>
    BY DEF Scan, storage
  <1>2. StoredOK(r) /\ KnownOK(r)
    BY DEF DraftInv
  <1> DEFINE row == [revision[r] EXCEPT !.status = s, !.version = @ + 1]
  <1>3. /\ row \in PackageRevision /\ row.version = revision[r].version + 1
        /\ row.status = s /\ row.manifest = revision[r].manifest
    BY <1>1, NextVersion DEF DraftInv, DraftTypes, PackageRevision, Statuses
  <1>4. revision' = [revision EXCEPT ![r] = row]
    BY DEF DraftInv, DraftTypes
  <1> HIDE DEF row
  <1>5. /\ revision' \in [Revisions -> PackageRevision] /\ revision'[r] = row
        /\ \A q \in Revisions \ {r} : revision'[q] = revision[q]
    BY <1>3, <1>4, AddedRow
  <1>6. DraftTypes'
    BY <1>1, <1>5 DEF DraftInv, DraftTypes
  <1>7. StoredOK(r)'
    BY <1>1, <1>2, <1>3, <1>5 DEF StoredOK
  <1>8. draft[r] = {} /\ sealed[r] = {}
    BY <1>1, <1>2 DEF KnownOK, Confirmable
  <1>9. KnownOK(r)'
    BY <1>1, <1>3, <1>5, <1>8 DEF KnownOK
  <1>10. revision'[r].version > revision[r].version
    BY <1>1, <1>3, <1>5, NextVersion
  <1>11. \A e \in Clients :
              \/ client'[e] = Idle
              \/ client'[e] = client[e] /\ ~(client[e].op \in Holding /\ client[e].revision = r)
    BY <1>1, NobodyHolds
  <1>12. QED
    BY <1>1, <1>5, <1>6, <1>7, <1>8, <1>9, <1>10, <1>11, RowStep DEF Confirmable

(* A mutation of a revision that nobody holds and that is, and stays,      *)
(* beyond uploading or else without a draft: what is left to show is its   *)
(* draft and its sealed content.                                           *)
LEMMA MutationStep ==
    ASSUME DraftInv, NEW r \in Revisions, Unlocked(r), NEW row \in PackageRevision,
           revision' = [revision EXCEPT ![r] = row],
           row.version = revision[r].version + 1, row.manifest = revision[r].manifest,
           revision[r].version < MaxVersion, row.status # "absent",
           row.status \in {"absent", "uploading"} <=> revision[r].status \in {"absent", "uploading"},
           revision[r].status \in Confirmable => row.status \in Confirmable,
           NEW newDraft \in SUBSET PackageRevisionDraft,
           draft' = [draft EXCEPT ![r] = newDraft],
           draft[r] # {} => newDraft # {},
           newDraft # {} => row.status \in Confirmable,
           newDraft = {} \/ \E d \in newDraft : newDraft = {d},
           \A d \in newDraft : Grounded(d, Files(r)),
           NEW newSealed \in SUBSET SealedPackageContent,
           sealed' = [sealed EXCEPT ![r] = newSealed],
           newSealed # {} => row.status = "ready",
           snapshots' \in Seq(SystemContextSnapshot),
           UNCHANGED <<artifact, proposal, blob, staging, file, client, view>>
    PROVE  DraftInv'
  <1>1. /\ revision' \in [Revisions -> PackageRevision] /\ revision'[r] = row
        /\ \A q \in Revisions \ {r} : revision'[q] = revision[q]
    BY AddedRow
  <1>2. /\ draft' \in [Revisions -> SUBSET PackageRevisionDraft] /\ draft'[r] = newDraft
        /\ \A q \in Revisions \ {r} : draft'[q] = draft[q]
    BY DEF DraftInv, DraftTypes
  <1>3. /\ sealed' \in [Revisions -> SUBSET SealedPackageContent] /\ sealed'[r] = newSealed
        /\ \A q \in Revisions \ {r} : sealed'[q] = sealed[q]
    BY DEF DraftInv, DraftTypes
  <1>4. DraftTypes'
    BY <1>1, <1>2, <1>3 DEF DraftInv, DraftTypes
  <1>5. StoredOK(r)'
    <2>1. StoredOK(r)
      BY DEF DraftInv
    <2>2. QED
      BY <1>1, <2>1 DEF StoredOK
  <1>6. Files(r)' = Files(r)
    BY DEF Files
  <1>7. KnownOK(r)'
    BY <1>1, <1>2, <1>3, <1>6 DEF KnownOK
  <1>8. revision'[r].version > revision[r].version
    BY <1>1, NextVersion
  <1>9. \A e \in Clients :
              \/ client'[e] = Idle
              \/ client'[e] = client[e] /\ ~(client[e].op \in Holding /\ client[e].revision = r)
    BY NobodyHolds
  <1>10. /\ revision[r].status \in Confirmable => revision'[r].status \in Confirmable
         /\ draft[r] # {} => draft'[r] # {}
         /\ \A q \in Revisions \ {r} :
              /\ revision'[q] = revision[q] /\ artifact'[q] = artifact[q]
              /\ draft'[q] = draft[q] /\ sealed'[q] = sealed[q]
    BY <1>1, <1>2, <1>3
  <1>11. QED
    BY ONLY <1>4, <1>5, <1>7, <1>8, <1>9, <1>10, DraftInv, UNCHANGED <<blob, file, view>>, RowStep

(* What a MAP run merges is typed and grounded in the uploaded files.      *)
LEMMA MergedDraftGrounded ==
    ASSUME DraftInv, NEW r \in Revisions, NEW map \in [Steps -> MapResults]
    PROVE  MergedDraft(r, map) \in PackageRevisionDraft /\ Grounded(MergedDraft(r, map), Files(r))
  <1> PICK m : m = revision[r].metadata
    OBVIOUS
  <1> PICK files : files = Files(r)
    OBVIOUS
  <1> DEFINE base == InitialDraft(files, m)
             red == Reduce(map, m, base)
             prov == ReduceProvenance(map, m, base, BaseProvenance(files))
             d == MergedDraft(r, map)
  <1>1. m \in Metadata /\ files \in SUBSET FileContent
    BY FilesType DEF DraftInv, DraftTypes, PackageRevision
  <1>2. map \in [Steps -> MapStep]
    BY PackageAssumption
  <1>3. base \in Document /\ BaseProvenance(files) \in [Targets -> SUBSET Nat]
    BY <1>1, InitialDraftType
  <1>4. red \in Document /\ prov \in [Targets -> SUBSET Nat]
    BY <1>2, <1>3, ReduceType
  <1>5. Normalize(red, m) \in Document /\ Normalize(red, m).fields = red.fields
    BY <1>1, <1>4, NormalizeType
  <1>6. \A t \in Targets :
          /\ BaseFields(files)[t] # None => red.fields[t] = BaseFields(files)[t]
          /\ red.fields[t] # None => prov[t] # {}
    BY <1>1, <1>2, ReduceGrounds
  <1>7. d = [document |-> Normalize(red, m), provenance |-> prov, by |-> "intake"]
    BY DEF MergedDraft
  <1> HIDE DEF base, red, prov, d
  <1>8. d \in PackageRevisionDraft
    BY <1>4, <1>5, <1>7 DEF PackageRevisionDraft
  <1>9. Grounded(d, files)
    BY <1>5, <1>6, <1>7 DEF Grounded
  <1>10. QED
    BY <1>8, <1>9 DEF d

LEMMA ExtractInvariant ==
    ASSUME DraftInv, NEW r \in Revisions, Extract(r)
    PROVE  DraftInv'
  <1>1. /\ revision[r].status = "extracting" /\ revision[r].version < MaxVersion /\ Unlocked(r)
        /\ UNCHANGED <<artifact, sealed, snapshots, proposal, blob, staging, file, client, view>>
    BY DEF Extract, storage
  <1>2. KnownOK(r)
    BY DEF DraftInv
  <1>3. draft[r] = {} /\ sealed[r] = {}
    BY <1>1, <1>2 DEF KnownOK, Confirmable
  <1>4. /\ draft = [draft EXCEPT ![r] = {}] /\ sealed' = [sealed EXCEPT ![r] = {}]
        /\ snapshots' \in Seq(SystemContextSnapshot)
    BY <1>1, <1>3 DEF DraftInv, DraftTypes
  <1>5. ASSUME NEW s \in {"invalid", "awaiting_confirmation"},
               revision' = [revision EXCEPT ![r].status = s, ![r].version = @ + 1]
        PROVE  \E row \in PackageRevision :
                  /\ revision' = [revision EXCEPT ![r] = row]
                  /\ row.status = s /\ row.version = revision[r].version + 1
                  /\ row.manifest = revision[r].manifest
    <2> DEFINE row == [revision[r] EXCEPT !.status = s, !.version = @ + 1]
    <2>1. /\ row \in PackageRevision /\ row.version = revision[r].version + 1
          /\ row.status = s /\ row.manifest = revision[r].manifest
      BY <1>1, NextVersion DEF DraftInv, DraftTypes, PackageRevision, Statuses
    <2>2. revision' = [revision EXCEPT ![r] = row]
      BY <1>5 DEF DraftInv, DraftTypes
    <2> HIDE DEF row
    <2>3. QED
      BY <2>1, <2>2
  <1>6. CASE /\ revision' = [revision EXCEPT ![r].status = "invalid", ![r].version = @ + 1]
             /\ draft' = draft
    <2>1. PICK row \in PackageRevision :
                  /\ revision' = [revision EXCEPT ![r] = row]
                  /\ row.status = "invalid" /\ row.version = revision[r].version + 1
                  /\ row.manifest = revision[r].manifest
      BY <1>5, <1>6
    <2>2. draft' = [draft EXCEPT ![r] = {}]
      BY <1>4, <1>6
    <2>3. QED
      BY <1>1, <1>3, <1>4, <2>1, <2>2, MutationStep DEF Confirmable
  <1>7. CASE /\ revision' = [revision EXCEPT ![r].status = "awaiting_confirmation",
                                             ![r].version = @ + 1]
             /\ \E map \in [Steps -> MapResults] :
                   draft' = [draft EXCEPT ![r] = {MergedDraft(r, map)}]
    <2>1. PICK row \in PackageRevision :
                  /\ revision' = [revision EXCEPT ![r] = row]
                  /\ row.status = "awaiting_confirmation"
                  /\ row.version = revision[r].version + 1
                  /\ row.manifest = revision[r].manifest
      BY <1>5, <1>7
    <2>2. PICK map \in [Steps -> MapResults] :
                   draft' = [draft EXCEPT ![r] = {MergedDraft(r, map)}]
      BY <1>7
    <2> PICK new : new = {MergedDraft(r, map)}
      OBVIOUS
    <2>3. /\ new \in SUBSET PackageRevisionDraft /\ \A d \in new : Grounded(d, Files(r))
          /\ \E d \in new : new = {d}
      BY MergedDraftGrounded
    <2>4. draft' = [draft EXCEPT ![r] = new]
      BY <2>2
    <2>5. QED
      BY <1>1, <1>3, <1>4, <2>1, <2>3, <2>4, MutationStep DEF Confirmable
  <1>8. QED
    BY <1>6, <1>7 DEF Extract

(* The draft a client changes or confirms                                  *)
LEMMA OneDraft ==
    ASSUME DraftInv, NEW r \in Revisions, NEW d \in draft[r]
    PROVE  /\ draft[r] = {d} /\ d \in PackageRevisionDraft /\ Grounded(d, Files(r))
           /\ revision[r].status \in Confirmable
  BY DEF DraftInv, DraftTypes, KnownOK

(* A document with the same fields keeps a draft grounded.                 *)
LEMMA ReplacedDocument ==
    ASSUME NEW d \in PackageRevisionDraft, NEW n \in Document, NEW files,
           n.fields = d.document.fields, Grounded(d, files)
    PROVE  /\ [d EXCEPT !.document = n] \in PackageRevisionDraft
           /\ Grounded([d EXCEPT !.document = n], files)
  <1> DEFINE e == [d EXCEPT !.document = n]
  <1>1. /\ e \in PackageRevisionDraft /\ e.document = n
        /\ e.by = d.by /\ e.provenance = d.provenance
    BY DEF PackageRevisionDraft
  <1> HIDE DEF e
  <1>2. Grounded(e, files)
    BY <1>1 DEF Grounded
  <1>3. QED
    BY <1>1, <1>2 DEF e

LEMMA PatchInvariant ==
    ASSUME DraftInv, NEW c \in Clients, NEW r \in Revisions, Patch(c, r)
    PROVE  DraftInv'
  <1>1. /\ revision[r].status \in Patchable /\ revision[r].version < MaxVersion /\ Unlocked(r)
        /\ UNCHANGED <<artifact, sealed, snapshots, proposal, blob, staging, file, client, view>>
    BY DEF Patch, Mutable, storage
  <1> PICK to \in Metadatas : \E q \in PatchTo(to) :
          LET m == MergedMetadata(revision[r].metadata, q) IN
          /\ revision' = [revision EXCEPT ![r].metadata = m, ![r].version = @ + 1]
          /\ draft' = [draft EXCEPT ![r] = Synchronized(r, m)]
    BY DEF Patch
  <1> PICK q \in PatchTo(to) :
          LET m == MergedMetadata(revision[r].metadata, q) IN
          /\ revision' = [revision EXCEPT ![r].metadata = m, ![r].version = @ + 1]
          /\ draft' = [draft EXCEPT ![r] = Synchronized(r, m)]
    OBVIOUS
  <1> PICK m : m = MergedMetadata(revision[r].metadata, q)
    OBVIOUS
  <1>2. /\ revision' = [revision EXCEPT ![r].metadata = m, ![r].version = @ + 1]
        /\ draft' = [draft EXCEPT ![r] = Synchronized(r, m)]
    OBVIOUS
  <1>3. m \in Metadata
    <2>1. to \in Metadata /\ revision[r].metadata \in Metadata
      BY PackageAssumption DEF CreateInput, DraftInv, DraftTypes, PackageRevision
    <2>2. QED
      BY <2>1, MergedMetadataType
  <1> DEFINE row == [revision[r] EXCEPT !.metadata = m, !.version = @ + 1]
  <1>4. /\ row \in PackageRevision /\ row.version = revision[r].version + 1
        /\ row.status = revision[r].status /\ row.manifest = revision[r].manifest
    <2>1. revision[r] \in PackageRevision /\ revision[r].version + 1 \in 0..MaxVersion
      BY <1>1, NextVersion DEF DraftInv, DraftTypes
    <2>2. QED
      BY ONLY <1>3, <2>1 DEF PackageRevision
  <1>5. revision' = [revision EXCEPT ![r] = row]
    BY <1>2 DEF DraftInv, DraftTypes
  <1> HIDE DEF row
  <1> PICK new : new = Synchronized(r, m)
    OBVIOUS
  <1>6. /\ new \in SUBSET PackageRevisionDraft /\ \A d \in new : Grounded(d, Files(r))
        /\ new = {} \/ \E d \in new : new = {d}
        /\ draft[r] # {} <=> new # {}
    <2>1. CASE draft[r] = {}
      BY <2>1 DEF Synchronized
    <2>2. CASE draft[r] # {}
      <3> PICK d \in draft[r] : TRUE
        BY <2>2
      <3>1. draft[r] = {d} /\ d \in PackageRevisionDraft /\ Grounded(d, Files(r))
        BY OneDraft
      <3>2. new = {[d EXCEPT !.document = ApplyProfileShell(d.document, m)]}
        BY <3>1 DEF Synchronized
      <3>3. /\ ApplyProfileShell(d.document, m) \in Document
            /\ ApplyProfileShell(d.document, m).fields = d.document.fields
        BY <1>3, <3>1, ShellType DEF PackageRevisionDraft
      <3>4. /\ [d EXCEPT !.document = ApplyProfileShell(d.document, m)] \in PackageRevisionDraft
            /\ Grounded([d EXCEPT !.document = ApplyProfileShell(d.document, m)], Files(r))
        BY <3>1, <3>3, ReplacedDocument
      <3>5. QED
        BY <2>2, <3>2, <3>4
    <2>3. QED
      BY <2>1, <2>2
  <1>7. KnownOK(r)
    BY DEF DraftInv
  <1>8. /\ sealed[r] = {} /\ sealed' = [sealed EXCEPT ![r] = {}]
        /\ revision[r].status # "absent"
        /\ draft[r] # {} => revision[r].status \in Confirmable
        /\ snapshots' \in Seq(SystemContextSnapshot)
    BY <1>1, <1>7 DEF KnownOK, Patchable, DraftInv, DraftTypes
  <1>9. draft' = [draft EXCEPT ![r] = new]
    BY <1>2
  <1>10. /\ Unlocked(r) /\ row.status # "absent"
         /\ row.status \in {"absent", "uploading"} <=> revision[r].status \in {"absent", "uploading"}
         /\ revision[r].status \in Confirmable => row.status \in Confirmable
         /\ new # {} => row.status \in Confirmable
    BY <1>1, <1>4, <1>6, <1>8
  <1>11. UNCHANGED <<artifact, proposal, blob, staging, file, client, view>>
    BY <1>1
  <1>12. QED
    BY ONLY DraftInv, r \in Revisions, <1>1, <1>4, <1>5, <1>6, <1>8, <1>9, <1>10, <1>11,
            MutationStep

LEMMA SaveInvariant ==
    ASSUME DraftInv, NEW c \in Clients, NEW r \in Revisions, Save(c, r)
    PROVE  DraftInv'
  <1>1. /\ revision[r].status = "awaiting_confirmation" /\ draft[r] # {}
        /\ revision[r].version < MaxVersion /\ Unlocked(r)
        /\ revision' = [revision EXCEPT ![r].version = @ + 1]
        /\ UNCHANGED <<artifact, sealed, snapshots, proposal, blob, staging, file, client, view>>
    BY DEF Save, Mutable, storage
  <1> PICK e \in Edits :
          draft' = [draft EXCEPT ![r] =
                      {[x EXCEPT !.document = Normalize(e, revision[r].metadata), !.by = "user"] : x \in @}]
    BY DEF Save
  <1> PICK n : n = Normalize(e, revision[r].metadata)
    OBVIOUS
  <1>2. n \in Document
    <2>1. e \in Document /\ revision[r].metadata \in Metadata
      BY PackageAssumption DEF DraftInv, DraftTypes, PackageRevision
    <2>2. QED
      BY <2>1, NormalizeType
  <1> PICK d \in draft[r] : TRUE
    BY <1>1
  <1>3. draft[r] = {d} /\ d \in PackageRevisionDraft
    BY OneDraft
  <1> PICK x : x = [d EXCEPT !.document = n, !.by = "user"]
    OBVIOUS
  <1>4. draft' = [draft EXCEPT ![r] = {x}]
    BY <1>3 DEF DraftInv, DraftTypes
  <1>5. x \in PackageRevisionDraft /\ x.by = "user"
    BY <1>2, <1>3 DEF PackageRevisionDraft
  <1>6. Grounded(x, Files(r))
    BY <1>5 DEF Grounded
  <1> PICK new : new = {x}
    OBVIOUS
  <1>7. /\ new \in SUBSET PackageRevisionDraft /\ \A y \in new : Grounded(y, Files(r))
        /\ \E y \in new : new = {y}
        /\ draft' = [draft EXCEPT ![r] = new]
    BY <1>4, <1>5, <1>6
  <1> DEFINE row == [revision[r] EXCEPT !.version = @ + 1]
  <1>8. /\ row \in PackageRevision /\ row.version = revision[r].version + 1
        /\ row.status = "awaiting_confirmation" /\ row.manifest = revision[r].manifest
    BY <1>1, NextVersion DEF DraftInv, DraftTypes, PackageRevision
  <1>9. revision' = [revision EXCEPT ![r] = row]
    BY <1>1 DEF DraftInv, DraftTypes
  <1> HIDE DEF row
  <1>10. KnownOK(r)
    BY DEF DraftInv
  <1>11. sealed[r] = {} /\ sealed' = [sealed EXCEPT ![r] = {}]
         /\ snapshots' \in Seq(SystemContextSnapshot)
    BY <1>1, <1>10 DEF KnownOK, DraftInv, DraftTypes
  <1>12. /\ row.status # "absent" /\ row.status \in Confirmable
         /\ row.status \in {"absent", "uploading"} <=> revision[r].status \in {"absent", "uploading"}
    BY <1>1, <1>8 DEF Confirmable
  <1>13. UNCHANGED <<artifact, proposal, blob, staging, file, client, view>> /\ Unlocked(r)
    BY <1>1
  <1>14. QED
    BY ONLY DraftInv, r \in Revisions, <1>1, <1>7, <1>8, <1>9, <1>11, <1>12, <1>13,
            MutationStep

(* What a confirmation snapshots                                           *)
LEMMA SystemContextType ==
    ASSUME NEW d \in Document, NEW m \in Metadata, ContextImpact(d, m) # None
    PROVE  SystemContext(d, m) \in SystemContextSnapshot
  <1>1. ContextImpact(d, m) \in {"low", "moderate", "high"}
    BY MergeAssumption DEF ContextImpact, Document, Metadata
  <1>2. QED
    BY <1>1 DEF SystemContext, SystemContextSnapshot, Document

LEMMA ConfirmInvariant ==
    ASSUME DraftInv, NEW c \in Clients, NEW r \in Revisions, Confirm(c, r)
    PROVE  DraftInv'
  <1>1. /\ revision[r].status = "awaiting_confirmation"
        /\ revision[r].version < MaxVersion /\ Unlocked(r)
        /\ UNCHANGED <<artifact, proposal, blob, staging, file, client, view>>
    BY DEF Confirm, ConfirmAllowed, Mutable, storage
  <1>2. CASE /\ draft[r] = {}
             /\ revision' = [revision EXCEPT ![r].status = "ready", ![r].version = @ + 1]
             /\ UNCHANGED <<draft, sealed, snapshots>>
    <2> DEFINE row == [revision[r] EXCEPT !.status = "ready", !.version = @ + 1]
    <2>1. /\ row \in PackageRevision /\ row.version = revision[r].version + 1
          /\ row.status = "ready" /\ row.manifest = revision[r].manifest
      BY <1>1, NextVersion DEF DraftInv, DraftTypes, PackageRevision, Statuses
    <2>2. revision' = [revision EXCEPT ![r] = row]
      BY <1>2 DEF DraftInv, DraftTypes
    <2> HIDE DEF row
    <2> PICK old : old = sealed[r]
      OBVIOUS
    <2>3. /\ draft' = [draft EXCEPT ![r] = {}] /\ sealed' = [sealed EXCEPT ![r] = old]
          /\ old \in SUBSET SealedPackageContent /\ snapshots' \in Seq(SystemContextSnapshot)
      BY <1>2 DEF DraftInv, DraftTypes
    <2>4. /\ row.status # "absent" /\ row.status \in Confirmable
          /\ row.status \in {"absent", "uploading"} <=> revision[r].status \in {"absent", "uploading"}
      BY <1>1, <2>1 DEF Confirmable
    <2> PICK none : none = {}
      OBVIOUS
    <2>5. /\ none \in SUBSET PackageRevisionDraft /\ draft[r] = none /\ none = {}
          /\ draft' = [draft EXCEPT ![r] = none]
      BY <1>2, <2>3
    <2>6. UNCHANGED <<artifact, proposal, blob, staging, file, client, view>> /\ Unlocked(r)
      BY <1>1
    <2>7. QED
      BY ONLY DraftInv, r \in Revisions, <1>1, <2>1, <2>2, <2>3, <2>4, <2>5, <2>6, MutationStep
  <1>3. ASSUME NEW d \in draft[r], Seal(r, d),
               revision' = [revision EXCEPT ![r].status = "ready", ![r].version = @ + 1,
                                            ![r].snapshot = Len(snapshots) + 1]
        PROVE  DraftInv'
    <2> PICK m : m = revision[r].metadata
      OBVIOUS
    <2> PICK n : n = Normalize(d.document, m)
      OBVIOUS
    <2>1. draft[r] = {d} /\ d \in PackageRevisionDraft /\ Grounded(d, Files(r))
      BY OneDraft
    <2>2. m \in Metadata /\ d.document \in Document /\ Len(snapshots) + 1 \in Nat
      BY <2>1 DEF DraftInv, DraftTypes, PackageRevision, PackageRevisionDraft
    <2>3. n \in Document /\ n.fields = d.document.fields
      BY <2>2, NormalizeType
    <2>4. /\ ContextImpact(n, m) # None
          /\ snapshots' = Append(snapshots, SystemContext(n, m))
          /\ draft' = [draft EXCEPT ![r] = {[d EXCEPT !.document = n]}]
          /\ sealed' = [sealed EXCEPT ![r] = {[document |-> n, snapshot |-> Len(snapshots) + 1]}]
      BY <1>3 DEF Seal, ReadyToSeal
    <2>5. SystemContext(n, m) \in SystemContextSnapshot
      BY <2>2, <2>3, <2>4, SystemContextType
    <2>6. snapshots' \in Seq(SystemContextSnapshot)
      BY <2>4, <2>5 DEF DraftInv, DraftTypes
    <2> PICK x : x = [d EXCEPT !.document = n]
      OBVIOUS
    <2>7. x \in PackageRevisionDraft /\ Grounded(x, Files(r))
      BY <2>1, <2>3, ReplacedDocument
    <2> PICK new : new = {x}
      OBVIOUS
    <2>8. /\ new \in SUBSET PackageRevisionDraft /\ \A y \in new : Grounded(y, Files(r))
          /\ \E y \in new : new = {y}
          /\ draft' = [draft EXCEPT ![r] = new]
      BY <2>4, <2>7
    <2> PICK sc : sc = {[document |-> n, snapshot |-> Len(snapshots) + 1]}
      OBVIOUS
    <2>9. sc \in SUBSET SealedPackageContent /\ sealed' = [sealed EXCEPT ![r] = sc]
      BY <2>2, <2>3, <2>4 DEF SealedPackageContent
    <2> DEFINE row == [revision[r] EXCEPT !.status = "ready", !.version = @ + 1,
                                          !.snapshot = Len(snapshots) + 1]
    <2>10. /\ row \in PackageRevision /\ row.version = revision[r].version + 1
           /\ row.status = "ready" /\ row.manifest = revision[r].manifest
      BY <1>1, <2>2, NextVersion DEF DraftInv, DraftTypes, PackageRevision, Statuses
    <2>11. revision' = [revision EXCEPT ![r] = row]
      BY <1>3 DEF DraftInv, DraftTypes
    <2> HIDE DEF row
    <2>12. QED
      BY <1>1, <2>6, <2>8, <2>9, <2>10, <2>11, MutationStep DEF Confirmable
  <1>4. QED
    BY <1>2, <1>3 DEF Confirm

(* Every step                                                              *)
LEMMA NextInvariant ==
    ASSUME DraftInv, [DraftNext]_draftVars
    PROVE  DraftInv'
  <1>1. ASSUME NEW c \in Clients, Rollback(c) PROVE DraftInv'
    BY <1>1, RollbackInvariant
  <1>2. ASSUME NEW c \in Clients, Store(c) PROVE DraftInv'
    BY <1>2, StoreInvariant
  <1>3. ASSUME NEW c \in Clients, CommitUpload(c) PROVE DraftInv'
    BY <1>3, CommitUploadInvariant
  <1>4. ASSUME NEW c \in Clients, CommitFinalize(c) PROVE DraftInv'
    BY <1>4, CommitFinalizeInvariant
  <1>5. ASSUME NEW c \in Clients, ReadDraft(c) \/ ReportDraft(c) \/ ReportProposals(c)
        PROVE  DraftInv'
    BY <1>5, ReadDraftInvariant, ReportDraftInvariant, ReportProposalsInvariant
  <1>6. ASSUME NEW c \in Clients, Migrate(c) PROVE DraftInv'
    BY <1>6, MigrateInvariant
  <1>7. ASSUME NEW c \in Clients, CommitReview(c) PROVE DraftInv'
    BY <1>7, CommitReviewInvariant
  <1>8. ASSUME NEW c \in Clients, NEW r \in Revisions, Create(c, r) PROVE DraftInv'
    BY <1>8, CreateInvariant
  <1>9. ASSUME NEW c \in Clients, NEW r \in Revisions, Finalize(c, r) PROVE DraftInv'
    BY <1>9, FinalizeInvariant
  <1>10. ASSUME NEW c \in Clients, NEW r \in Revisions, Patch(c, r) PROVE DraftInv'
    BY <1>10, PatchInvariant
  <1>11. ASSUME NEW c \in Clients, NEW r \in Revisions, Save(c, r) PROVE DraftInv'
    BY <1>11, SaveInvariant
  <1>12. ASSUME NEW c \in Clients, NEW r \in Revisions, Confirm(c, r) PROVE DraftInv'
    BY <1>12, ConfirmInvariant
  <1>13. ASSUME NEW c \in Clients, NEW r \in Revisions, ReadRevision(c, r) PROVE DraftInv'
    BY <1>13, ReadRevisionInvariant
  <1>14. ASSUME NEW c \in Clients, NEW r \in Revisions, GetRevision(c, r) PROVE DraftInv'
    BY <1>14, GetRevisionInvariant
  <1>15. ASSUME NEW c \in Clients, NEW r \in Revisions, Review(c, r) PROVE DraftInv'
    BY <1>15, ReviewInvariant
  <1>16. ASSUME NEW c \in Clients, NEW r \in Revisions, NEW b \in Blobs, Upload(c, r, b)
         PROVE  DraftInv'
    BY <1>16, UploadInvariant
  <1>17. ASSUME NEW r \in Revisions, Scan(r) PROVE DraftInv'
    BY <1>17, ScanInvariant
  <1>18. ASSUME NEW r \in Revisions, Extract(r) PROVE DraftInv'
    BY <1>18, ExtractInvariant
  <1>19. ASSUME CleanupStale PROVE DraftInv'
    BY <1>19, CleanupInvariant
  <1>20. ASSUME UNCHANGED draftVars PROVE DraftInv'
    <2>1. DraftTypes'
      BY <1>20 DEF DraftInv, DraftTypes, draftVars
    <2>2. ASSUME NEW r \in Revisions PROVE StoredOK(r)' /\ KnownOK(r)'
      BY <1>20 DEF DraftInv, StoredOK, KnownOK, Files, draftVars
    <2>3. ASSUME NEW c \in Clients PROVE RequestOK(client[c])' /\ ViewOK(view[c])'
      BY <1>20 DEF DraftInv, RequestOK, ViewOK, draftVars
    <2>4. OneHolder'
      BY <1>20 DEF DraftInv, OneHolder, draftVars
    <2>5. QED
      BY <2>1, <2>2, <2>3, <2>4 DEF DraftInv
  <1>21. QED
    BY <1>1, <1>2, <1>3, <1>4, <1>5, <1>6, <1>7, <1>8, <1>9, <1>10, <1>11, <1>12, <1>13, <1>14,
       <1>15, <1>16, <1>17, <1>18, <1>19, <1>20 DEF DraftNext

-----------------------------------------------------------------------------
(* Theorems                                                                *)

(* The rows keep their types and the revision, its files, its draft, its   *)
(* requests in flight and what clients were shown agree, whatever          *)
(* interleaves, fails and rolls back (package_revisions.py,                *)
(* source_artifacts.py, package_revision_drafts.py).                       *)
THEOREM DraftInvariant == DraftSpec => []DraftInv
  <1>1. DraftInit => DraftInv
    BY InitInvariant
  <1>2. DraftInv /\ [DraftNext]_draftVars => DraftInv'
    BY NextInvariant
  <1>3. QED
    BY <1>1, <1>2, PTL DEF DraftSpec

(* Rows, files and requests keep their types, and a revision has at most   *)
(* one draft (package_revision_drafts.py: the primary key of the table).   *)
THEOREM DraftTypeCorrect == DraftSpec => []DraftTypeOK
  <1>1. DraftInv => DraftTypeOK
    <2> SUFFICES ASSUME DraftInv PROVE DraftTypeOK
      OBVIOUS
    <2>1. ASSUME NEW r \in Revisions PROVE Cardinality(draft[r]) <= 1
      <3>1. draft[r] = {} \/ \E d : draft[r] = {d}
        BY DEF DraftInv, KnownOK
      <3>2. Cardinality(draft[r]) = 0 \/ Cardinality(draft[r]) = 1
        BY <3>1, FS_EmptySet, FS_Singleton
      <3>3. QED
        BY <3>2
    <2>2. QED
      BY <2>1 DEF DraftInv, DraftTypes, DraftTypeOK
  <1>2. QED
    BY <1>1, DraftInvariant, PTL

(* Files and rows agree, and racing uploads respect the limits.            *)
THEOREM DraftStorageMatchesRows == DraftSpec => []StorageMatchesRows
  <1>1. DraftInv => StorageMatchesRows
    BY DEF DraftInv, StoredOK, StorageMatchesRows
  <1>2. QED
    BY <1>1, DraftInvariant, PTL

(* A value the uploaded files give survives the merge, and every value of  *)
(* an intake draft has a source.                                           *)
THEOREM DraftKeepsUploadedValues == DraftSpec => []UploadedValuesSurvive
  <1>1. DraftInv => UploadedValuesSurvive
    BY DEF DraftInv, KnownOK, Grounded, UploadedValuesSurvive
  <1>2. QED
    BY <1>1, DraftInvariant, PTL

(* What a client confirms is what it was shown: the version it sent is the *)
(* one of the row.                                                         *)
LEMMA ConfirmSealsView ==
    ASSUME DraftInv, NEW c \in Clients, NEW r \in Revisions,
           Confirm(c, r), view[c].document # {}, sealed'[r] # {}
    PROVE  view[c].document = {s.document : s \in sealed'[r]}
  <1> PICK m : m = revision[r].metadata
    OBVIOUS
  <1>1. /\ view[c].revision = r /\ view[c].version = revision[r].version
        /\ revision[r].status = "awaiting_confirmation"
    BY DEF Confirm, ConfirmAllowed, IfMatch
  <1>2. KnownOK(r) /\ ViewOK(view[c]) /\ r # None
    BY PackageAssumption DEF DraftInv
  <1>3. sealed[r] = {}
    BY <1>1, <1>2 DEF KnownOK
  <1>4. view[c].document = {Normalize(d.document, m) : d \in draft[r]}
    BY <1>1, <1>2 DEF ViewOK
  <1>5. PICK d \in draft[r] : Seal(r, d)
    BY <1>3 DEF Confirm
  <1>6. draft[r] = {d}
    BY OneDraft
  <1>7. sealed'[r] = {[document |-> Normalize(d.document, m), snapshot |-> Len(snapshots) + 1]}
    BY <1>5 DEF Seal, DraftInv, DraftTypes
  <1>8. {s.document : s \in sealed'[r]} = {Normalize(d.document, m)}
    BY <1>7
  <1>9. QED
    BY <1>4, <1>6, <1>8

(* No step changes a confirmed revision, its files or its sealed content.  *)
LEMMA ReadyIsFinal ==
    ASSUME DraftInv, [DraftNext]_draftVars, NEW r \in Revisions, revision[r].status = "ready"
    PROVE  revision'[r] = revision[r] /\ artifact'[r] = artifact[r] /\ sealed'[r] = sealed[r]
  <1> DEFINE Kept == revision'[r] = revision[r] /\ artifact'[r] = artifact[r] /\ sealed'[r] = sealed[r]
  <1>1. ASSUME NEW c \in Clients, CommitUpload(c) PROVE Kept
    <2> PICK q : q = client[c].revision
      OBVIOUS
    <2>1. q \in Revisions /\ revision[q].status = "uploading"
      BY <1>1 DEF CommitUpload, DraftInv, RequestOK, Holding
    <2>2. r # q
      BY <2>1
    <2>3. /\ artifact' = [artifact EXCEPT ![q] = @ \cup {client[c].blob}]
          /\ revision' = [revision EXCEPT ![q].version = @ + 1] /\ sealed' = sealed
      BY <1>1 DEF CommitUpload
    <2>4. QED
      BY <2>1, <2>2, <2>3 DEF DraftInv, DraftTypes
  <1>2. ASSUME NEW c \in Clients, CommitFinalize(c) PROVE Kept
    <2> PICK q : q = client[c].revision
      OBVIOUS
    <2>1. q \in Revisions /\ revision[q].status = "uploading"
      BY <1>2 DEF CommitFinalize, DraftInv, RequestOK, Holding
    <2>2. r # q
      BY <2>1
    <2>3. /\ revision' = [revision EXCEPT ![q].status = "scanning", ![q].manifest = file[q],
                                          ![q].version = @ + 1]
          /\ UNCHANGED <<artifact, sealed>>
      BY <1>2 DEF CommitFinalize
    <2>4. QED
      BY <2>1, <2>2, <2>3 DEF DraftInv, DraftTypes
  <1>3. ASSUME NEW c \in Clients, NEW q \in Revisions, Create(c, q) PROVE Kept
    <2>1. r # q
      BY <1>3 DEF Create
    <2>2. QED
      BY <1>3, <2>1 DEF Create, DraftInv, DraftTypes
  <1>4. ASSUME NEW c \in Clients, NEW q \in Revisions, Patch(c, q) PROVE Kept
    <2>1. r # q
      BY <1>4 DEF Patch, Patchable
    <2>2. QED
      BY <1>4, <2>1 DEF Patch, DraftInv, DraftTypes
  <1>5. ASSUME NEW c \in Clients, NEW q \in Revisions, Save(c, q) PROVE Kept
    <2>1. r # q
      BY <1>5 DEF Save
    <2>2. QED
      BY <1>5, <2>1 DEF Save, DraftInv, DraftTypes
  <1>6. ASSUME NEW c \in Clients, NEW q \in Revisions, Confirm(c, q) PROVE Kept
    <2>1. r # q
      BY <1>6 DEF Confirm, ConfirmAllowed
    <2>2. artifact' = artifact /\ revision'[r] = revision[r]
      BY <1>6, <2>1 DEF Confirm, DraftInv, DraftTypes
    <2>3. sealed'[r] = sealed[r]
      BY <1>6, <2>1 DEF Confirm, Seal, DraftInv, DraftTypes
    <2>4. QED
      BY <2>2, <2>3
  <1>7. ASSUME NEW q \in Revisions, Scan(q) PROVE Kept
    <2>1. r # q
      BY <1>7 DEF Scan
    <2>2. QED
      BY <1>7, <2>1 DEF Scan, DraftInv, DraftTypes
  <1>8. ASSUME NEW q \in Revisions, Extract(q) PROVE Kept
    <2>1. r # q
      BY <1>8 DEF Extract
    <2>2. QED
      BY <1>8, <2>1 DEF Extract, DraftInv, DraftTypes
  <1>9. ASSUME NEW c \in Clients,
                \/ Rollback(c) \/ Store(c) \/ ReadDraft(c) \/ ReportDraft(c)
                \/ ReportProposals(c) \/ Migrate(c) \/ CommitReview(c)
         PROVE  Kept
    BY <1>9 DEF Rollback, Store, ReadDraft, ReportDraft, ReportProposals, Migrate, CommitReview
  <1>10. ASSUME NEW c \in Clients, NEW q \in Revisions,
                \/ Finalize(c, q) \/ ReadRevision(c, q) \/ GetRevision(c, q) \/ Review(c, q)
                \/ \E b \in Blobs : Upload(c, q, b)
         PROVE  Kept
    BY <1>10 DEF Finalize, ReadRevision, GetRevision, Review, Upload
  <1>11. ASSUME CleanupStale \/ UNCHANGED draftVars PROVE Kept
    BY <1>11 DEF CleanupStale, draftVars
  <1> HIDE DEF Kept
  <1>12. Kept
    BY <1>1, <1>2, <1>3, <1>4, <1>5, <1>6, <1>7, <1>8, <1>9, <1>10, <1>11 DEF DraftNext
  <1>13. QED
    BY <1>12 DEF Kept

(* A system context snapshot is never rewritten.                           *)
LEMMA SnapshotsGrow ==
    ASSUME DraftInv, [DraftNext]_draftVars, NEW n \in 1..Len(snapshots)
    PROVE  n <= Len(snapshots') /\ snapshots'[n] = snapshots[n]
  <1>1. snapshots \in Seq(SystemContextSnapshot)
    BY DEF DraftInv, DraftTypes
  <1>2. ASSUME NEW x, snapshots' = Append(snapshots, x)
        PROVE  n <= Len(snapshots') /\ snapshots'[n] = snapshots[n]
    BY <1>1, <1>2
  <1>3. snapshots' = snapshots \/ \E x : snapshots' = Append(snapshots, x)
    <2> DEFINE Grown == snapshots' = snapshots \/ \E x : snapshots' = Append(snapshots, x)
    <2>1. ASSUME NEW c \in Clients,
                 \/ Rollback(c) \/ Store(c) \/ CommitUpload(c) \/ CommitFinalize(c)
                 \/ ReadDraft(c) \/ ReportDraft(c) \/ ReportProposals(c)
                 \/ Migrate(c) \/ CommitReview(c)
          PROVE  Grown
      BY <2>1 DEF Rollback, Store, CommitUpload, CommitFinalize, ReadDraft, ReportDraft,
                  ReportProposals, Migrate, CommitReview
    <2>2. ASSUME NEW c \in Clients, NEW r \in Revisions,
                 \/ Create(c, r) \/ Finalize(c, r) \/ Patch(c, r) \/ Save(c, r)
                 \/ ReadRevision(c, r) \/ GetRevision(c, r) \/ Review(c, r)
                 \/ \E b \in Blobs : Upload(c, r, b)
          PROVE  Grown
      BY <2>2 DEF Create, Finalize, Patch, Save, ReadRevision, GetRevision, Review, Upload
    <2>3. ASSUME NEW c \in Clients, NEW r \in Revisions, Confirm(c, r) PROVE Grown
      BY <2>3 DEF Confirm, Seal
    <2>4. ASSUME NEW r \in Revisions, Scan(r) \/ Extract(r) PROVE Grown
      BY <2>4 DEF Scan, Extract
    <2>5. ASSUME CleanupStale \/ UNCHANGED draftVars PROVE Grown
      BY <2>5 DEF CleanupStale, draftVars
    <2> HIDE DEF Grown
    <2>6. Grown
      BY <2>1, <2>2, <2>3, <2>4, <2>5 DEF DraftNext
    <2>7. QED
      BY <2>6 DEF Grown
  <1>4. QED
    BY <1>1, <1>2, <1>3

(* A confirmation seals the draft its client read, and nothing changes a   *)
(* confirmed revision afterwards.                                          *)
THEOREM DraftConfirmationSeals == DraftSpec => ConfirmationSeals
  <1>1. DraftInv /\ [DraftNext]_draftVars =>
          [\A c \in Clients, r \in Revisions :
              Confirm(c, r) /\ view[c].document # {} /\ sealed'[r] # {} =>
                 view[c].document = {s.document : s \in sealed'[r]}]_draftVars
    BY ConfirmSealsView
  <1>2. DraftInv /\ [DraftNext]_draftVars =>
          [\A r \in Revisions : revision[r].status = "ready" =>
              /\ revision'[r] = revision[r] /\ artifact'[r] = artifact[r] /\ sealed'[r] = sealed[r]
              /\ \A n \in 1..Len(snapshots) :
                    n <= Len(snapshots') /\ snapshots'[n] = snapshots[n]]_draftVars
    BY ReadyIsFinal, SnapshotsGrow
  <1>3. QED
    BY <1>1, <1>2, DraftInvariant, PTL
       DEF DraftSpec, ConfirmationSeals, ConfirmedWhatWasRead, ConfirmedIsFinal

(* What an intake report called blocked, merge conflicts and pending       *)
(* proposals aside, is refused as long as its version is accepted.         *)
THEOREM DraftReportedBlockersHold == DraftSpec => ReportedBlockersHold
  <1>1. ASSUME DraftInv, NEW c \in Clients, NEW r \in Revisions, Confirm(c, r)
        PROVE  view[c].blockers \subseteq
                  {"merge_conflicts_present", "pending_legacy_fact_proposals"}
    <2>1. /\ revision[r].status = "awaiting_confirmation"
          /\ MetadataComplete(revision[r].metadata)
          /\ view[c].revision = r /\ view[c].version = revision[r].version
      BY <1>1 DEF Confirm, ConfirmAllowed, IfMatch
    <2>2. \A d \in draft[r] : ~ExportBlocked(d.document, revision[r].metadata)
      BY <1>1, OneDraft DEF Confirm
    <2>3. ViewOK(view[c]) /\ r # None /\ view[c] \in View
      BY <1>1, PackageAssumption DEF DraftInv, DraftTypes
    <2>4. Standing(view[c].blockers, revision[r], draft[r]) /\ view[c].blockers \subseteq Blockers
      BY <2>1, <2>3 DEF ViewOK, View
    <2>5. QED
      BY <2>1, <2>2, <2>4 DEF Standing, Blockers
  <1>2. DraftInv /\ [DraftNext]_draftVars =>
          [\A c \in Clients, r \in Revisions :
              Confirm(c, r) => view[c].blockers \subseteq
                 {"merge_conflicts_present", "pending_legacy_fact_proposals"}]_draftVars
    BY <1>1
  <1>3. QED
    BY <1>2, DraftInvariant, PTL DEF DraftSpec, ReportedBlockersHold

-----------------------------------------------------------------------------
(* Windows                                                                 *)

(* Of a set X of charges, those since the start of a window, and those     *)
(* less than a window length before it, by the newest time that had then   *)
(* reached the counters                                                    *)
Since(X, start) == {x \in X : x.newest >= start}
Before(X, start) == {x \in X : x.newest < start /\ start < x.newest + Window}

(* A row that counts n requests in the window that began at "start", at    *)
(* least those that were charged in it                                     *)
Counts(X, start, n) ==
    /\ Cardinality(Since(X, start)) <= n /\ n <= MaxRequests
    /\ Cardinality(Before(X, start)) <= MaxRequests
    /\ \A x \in X : x.newest < start + Window

LEMMA SinceFinite ==
    ASSUME NEW X, IsFiniteSet(X), NEW start
    PROVE  /\ IsFiniteSet(Since(X, start)) /\ IsFiniteSet(Before(X, start))
           /\ Cardinality(Since(X, start)) \in Nat /\ Cardinality(Before(X, start)) \in Nat
  <1>1. Since(X, start) \subseteq X /\ Before(X, start) \subseteq X
    BY DEF Since, Before
  <1>2. QED
    BY <1>1, FS_Subset, FS_CardinalityType

(* A window that has ended is followed by one that nobody has used.        *)
LEMMA WindowMoves ==
    ASSUME NEW X, IsFiniteSet(X), \A x \in X : x.newest \in Nat,
           NEW start \in Nat, NEW n \in Nat, Counts(X, start, n),
           NEW now \in Nat, now >= start + Window
    PROVE  Counts(X, now, 0)
  <1>1. Window \in Nat \ {0} /\ MaxRequests \in Nat \ {0}
    BY PositiveAssumption
  <1>2. Since(X, now) = {}
    BY <1>1 DEF Since, Counts
  <1>3. Before(X, now) \subseteq Since(X, start)
    BY <1>1 DEF Since, Before
  <1>4. Cardinality(Before(X, now)) <= Cardinality(Since(X, start))
    BY <1>3, SinceFinite, FS_Subset
  <1>5. Cardinality(Before(X, now)) <= MaxRequests
    <2>1. /\ Cardinality(Since(X, start)) \in Nat /\ Cardinality(Before(X, now)) \in Nat
          /\ Cardinality(Since(X, start)) <= n /\ n <= MaxRequests
      BY SinceFinite DEF Counts
    <2>2. QED
      BY <1>1, <1>4, <2>1
  <1>6. \A x \in X : x.newest < now + Window
    BY <1>1 DEF Counts
  <1>7. QED
    BY <1>1, <1>2, <1>5, <1>6, FS_EmptySet DEF Counts

LEMMA WindowCharges ==
    ASSUME NEW X, IsFiniteSet(X), \A x \in X : x.newest \in Nat,
           NEW start \in Nat, NEW n \in Nat, Counts(X, start, n), n < MaxRequests,
           NEW y, y \notin X, y.newest \in Nat, y.newest >= start,
           y.newest < start + Window
    PROVE  Counts(X \cup {y}, start, n + 1)
  <1>1. Window \in Nat \ {0} /\ MaxRequests \in Nat \ {0}
    BY PositiveAssumption
  <1>2. Since(X \cup {y}, start) = Since(X, start) \cup {y} /\ y \notin Since(X, start)
    BY DEF Since
  <1>3. Before(X \cup {y}, start) = Before(X, start)
    BY DEF Before
  <1>4. Cardinality(Since(X \cup {y}, start)) <= n + 1
    <2>1. Cardinality(Since(X \cup {y}, start)) = Cardinality(Since(X, start)) + 1
      BY <1>2, SinceFinite, FS_AddElement
    <2>2. QED
      BY <2>1, SinceFinite DEF Counts
  <1>5. QED
    BY <1>1, <1>3, <1>4 DEF Counts

(* A request may be counted in the window that is no charge in it.         *)
LEMMA WindowFills ==
    ASSUME NEW X, IsFiniteSet(X), NEW start \in Nat, NEW n \in Nat, Counts(X, start, n),
           n < MaxRequests
    PROVE  Counts(X, start, n + 1)
  <1>1. MaxRequests \in Nat
    BY PositiveAssumption
  <1>2. QED
    BY <1>1, SinceFinite DEF Counts

(* What any period of a window length holds that has not ended yet         *)
LEMMA WindowHolds ==
    ASSUME NEW X, IsFiniteSet(X), \A x \in X : x.newest \in Nat,
           NEW start \in Nat, NEW n \in Nat, Counts(X, start, n),
           NEW t \in Nat, start < t + Window
    PROVE  Cardinality({x \in X : x.newest >= t}) <= n + MaxRequests
  <1> DEFINE P == {x \in X : x.newest >= t}
  <1>1. Window \in Nat \ {0} /\ MaxRequests \in Nat \ {0}
    BY PositiveAssumption
  <1>2. P \subseteq Since(X, start) \cup Before(X, start)
    BY <1>1 DEF Since, Before
  <1>3. Since(X, start) \cap Before(X, start) = {}
    BY DEF Since, Before
  <1> HIDE DEF P
  <1>4. /\ IsFiniteSet(Since(X, start) \cup Before(X, start))
        /\ Cardinality(Since(X, start) \cup Before(X, start))
             = Cardinality(Since(X, start)) + Cardinality(Before(X, start))
    BY <1>3, SinceFinite, DisjointUnion
  <1>5. /\ IsFiniteSet(P)
        /\ Cardinality(P) <= Cardinality(Since(X, start)) + Cardinality(Before(X, start))
    BY <1>2, <1>4, FS_Subset
  <1>6. Cardinality(P) <= n + MaxRequests
    BY <1>1, <1>5, SinceFinite, FS_CardinalityType DEF Counts
  <1>7. QED
    BY <1>6 DEF P

-----------------------------------------------------------------------------
(* Days and costs                                                          *)

LEMMA DayOrder ==
    ASSUME NEW s \in Nat, NEW t \in Nat, s <= t
    PROVE  Day(s) \in Nat /\ Day(t) \in Nat /\ Day(s) <= Day(t)
  <1>1. DayLength \in Nat \ {0}
    BY PositiveAssumption
  <1>2. QED
    BY <1>1 DEF Day

Costs(S) == [x \in S |-> x.cost]
CostSum(S) == MapThenSumSet(LAMBDA x : x.cost, S)

LEMMA CostsSum ==
    ASSUME NEW S, IsFiniteSet(S)
    PROVE  CostSum(S) = SumOf(Costs(S), S)
  <1> DEFINE Q(g) == g = [s \in SUBSET S |-> IF s = {} THEN 0
                                             ELSE Pick(s).cost + g[s \ {Pick(s)}]]
  <1>1. CostSum(S) = (CHOOSE g : Q(g))[S]
    BY DEF CostSum, MapThenSumSet, MapThenFoldSet, Pick
  <1>2. \A s \in SUBSET S : s # {} => Costs(S)[Pick(s)] = Pick(s).cost
    BY PickIn DEF Costs
  <1>3. \A g : Q(g) <=> IsSum(g, Costs(S), S)
    BY <1>2 DEF IsSum
  <1>4. \E g : Q(g)
    BY <1>3, SumExists
  <1>5. Q(CHOOSE g : Q(g))
    <2> HIDE DEF Q
    <2>1. QED
      BY <1>4
  <1> HIDE DEF Q
  <1>6. IsSum(CHOOSE g : Q(g), Costs(S), S)
    BY <1>3, <1>5
  <1>7. QED
    BY <1>1, <1>6, SumChosen

LEMMA CostNone == CostSum({}) = 0
  BY CostsSum, SumZero, FS_EmptySet

LEMMA CostType ==
    ASSUME NEW S, IsFiniteSet(S), \A x \in S : x.cost \in Nat
    PROVE  CostSum(S) \in Nat
  BY CostsSum, SumType DEF Costs

LEMMA CostAdds ==
    ASSUME NEW S, IsFiniteSet(S), \A x \in S : x.cost \in Nat,
           NEW y, y \notin S, y.cost \in Nat
    PROVE  CostSum(S \cup {y}) = CostSum(S) + y.cost
  <1> DEFINE U == S \cup {y}
  <1>1. IsFiniteSet(U)
    BY FS_AddElement
  <1>2. CostSum(U) = SumOf(Costs(U), U)
    BY <1>1, CostsSum
  <1>3. \A x \in U : Costs(U)[x] \in Nat
    BY DEF Costs
  <1>4. SumOf(Costs(U), U) = Costs(U)[y] + SumOf(Costs(U), S)
    BY <1>3, SumAdd
  <1>5. \A x \in S : Costs(U)[x] = Costs(S)[x]
    BY DEF Costs
  <1>6. SumOf(Costs(U), S) = SumOf(Costs(S), S)
    BY <1>5, SumSame
  <1>7. Costs(U)[y] = y.cost
    BY DEF Costs
  <1> HIDE DEF U
  <1>8. CostSum(U) = CostSum(S) + y.cost
    BY <1>2, <1>4, <1>6, <1>7, CostsSum, CostType
  <1>9. QED
    BY <1>8 DEF U

(* The charges X of one day, and what is known of charges                  *)
OnDay(X, d) == {x \in X : Day(x.now) = d}
Dates(x) == x.now \in Times /\ x.newest \in Times /\ x.now <= x.newest /\ x.cost \in Nat

(* The tokens charged for each day, when the counters stand at the day     *)
(* "date" with that many tokens: a later day has charges only by calls     *)
(* that turned the counters back from it.                                  *)
Allowed(date, tokens, d) ==
    IF d < date THEN DailyLimit ELSE IF d = date THEN tokens ELSE 0
DaysCount(X, date, tokens) ==
    \A d \in Nat : CostSum(OnDay(X, d))
                     <= DailyLimit * Cardinality(Overnight(X, d)) + Allowed(date, tokens, d)
DaysHold(X) ==
    \A d \in 0..Day(MaxTime) :
       CostSum(OnDay(X, d)) <= DailyLimit * (1 + Cardinality(Overnight(X, d)))

LEMMA DaysFinite ==
    ASSUME NEW X, IsFiniteSet(X), \A x \in X : Dates(x), NEW d
    PROVE  /\ IsFiniteSet(OnDay(X, d)) /\ CostSum(OnDay(X, d)) \in Nat
           /\ IsFiniteSet(Overnight(X, d)) /\ Cardinality(Overnight(X, d)) \in Nat
  <1>1. OnDay(X, d) \subseteq X /\ Overnight(X, d) \subseteq X
    BY DEF OnDay, Overnight
  <1>2. \A x \in OnDay(X, d) : x.cost \in Nat
    BY <1>1 DEF Dates
  <1>3. QED
    BY <1>1, <1>2, FS_Subset, FS_CardinalityType, CostType

LEMMA DaysBegin ==
    ASSUME NEW date \in Nat
    PROVE  DaysCount({}, date, 0)
  <1> PICK e : e = {}
    OBVIOUS
  <1>1. Cardinality(e) = 0 /\ CostSum(e) = 0
    BY FS_EmptySet, CostNone
  <1>2. \A d : OnDay(e, d) = e /\ Overnight(e, d) = e
    BY DEF OnDay, Overnight
  <1>3. DailyLimit \in Nat
    BY PositiveAssumption
  <1>4. QED
    BY <1>1, <1>2, <1>3 DEF DaysCount, Allowed

(* A charge, or a refused call that moves the counters, is accounted for   *)
(* on its own day; turning the counters back is worth one limit more.      *)
LEMMA DaysMove ==
    ASSUME NEW X, IsFiniteSet(X), \A x \in X : Dates(x),
           NEW date \in Nat, NEW tokens \in Nat, DaysCount(X, date, tokens),
           tokens <= DailyLimit, NEW y, y \notin X, Dates(y), date <= Day(y.newest),
           NEW left, left = (IF date = Day(y.now) THEN tokens ELSE 0) + y.cost
    PROVE  DaysCount(X \cup {y}, Day(y.now), left)
  <1> PICK E \in Nat, F \in Nat : E = Day(y.now) /\ F = Day(y.newest) /\ E <= F
    BY DayOrder, MaxTimeAssumption DEF Dates, Times
  <1>1. DailyLimit \in Nat
    BY PositiveAssumption
  <1>2. y.cost \in Nat
    BY DEF Dates
  <1>3. ASSUME NEW d \in Nat
        PROVE  CostSum(OnDay(X \cup {y}, d))
                 <= DailyLimit * Cardinality(Overnight(X \cup {y}, d)) + Allowed(E, left, d)
    <2> PICK s \in Nat, n \in Nat : s = CostSum(OnDay(X, d)) /\ n = Cardinality(Overnight(X, d))
      BY DaysFinite
    <2>1. CostSum(OnDay(X \cup {y}, d)) = IF d = E THEN s + y.cost ELSE s
      <3>1. CASE d = E
        <4>1. OnDay(X \cup {y}, d) = OnDay(X, d) \cup {y} /\ y \notin OnDay(X, d)
          BY <3>1 DEF OnDay
        <4>2. \A x \in OnDay(X, d) : x.cost \in Nat
          BY DEF OnDay, Dates
        <4>3. QED
          BY <1>2, <3>1, <4>1, <4>2, DaysFinite, CostAdds
      <3>2. CASE d # E
        <4>1. OnDay(X \cup {y}, d) = OnDay(X, d)
          BY <3>2 DEF OnDay
        <4>2. QED
          BY <3>2, <4>1
      <3>3. QED
        BY <3>1, <3>2
    <2>2. Cardinality(Overnight(X \cup {y}, d))
            = IF E <= d /\ d <= F /\ E < F THEN n + 1 ELSE n
      <3>1. CASE E <= d /\ d <= F /\ E < F
        <4>1. Overnight(X \cup {y}, d) = Overnight(X, d) \cup {y} /\ y \notin Overnight(X, d)
          BY <3>1 DEF Overnight
        <4>2. QED
          BY <3>1, <4>1, DaysFinite, FS_AddElement
      <3>2. CASE ~ (E <= d /\ d <= F /\ E < F)
        <4>1. Overnight(X \cup {y}, d) = Overnight(X, d)
          BY <3>2 DEF Overnight
        <4>2. QED
          BY <3>2, <4>1
      <3>3. QED
        BY <3>1, <3>2
    <2>3. s <= DailyLimit * n + Allowed(date, tokens, d)
      BY DEF DaysCount
    <2> PICK m \in Nat : m = DailyLimit * n /\ DailyLimit * (n + 1) = m + DailyLimit
      BY <1>1
    <2>4. left \in Nat
      BY <1>2
    <2>5. CASE d < E
      BY <1>1, <2>1, <2>2, <2>3, <2>5 DEF Allowed
    <2>6. CASE d = E
      BY <1>1, <1>2, <2>1, <2>2, <2>3, <2>6 DEF Allowed
    <2>7. CASE d > E
      BY <1>1, <2>1, <2>2, <2>3, <2>7 DEF Allowed
    <2>8. QED
      BY <2>5, <2>6, <2>7
  <1>4. QED
    BY <1>3 DEF DaysCount

LEMMA DaysKept ==
    ASSUME NEW X, IsFiniteSet(X), \A x \in X : Dates(x), NEW date \in Nat,
           NEW tokens \in Nat, DaysCount(X, date, tokens), tokens <= DailyLimit
    PROVE  DaysHold(X)
  <1>1. DailyLimit \in Nat
    BY PositiveAssumption
  <1>2. ASSUME NEW d \in 0..Day(MaxTime)
        PROVE  CostSum(OnDay(X, d)) <= DailyLimit * (1 + Cardinality(Overnight(X, d)))
    <2> PICK s \in Nat, n \in Nat : s = CostSum(OnDay(X, d)) /\ n = Cardinality(Overnight(X, d))
      BY DaysFinite
    <2>1. d \in Nat
      BY DayOrder, MaxTimeAssumption
    <2>2. s <= DailyLimit * n + Allowed(date, tokens, d)
      BY <2>1 DEF DaysCount
    <2>3. DailyLimit * (1 + n) = DailyLimit * n + DailyLimit /\ DailyLimit * n \in Nat
      BY <1>1
    <2>4. QED
      BY <1>1, <2>1, <2>2, <2>3 DEF Allowed
  <1>3. QED
    BY <1>2 DEF DaysHold

-----------------------------------------------------------------------------
(* The newest time                                                         *)

LEMMA LargestTime ==
    ASSUME NEW S, S \subseteq Times, S # {}
    PROVE  Max(S) \in S /\ \A t \in S : Max(S) >= t
  <1> DEFINE Above(s) == {t \in S : t >= s}
             T == {u \in SUBSET S : \E s \in S : u = Above(s)}
  <1>1. IsFiniteSet(S)
    <2>1. IsFiniteSet(0..MaxTime)
      BY MaxTimeAssumption, FS_Interval
    <2>2. QED
      BY <2>1, FS_Subset DEF Times
  <1>2. \A s \in S : s \in Nat
    BY MaxTimeAssumption DEF Times
  <1>3. T \subseteq SUBSET S
    OBVIOUS
  <1>4. T # {}
    <2>1. \A s \in S : Above(s) \in T
      OBVIOUS
    <2> HIDE DEF T
    <2>2. QED
      BY <2>1
  <1>5. \E u \in T : \A v \in T : v \subseteq u => v = u
    <2> HIDE DEF T
    <2>1. QED
      BY <1>1, <1>3, <1>4, SmallestSubset
  <1>6. PICK u \in T : \A v \in T : v \subseteq u => v = u
    BY <1>5
  <1>7. PICK s \in S : u = Above(s)
    OBVIOUS
  <1>8. ASSUME NEW t \in S PROVE s >= t
    <2>1. SUFFICES ASSUME t > s PROVE FALSE
      BY <1>2
    <2>2. Above(t) \subseteq u /\ Above(t) \in T
      BY <1>2, <1>7, <2>1
    <2>3. Above(t) = Above(s)
      BY <1>6, <1>7, <2>2
    <2>4. s \in Above(s)
      BY <1>2
    <2>5. QED
      BY <1>2, <2>1, <2>3, <2>4
  <1>9. QED
    BY <1>8 DEF Max

LEMMA NewestFacts ==
    ASSUME NEW X, \A x \in X : x.now \in Times, NEW now \in Times
    PROVE  LET n == NewestOf(X, now) IN
           /\ n \in Times /\ n >= now /\ \A x \in X : n >= x.now
           /\ n = now \/ \E x \in X : n = x.now
  <1> DEFINE S == {x.now : x \in X} \cup {now}
  <1>1. S \subseteq Times /\ S # {}
    OBVIOUS
  <1>2. Max(S) \in S /\ \A t \in S : Max(S) >= t
    <2> HIDE DEF S
    <2>1. QED
      BY <1>1, LargestTime
  <1>3. QED
    BY <1>2 DEF NewestOf

-----------------------------------------------------------------------------
(* The budget of the SSP assistant                                         *)

(* The charges on the row of a conversation that were not overtaken        *)
OnRow(v) == {x \in charges : x.conversation = v /\ ~ Late(x)}
HasRow(v) == usage[v] # NoRow
Requests(rows) == [v \in Conversations |-> rows[v].requests]
Tokens(rows) == [v \in Conversations |-> rows[v].tokens]

(* A call is charged once, for a time that has come.                       *)
ChargesTyped ==
    /\ BudgetTypeOK /\ IsFiniteSet(charges)
    /\ \A x \in charges : x.now <= x.newest /\ call[x.call] = Over

(* The row of a conversation counts at least the requests of its window,   *)
(* which a charge began.                                                   *)
RowsCount ==
    \A v \in Conversations :
       IF ~ HasRow(v) THEN OnRow(v) = {}
       ELSE /\ Counts(OnRow(v), usage[v].start, usage[v].requests)
            /\ \E x \in charges : usage[v].start <= x.now

(* All rows were last moved by the last charge, and count its day together.*)
RowsOfDay(date, tokens) ==
    /\ \A v \in Conversations : HasRow(v) => usage[v].date = date
    /\ SumOf(Tokens(usage), Conversations) = tokens
    /\ DaysCount(charges, date, tokens)
OneDay ==
    IF charges = {} THEN \A v \in Conversations : ~ HasRow(v)
    ELSE \E x \in charges : \E tokens \in 0..DailyLimit : RowsOfDay(Day(x.now), tokens)

(* The limit on requests, for the calls that were not overtaken            *)
Burst(t) == {x \in charges : ~ Late(x) /\ x.now \in t..(t + Window - 1)}
WindowsHold ==
    \A t \in Times :
       Cardinality(Burst(t))
         <= MaxRequests * (Cardinality({x.conversation : x \in Burst(t)}) + 1)

BudgetInv ==
    /\ ChargesTyped /\ RowsCount /\ OneDay
    /\ SumOf(Requests(usage), Conversations) <= MaxRequests
    /\ DaysHold(charges) /\ WindowsHold

RequestSum(rows) == MapThenSumSet(LAMBDA v : rows[v].requests, Conversations)
TokenSum(rows) == MapThenSumSet(LAMBDA v : rows[v].tokens, Conversations)

LEMMA RequestsSum ==
    ASSUME NEW rows
    PROVE  RequestSum(rows) = SumOf(Requests(rows), Conversations)
  <1> DEFINE Q(g) == g = [s \in SUBSET Conversations |->
                            IF s = {} THEN 0 ELSE rows[Pick(s)].requests + g[s \ {Pick(s)}]]
  <1>1. RequestSum(rows) = (CHOOSE g : Q(g))[Conversations]
    BY DEF RequestSum, MapThenSumSet, MapThenFoldSet, Pick
  <1>2. \A s \in SUBSET Conversations : s # {} => Requests(rows)[Pick(s)] = rows[Pick(s)].requests
    BY PickIn DEF Requests
  <1>3. \A g : Q(g) <=> IsSum(g, Requests(rows), Conversations)
    BY <1>2 DEF IsSum
  <1>4. \E g : Q(g)
    BY <1>3, SumExists, ConversationsAssumption
  <1>5. Q(CHOOSE g : Q(g))
    <2> HIDE DEF Q
    <2>1. QED
      BY <1>4
  <1> HIDE DEF Q
  <1>6. IsSum(CHOOSE g : Q(g), Requests(rows), Conversations)
    BY <1>3, <1>5
  <1>7. QED
    BY <1>1, <1>6, SumChosen, ConversationsAssumption

LEMMA TokensSum ==
    ASSUME NEW rows
    PROVE  TokenSum(rows) = SumOf(Tokens(rows), Conversations)
  <1> DEFINE Q(g) == g = [s \in SUBSET Conversations |->
                            IF s = {} THEN 0 ELSE rows[Pick(s)].tokens + g[s \ {Pick(s)}]]
  <1>1. TokenSum(rows) = (CHOOSE g : Q(g))[Conversations]
    BY DEF TokenSum, MapThenSumSet, MapThenFoldSet, Pick
  <1>2. \A s \in SUBSET Conversations : s # {} => Tokens(rows)[Pick(s)] = rows[Pick(s)].tokens
    BY PickIn DEF Tokens
  <1>3. \A g : Q(g) <=> IsSum(g, Tokens(rows), Conversations)
    BY <1>2 DEF IsSum
  <1>4. \E g : Q(g)
    BY <1>3, SumExists, ConversationsAssumption
  <1>5. Q(CHOOSE g : Q(g))
    <2> HIDE DEF Q
    <2>1. QED
      BY <1>4
  <1> HIDE DEF Q
  <1>6. IsSum(CHOOSE g : Q(g), Tokens(rows), Conversations)
    BY <1>3, <1>5
  <1>7. QED
    BY <1>1, <1>6, SumChosen, ConversationsAssumption

LEMMA WithinBudgetSums ==
    ASSUME NEW q, NEW rows
    PROVE  WithinBudget(q, rows) <=>
             /\ SumOf(Requests(rows), Conversations) < MaxRequests
             /\ SumOf(Tokens(rows), Conversations) + q.cost <= DailyLimit
  BY RequestsSum, TokensSum DEF WithinBudget, RequestSum, TokenSum

LEMMA ChargesDated ==
    ASSUME ChargesTyped
    PROVE  /\ \A x \in charges : /\ Dates(x) /\ x.now \in Nat /\ x.newest \in Nat
                                 /\ Day(x.now) \in Nat /\ x.conversation \in Conversations
           /\ \A v : IsFiniteSet(OnRow(v)) /\ \A x \in OnRow(v) : x.newest \in Nat
  <1>1. \A x \in charges : /\ x.now \in Times /\ x.newest \in Times /\ x.cost \in Nat
                           /\ x.conversation \in Conversations
    BY PositiveAssumption DEF ChargesTyped, BudgetTypeOK
  <1>2. \A x \in charges : Dates(x) /\ x.now \in Nat /\ x.newest \in Nat /\ Day(x.now) \in Nat
    BY <1>1, MaxTimeAssumption, DayOrder DEF ChargesTyped, Dates, Times
  <1>3. \A v : OnRow(v) \subseteq charges
    BY DEF OnRow
  <1>4. QED
    BY <1>1, <1>2, <1>3, FS_Subset DEF ChargesTyped

(* The rows as a call normalizes them before it compares the sums          *)
MovedRows(q) ==
    [v \in Conversations |->
       IF usage[v] # NoRow THEN Normalized(usage[v], q.now)
       ELSE IF v = q.conversation THEN NewRow(q.now) ELSE NoRow]

LEMMA RowsMove ==
    ASSUME BudgetInv, NEW c \in Calls, call[c].phase = "sampled"
    PROVE  LET q == call[c]
               rows == MovedRows(q)
           IN /\ q \in Waiting
              /\ rows \in [Conversations -> Usage \cup {NoRow}]
              /\ \A v \in Conversations :
                   IF rows[v] = NoRow THEN v # q.conversation /\ OnRow(v) = {}
                   ELSE /\ rows[v] \in Usage /\ rows[v].date = Day(q.now)
                        /\ rows[v].start = q.now \/ \E x \in charges : rows[v].start <= x.now
                        /\ q.now < rows[v].start + Window
                        /\ Counts(OnRow(v), rows[v].start, rows[v].requests)
              /\ \E date \in Nat, tokens \in 0..DailyLimit :
                   /\ DaysCount(charges, date, tokens)
                   /\ date <= Day(NewestOf(charges, q.now))
                   /\ SumOf(Tokens(rows), Conversations)
                        = IF date = Day(q.now) THEN tokens ELSE 0
  <1> DEFINE q == call[c]
             rows == MovedRows(q)
  <1>1. q \in Waiting /\ q.now \in Times /\ q.now \in Nat /\ q.conversation \in Conversations
    BY MaxTimeAssumption DEF BudgetInv, ChargesTyped, BudgetTypeOK, Waiting, New, Over, Times
  <1>2. Window \in Nat \ {0} /\ MaxRequests \in Nat \ {0} /\ DailyLimit \in Nat \ {0}
    BY PositiveAssumption
  <1>3. Day(q.now) \in Nat
    BY <1>1, DayOrder
  <1>4. ChargesTyped
    BY DEF BudgetInv
  <1>5. NoRow \notin Usage
    BY MaxTimeAssumption DEF NoRow, Usage, Times
  <1>6. \A v \in Conversations : IsFiniteSet(OnRow(v)) /\ \A x \in OnRow(v) : x.newest \in Nat
    BY <1>4, ChargesDated
  <1>7. ASSUME NEW v \in Conversations, HasRow(v)
        PROVE  /\ rows[v] \in Usage /\ rows[v].date = Day(q.now)
               /\ rows[v].start = q.now \/ \E x \in charges : rows[v].start <= x.now
               /\ q.now < rows[v].start + Window
               /\ Counts(OnRow(v), rows[v].start, rows[v].requests)
    <2> DEFINE u == usage[v]
    <2>1. u \in Usage /\ u.start \in Nat /\ u.requests \in Nat /\ u.tokens \in Nat
      BY <1>7, MaxTimeAssumption DEF BudgetInv, ChargesTyped, BudgetTypeOK, HasRow, Usage, Times
    <2>2. rows[v] = Normalized(u, q.now)
      BY <1>7 DEF MovedRows, HasRow
    <2>3. Counts(OnRow(v), u.start, u.requests) /\ \E x \in charges : u.start <= x.now
      BY <1>7 DEF BudgetInv, RowsCount
    <2>4. rows[v] \in Usage /\ rows[v].date = Day(q.now)
      BY <1>1, <1>3, <2>1, <2>2 DEF Normalized, Usage
    <2>5. CASE q.now >= u.start + Window
      <3>1. rows[v].start = q.now /\ rows[v].requests = 0
        BY <2>2, <2>5 DEF Normalized
      <3>2. Counts(OnRow(v), q.now, 0)
        BY <1>1, <1>6, <2>1, <2>3, <2>5, WindowMoves
      <3>3. QED
        BY <1>1, <1>2, <2>4, <3>1, <3>2
    <2>6. CASE ~ (q.now >= u.start + Window)
      <3>1. rows[v].start = u.start /\ rows[v].requests = u.requests
        BY <2>2, <2>6 DEF Normalized
      <3>2. QED
        BY <1>1, <1>2, <2>1, <2>3, <2>4, <2>6, <3>1
    <2>7. QED
      BY <2>5, <2>6
  <1>8. ASSUME NEW v \in Conversations, ~ HasRow(v), v = q.conversation
        PROVE  /\ rows[v] \in Usage /\ rows[v].date = Day(q.now)
               /\ rows[v].start = q.now /\ q.now < rows[v].start + Window
               /\ Counts(OnRow(v), rows[v].start, rows[v].requests)
    <2>1. rows[v] = NewRow(q.now)
      BY <1>8 DEF MovedRows, HasRow
    <2>2. OnRow(v) = {}
      BY <1>8 DEF BudgetInv, RowsCount
    <2>3. Counts({}, q.now, 0)
      BY <1>2, FS_EmptySet DEF Counts, Since, Before
    <2>4. QED
      BY <1>1, <1>2, <1>3, <2>1, <2>2, <2>3 DEF NewRow, Usage
  <1>9. ASSUME NEW v \in Conversations, ~ HasRow(v), v # q.conversation
        PROVE  rows[v] = NoRow /\ OnRow(v) = {}
    BY <1>9 DEF MovedRows, HasRow, BudgetInv, RowsCount
  <1>10. rows \in [Conversations -> Usage \cup {NoRow}]
    <2>1. \A v \in Conversations : rows[v] \in Usage \cup {NoRow}
      BY <1>7, <1>8, <1>9
    <2>2. QED
      BY <2>1 DEF MovedRows
  <1>11. \E date \in Nat, tokens \in 0..DailyLimit :
           /\ DaysCount(charges, date, tokens)
           /\ date <= Day(NewestOf(charges, q.now))
           /\ SumOf(Tokens(rows), Conversations) = IF date = Day(q.now) THEN tokens ELSE 0
    <2> PICK n : n = NewestOf(charges, q.now)
      OBVIOUS
    <2>1. n \in Nat /\ n >= q.now /\ \A x \in charges : n >= x.now
      BY <1>1, <1>4, ChargesDated, NewestFacts, MaxTimeAssumption DEF Dates, Times
    <2>2. CASE charges = {}
      <3>1. DaysCount(charges, Day(q.now), 0)
        BY <1>3, <2>2, DaysBegin
      <3>2. Day(q.now) <= Day(n)
        BY <1>1, <2>1, DayOrder
      <3>3. \A v \in Conversations : rows[v].tokens = 0
        BY <2>2 DEF BudgetInv, OneDay, MovedRows, HasRow, NewRow, NoRow
      <3>4. SumOf(Tokens(rows), Conversations) = 0
        BY <3>3, SumZero, ConversationsAssumption DEF Tokens
      <3>5. 0 \in 0..DailyLimit
        BY <1>2
      <3> HIDE DEF rows
      <3>6. QED
        BY <1>3, <3>1, <3>2, <3>4, <3>5
    <2>3. CASE charges # {}
      <3>1. PICK x \in charges, tokens \in 0..DailyLimit : RowsOfDay(Day(x.now), tokens)
        BY <2>3 DEF BudgetInv, OneDay
      <3> PICK date : date = Day(x.now)
        OBVIOUS
      <3>2. date \in Nat /\ date <= Day(n)
        BY <1>4, <2>1, ChargesDated, DayOrder
      <3>3. CASE date = Day(q.now)
        <4>1. \A v \in Conversations : rows[v].tokens = usage[v].tokens
          BY <3>1, <3>3 DEF RowsOfDay, MovedRows, HasRow, Normalized, NewRow, NoRow
        <4>2. SumOf(Tokens(rows), Conversations) = SumOf(Tokens(usage), Conversations)
          BY <4>1, SumSame, ConversationsAssumption DEF Tokens
        <4>3. QED
          BY <3>1, <3>2, <3>3, <4>2 DEF RowsOfDay
      <3>4. CASE date # Day(q.now)
        <4>1. \A v \in Conversations : rows[v].tokens = 0
          BY <3>1, <3>4 DEF RowsOfDay, MovedRows, HasRow, Normalized, NewRow, NoRow
        <4>2. SumOf(Tokens(rows), Conversations) = 0
          BY <4>1, SumZero, ConversationsAssumption DEF Tokens
        <4>3. QED
          BY <3>1, <3>2, <3>4, <4>2 DEF RowsOfDay
      <3>5. QED
        BY <3>3, <3>4
    <2>4. QED
      BY <2>2, <2>3
  <1> HIDE DEF q, rows
  <1>12. \A v \in Conversations :
           IF rows[v] = NoRow THEN v # q.conversation /\ OnRow(v) = {}
           ELSE /\ rows[v] \in Usage /\ rows[v].date = Day(q.now)
                /\ rows[v].start = q.now \/ \E x \in charges : rows[v].start <= x.now
                /\ q.now < rows[v].start + Window
                /\ Counts(OnRow(v), rows[v].start, rows[v].requests)
    BY <1>5, <1>7, <1>8, <1>9
  <1>13. QED
    BY <1>1, <1>10, <1>11, <1>12 DEF q, rows

(* The row of the conversation that a call charges                         *)
RowCharged(u, cost) == [u EXCEPT !.requests = @ + 1, !.tokens = @ + cost]

LEMMA ChargedUsage ==
    ASSUME NEW u \in Usage, NEW k \in Nat
    PROVE  LET s == RowCharged(u, k)
           IN /\ s \in Usage /\ s.start = u.start /\ s.date = u.date
              /\ s.requests = u.requests + 1 /\ s.tokens = u.tokens + k
              /\ u.requests \in Nat /\ u.tokens \in Nat
  <1> DEFINE a == [u EXCEPT !.requests = u.requests + 1]
             b == [a EXCEPT !.tokens = u.tokens + k]
  <1>1. a \in Usage
    BY DEF Usage
  <1>2. b = RowCharged(u, k)
    BY DEF Usage, RowCharged
  <1>3. b.start = u.start /\ b.date = u.date /\ b.requests = u.requests + 1
        /\ b.tokens = u.tokens + k /\ u.requests \in Nat /\ u.tokens \in Nat
    BY DEF Usage
  <1> HIDE DEF a
  <1>4. b \in Usage
    BY <1>1, <1>3 DEF Usage
  <1> HIDE DEF b
  <1>5. QED
    BY <1>2, <1>3, <1>4

LEMMA ChargeKeeps ==
    ASSUME BudgetInv, NEW c \in Calls, Reserve(c), WithinBudget(call[c], MovedRows(call[c]))
    PROVE  BudgetInv'
  <1> PICK q : q = call[c]
    OBVIOUS
  <1> PICK rows : rows = MovedRows(q)
    OBVIOUS
  <1> DEFINE v == q.conversation
             y == [call |-> c, conversation |-> v, now |-> q.now,
                   newest |-> NewestOf(charges, q.now), cost |-> q.cost]
             row == RowCharged(rows[v], q.cost)
  <1>1. /\ call[c].phase = "sampled" /\ clock' = clock
        /\ usage' = [rows EXCEPT ![v].requests = @ + 1, ![v].tokens = @ + q.cost]
        /\ charges' = charges \cup {y} /\ call' = [call EXCEPT ![c] = Over]
    BY DEF Reserve, MovedRows
  <1>2. /\ q \in Waiting
        /\ rows \in [Conversations -> Usage \cup {NoRow}]
        /\ \A w \in Conversations :
             IF rows[w] = NoRow THEN w # v /\ OnRow(w) = {}
             ELSE /\ rows[w] \in Usage /\ rows[w].date = Day(q.now)
                  /\ rows[w].start = q.now \/ \E x \in charges : rows[w].start <= x.now
                  /\ q.now < rows[w].start + Window
                  /\ Counts(OnRow(w), rows[w].start, rows[w].requests)
        /\ \E date \in Nat, tokens \in 0..DailyLimit :
             /\ DaysCount(charges, date, tokens)
             /\ date <= Day(NewestOf(charges, q.now))
             /\ SumOf(Tokens(rows), Conversations) = IF date = Day(q.now) THEN tokens ELSE 0
    BY <1>1, RowsMove
  <1>3. /\ SumOf(Requests(rows), Conversations) < MaxRequests
        /\ SumOf(Tokens(rows), Conversations) + q.cost <= DailyLimit
    BY WithinBudgetSums
  <1>4. /\ IsFiniteSet(charges) /\ call \in [Calls -> Waiting \cup {New, Over}]
        /\ clock \in Times /\ ChargesTyped
        /\ \A x \in charges : call[x.call] = Over /\ Dates(x)
    BY <1>1, ChargesDated DEF BudgetInv, ChargesTyped, BudgetTypeOK
  <1>5. /\ v \in Conversations /\ q.now \in Times /\ q.now \in Nat
        /\ q.cost \in 1..MaxCost /\ q.cost \in Nat
    BY <1>2, PositiveAssumption, MaxTimeAssumption DEF Waiting, Times
  <1>6. Window \in Nat \ {0} /\ MaxRequests \in Nat \ {0} /\ DailyLimit \in Nat
    BY PositiveAssumption
  <1>7. /\ y.newest \in Times /\ y.newest \in Nat /\ y.newest >= q.now
        /\ \A x \in charges : y.newest >= x.now
        /\ y.newest = q.now \/ \E x \in charges : y.newest = x.now
    BY <1>4, <1>5, NewestFacts, MaxTimeAssumption DEF Dates, Times
  <1>8. y \notin charges
    <2>1. call[y.call] = q
      OBVIOUS
    <2>2. q # Over
      BY <1>1 DEF Over
    <2>3. QED
      BY <1>4, <2>1, <2>2
  <1>9. /\ row \in Usage /\ row.start = rows[v].start /\ row.date = Day(q.now)
        /\ row.requests = rows[v].requests + 1 /\ row.tokens = rows[v].tokens + q.cost
        /\ rows[v] \in Usage /\ rows[v].requests \in Nat /\ rows[v].tokens \in Nat
    <2>1. rows[v] \in Usage /\ rows[v].date = Day(q.now)
      BY <1>2, <1>5
    <2>2. QED
      BY <1>5, <2>1, ChargedUsage
  <1>10. /\ usage' \in [Conversations -> Usage \cup {NoRow}] /\ usage'[v] = row
         /\ \A w \in Conversations \ {v} : usage'[w] = rows[w]
    <2>1. usage' = [rows EXCEPT ![v] = row]
      BY <1>1 DEF RowCharged
    <2> HIDE DEF row
    <2>2. QED
      BY <1>2, <1>5, <1>9, <2>1
  <1>11. NoRow \notin Usage /\ NoRow.requests = 0 /\ NoRow.tokens = 0
    BY MaxTimeAssumption DEF NoRow, Usage, Times
  <1>12. /\ y.now = q.now /\ y.cost = q.cost /\ y.call = c /\ y.conversation = v /\ Dates(y)
         /\ y \in [call : Calls, conversation : Conversations, now : Times,
                   newest : Times, cost : 1..MaxCost]
    BY <1>5, <1>7 DEF Dates
  <1>13. /\ \A w \in Conversations \ {v} : OnRow(w)' = OnRow(w)
         /\ OnRow(v)' = IF Late(y) THEN OnRow(v) ELSE OnRow(v) \cup {y}
         /\ y \notin OnRow(v)
         /\ \A w : IsFiniteSet(OnRow(w)) /\ \A x \in OnRow(w) : x.newest \in Nat
    <2> HIDE DEF y, v
    <2>1. \A w \in Conversations \ {v} : OnRow(w)' = OnRow(w)
      BY <1>1, <1>12 DEF OnRow
    <2>2. OnRow(v)' = IF Late(y) THEN OnRow(v) ELSE OnRow(v) \cup {y}
      BY <1>1, <1>12 DEF OnRow
    <2>3. y \notin OnRow(v)
      BY <1>8 DEF OnRow
    <2>4. QED
      BY <1>4, <2>1, <2>2, <2>3, ChargesDated
  <1>14. SumOf(Requests(usage'), Conversations) = SumOf(Requests(rows), Conversations) + 1
    <2> DEFINE f == Requests(rows)
               h == Requests(usage')
    <2>1. \A x \in Conversations : f[x] \in Nat /\ h[x] \in Nat
      BY <1>2, <1>10, <1>11 DEF Requests, Usage
    <2>2. \A x \in Conversations \ {v} : h[x] = f[x]
      BY <1>10 DEF Requests
    <2>3. h[v] = f[v] + 1
      BY <1>5, <1>9, <1>10 DEF Requests
    <2> HIDE DEF f, h
    <2>4. SumOf(h, Conversations) + f[v] = SumOf(f, Conversations) + h[v]
      BY <1>5, <2>1, <2>2, SumChange, ConversationsAssumption
    <2>5. SumOf(h, Conversations) \in Nat /\ SumOf(f, Conversations) \in Nat
      BY <2>1, SumType, ConversationsAssumption
    <2>6. SumOf(h, Conversations) = SumOf(f, Conversations) + 1
      BY <1>5, <2>1, <2>3, <2>4, <2>5
    <2>7. QED
      BY <2>6 DEF f, h
  <1>15. SumOf(Tokens(usage'), Conversations) = SumOf(Tokens(rows), Conversations) + q.cost
    <2> DEFINE f == Tokens(rows)
               h == Tokens(usage')
    <2>1. \A x \in Conversations : f[x] \in Nat /\ h[x] \in Nat
      BY <1>2, <1>10, <1>11 DEF Tokens, Usage
    <2>2. \A x \in Conversations \ {v} : h[x] = f[x]
      BY <1>10 DEF Tokens
    <2>3. h[v] = f[v] + q.cost
      BY <1>5, <1>9, <1>10 DEF Tokens
    <2> HIDE DEF f, h
    <2>4. SumOf(h, Conversations) + f[v] = SumOf(f, Conversations) + h[v]
      BY <1>5, <2>1, <2>2, SumChange, ConversationsAssumption
    <2>5. SumOf(h, Conversations) \in Nat /\ SumOf(f, Conversations) \in Nat
      BY <2>1, SumType, ConversationsAssumption
    <2>6. SumOf(h, Conversations) = SumOf(f, Conversations) + q.cost
      BY <1>5, <2>1, <2>3, <2>4, <2>5
    <2>7. QED
      BY <2>6 DEF f, h
  <1>16. rows[v].requests < MaxRequests
    <2>1. \A x \in Conversations : Requests(rows)[x] \in Nat
      BY <1>2, <1>11 DEF Requests, Usage
    <2>2. Requests(rows)[v] <= SumOf(Requests(rows), Conversations)
      BY <1>5, <2>1, SumTerm, ConversationsAssumption
    <2>3. SumOf(Requests(rows), Conversations) \in Nat
      BY <2>1, SumType, ConversationsAssumption
    <2>4. Requests(rows)[v] = rows[v].requests
      BY <1>5 DEF Requests
    <2>5. QED
      BY <1>3, <1>6, <1>9, <2>2, <2>3, <2>4
  <1>17. \A w \in Conversations : rows[w] # NoRow /\ ~ Late(y) => rows[w].start <= q.now
    <2>1. \A w \in Conversations : rows[w] # NoRow => rows[w].start \in Nat
      BY <1>2, MaxTimeAssumption DEF Usage, Times
    <2>2. ~ Late(y) => \A x \in charges : x.now <= q.now /\ x.now \in Nat
      BY <1>4, <1>5, <1>7, <1>12, ChargesDated DEF Late
    <2> HIDE DEF y
    <2>3. QED
      BY <1>2, <1>5, <2>1, <2>2
  <1> HIDE DEF y, row, v
  <1>18. /\ IsFiniteSet(charges') /\ \A x \in charges' : Dates(x)
         /\ DaysCount(charges', Day(q.now), SumOf(Tokens(usage'), Conversations))
         /\ SumOf(Tokens(usage'), Conversations) \in 0..DailyLimit
    <2>1. PICK date \in Nat, tokens \in 0..DailyLimit :
            /\ DaysCount(charges, date, tokens)
            /\ date <= Day(y.newest)
            /\ SumOf(Tokens(rows), Conversations) = IF date = Day(q.now) THEN tokens ELSE 0
      BY <1>2 DEF y
    <2> PICK left : left = SumOf(Tokens(usage'), Conversations)
      OBVIOUS
    <2>2. left = (IF date = Day(y.now) THEN tokens ELSE 0) + y.cost
      BY <1>12, <1>15, <2>1
    <2>3. tokens \in Nat /\ tokens <= DailyLimit
      BY <1>6, <2>1
    <2>4. DaysCount(charges \cup {y}, Day(y.now), left)
      BY <1>4, <1>8, <1>12, <2>1, <2>2, <2>3, DaysMove
    <2>5. left \in 0..DailyLimit
      BY <1>3, <1>5, <1>6, <1>12, <1>15, <2>2, <2>3
    <2>6. QED
      BY <1>1, <1>4, <1>12, <2>4, <2>5, FS_AddElement
  <1>19. DaysHold(charges')
    <2>1. Day(q.now) \in Nat
      BY <1>5, DayOrder
    <2> PICK left \in 0..DailyLimit : left = SumOf(Tokens(usage'), Conversations)
      BY <1>18
    <2>2. left \in Nat /\ left <= DailyLimit
      BY <1>6
    <2> PICK X : X = charges'
      OBVIOUS
    <2>3. DaysHold(X)
      BY <1>18, <2>1, <2>2, DaysKept
    <2>4. QED
      BY <2>3
  <1>20. ChargesTyped'
    <2>1. call' \in [Calls -> Waiting \cup {New, Over}]
      BY <1>1, <1>4
    <2>2. \A x \in charges' : x.now <= x.newest /\ call'[x.call] = Over
      BY <1>1, <1>4, <1>12 DEF Dates
    <2>3. charges' \subseteq [call : Calls, conversation : Conversations, now : Times,
                              newest : Times, cost : 1..MaxCost]
      BY <1>1, <1>4, <1>12 DEF ChargesTyped, BudgetTypeOK
    <2>4. QED
      BY <1>1, <1>4, <1>10, <1>18, <2>1, <2>2, <2>3 DEF ChargesTyped, BudgetTypeOK
  <1>21. OneDay'
    <2>1. \A w \in Conversations : usage'[w] # NoRow => usage'[w].date = Day(q.now)
      BY <1>2, <1>9, <1>10
    <2> PICK left \in 0..DailyLimit : left = SumOf(Tokens(usage'), Conversations)
      BY <1>18
    <2> PICK date : date = Day(q.now)
      OBVIOUS
    <2>2. RowsOfDay(date, left)'
      BY <1>18, <2>1 DEF RowsOfDay, HasRow
    <2>3. y \in charges' /\ Day(y.now) = date
      BY <1>1, <1>12
    <2>4. \E x \in charges' : \E tokens \in 0..DailyLimit : RowsOfDay(Day(x.now), tokens)'
      BY <2>2, <2>3
    <2>5. charges' # {}
      BY <2>3
    <2>6. QED
      BY <2>4, <2>5 DEF OneDay
  <1>22. RowsCount'
    <2>1. ASSUME NEW w \in Conversations
          PROVE  IF ~ (usage'[w] # NoRow) THEN OnRow(w)' = {}
                 ELSE /\ Counts(OnRow(w), usage[w].start, usage[w].requests)'
                      /\ \E x \in charges' : usage'[w].start <= x.now
      <3>1. y \in charges' /\ charges \subseteq charges'
        BY <1>1
      <3>2. CASE w = v
        <4>1. /\ Counts(OnRow(v), rows[v].start, rows[v].requests)
              /\ q.now < rows[v].start + Window
              /\ rows[v].start = q.now \/ \E x \in charges : rows[v].start <= x.now
              /\ rows[v] # NoRow
          BY <1>2, <1>5, <1>9, <1>11
        <4>2. rows[v].start \in Nat
          BY <1>9, MaxTimeAssumption DEF Usage, Times
        <4>3. Counts(OnRow(v)', rows[v].start, rows[v].requests + 1)
          <5>1. CASE Late(y)
            <6>1. Counts(OnRow(v), rows[v].start, rows[v].requests + 1)
              BY <1>9, <1>13, <1>16, <4>1, <4>2, WindowFills
            <6>2. QED
              BY <1>13, <5>1, <6>1
          <5>2. CASE ~ Late(y)
            <6>1. y.newest = q.now /\ rows[v].start <= q.now
              BY <1>5, <1>7, <1>12, <1>17, <4>1, <5>2 DEF Late
            <6>2. Counts(OnRow(v) \cup {y}, rows[v].start, rows[v].requests + 1)
              BY <1>5, <1>9, <1>13, <1>16, <4>1, <4>2, <6>1, WindowCharges
            <6>3. QED
              BY <1>13, <5>2, <6>2
          <5>3. QED
            BY <5>1, <5>2
        <4>4. usage'[w] # NoRow /\ usage'[w] = row
          BY <1>9, <1>10, <1>11, <3>2
        <4>5. \E x \in charges' : rows[v].start <= x.now
          BY <1>5, <1>12, <3>1, <4>1
        <4>6. QED
          BY <1>9, <3>2, <4>3, <4>4, <4>5
      <3>3. CASE w # v
        <4>1. usage'[w] = rows[w] /\ OnRow(w)' = OnRow(w)
          BY <1>10, <1>13, <3>3
        <4>2. CASE rows[w] = NoRow
          BY <1>2, <4>1, <4>2
        <4>3. CASE rows[w] # NoRow
          <5>1. Counts(OnRow(w), rows[w].start, rows[w].requests)
            BY <1>2, <4>3
          <5>2. \E x \in charges' : rows[w].start <= x.now
            BY <1>2, <1>5, <1>12, <3>1, <4>3
          <5>3. QED
            BY <4>1, <4>3, <5>1, <5>2
        <4>4. QED
          BY <4>2, <4>3
      <3>4. QED
        BY <3>2, <3>3
    <2>2. QED
      BY <2>1 DEF RowsCount, HasRow
  <1>23. SumOf(Requests(usage'), Conversations) <= MaxRequests
    <2>1. \A x \in Conversations : Requests(rows)[x] \in Nat
      BY <1>2, <1>11 DEF Requests, Usage
    <2>2. SumOf(Requests(rows), Conversations) \in Nat
      BY <2>1, SumType, ConversationsAssumption
    <2>3. QED
      BY <1>3, <1>6, <1>14, <2>2
  <1>24. WindowsHold'
    <2>1. ASSUME NEW t \in Times
          PROVE  Cardinality(Burst(t)')
                   <= MaxRequests * (Cardinality({x.conversation : x \in Burst(t)'}) + 1)
      <3> DEFINE P == Burst(t)'
                 V == {x.conversation : x \in P}
                 part == [x \in P |-> x.conversation]
                 f == Requests(usage')
                 g == [w \in V |-> f[w]]
      <3>1. t \in Nat
        BY MaxTimeAssumption DEF Times
      <3>2. CASE Late(y) \/ ~ (q.now \in t..(t + Window - 1))
        <4>1. P = Burst(t)
          BY <1>1, <1>12, <3>2 DEF Burst
        <4> HIDE DEF P
        <4>2. Cardinality(P) <= MaxRequests * (Cardinality({x.conversation : x \in P}) + 1)
          BY <4>1 DEF BudgetInv, WindowsHold
        <4>3. QED
          BY <4>2 DEF P
      <3>3. CASE ~ Late(y) /\ q.now \in t..(t + Window - 1)
        <4>1. P \subseteq charges' /\ \A x \in P : ~ Late(x) /\ x.now >= t
          BY <3>1, <1>18 DEF Burst, Dates, Times
        <4>2. IsFiniteSet(P) /\ V \subseteq Conversations
          <5>1. \A x \in charges' : x.conversation \in Conversations
            BY <1>20 DEF ChargesTyped, BudgetTypeOK
          <5> HIDE DEF P
          <5>2. QED
            BY <1>18, <4>1, <5>1, FS_Subset
        <4>3. part \in [P -> V] /\ IsFiniteSet(V)
          BY <4>2, FS_Subset, ConversationsAssumption
        <4>4. f \in [Conversations -> Nat]
          BY <1>10, <1>11 DEF Requests, Usage
        <4>5. ASSUME NEW w \in V
              PROVE  Cardinality({x \in P : part[x] = w}) <= g[w] + MaxRequests
          <5> DEFINE mine == {x \in P : part[x] = w}
                     later == {x \in OnRow(w)' : x.newest >= t}
          <5>1. mine \subseteq later /\ mine # {} /\ w \in Conversations
            <6>1. ASSUME NEW x \in mine PROVE x \in later
              <7>1. x \in charges' /\ x.conversation = w /\ ~ Late(x) /\ x.now >= t
                BY <4>1
              <7>2. x.newest >= t
                BY <1>18, <3>1, <7>1, MaxTimeAssumption DEF Dates, Times
              <7>3. x \in OnRow(w)'
                BY <7>1 DEF OnRow
              <7>4. QED
                BY <7>2, <7>3
            <6>2. w \in Conversations /\ mine # {}
              BY <4>2
            <6> HIDE DEF mine, later
            <6>3. QED
              BY <6>1, <6>2
          <5>2. usage'[w] # NoRow
            BY <1>22, <5>1 DEF RowsCount, HasRow
          <5>3. Counts(OnRow(w), usage[w].start, usage[w].requests)'
            BY <1>22, <5>1, <5>2 DEF RowsCount, HasRow
          <5>4. usage'[w] \in Usage /\ usage'[w].start <= q.now
            <6>1. rows[w] # NoRow
              BY <1>9, <1>10, <1>11, <5>1, <5>2
            <6>2. rows[w].start <= q.now
              BY <1>17, <3>3, <5>1, <6>1
            <6>3. QED
              BY <1>2, <1>9, <1>10, <5>1, <5>2, <6>1, <6>2
          <5>5. usage'[w].start \in Nat /\ usage'[w].requests \in Nat
            BY <5>4, MaxTimeAssumption DEF Usage, Times
          <5>6. usage'[w].start < t + Window
            BY <1>5, <1>6, <3>1, <3>3, <5>4, <5>5
          <5>7. IsFiniteSet(OnRow(w)') /\ \A x \in OnRow(w)' : x.newest \in Nat
            <6>1. CASE w = v
              BY <1>7, <1>13, <5>1, <6>1, FS_AddElement
            <6>2. CASE w # v
              BY <1>13, <5>1, <6>2
            <6>3. QED
              BY <6>1, <6>2
          <5>8. Cardinality(later) <= usage'[w].requests + MaxRequests
            BY <3>1, <5>3, <5>5, <5>6, <5>7, WindowHolds
          <5>9. g[w] = usage'[w].requests
            BY <5>1 DEF Requests
          <5>10. later \subseteq OnRow(w)'
            OBVIOUS
          <5> HIDE DEF mine, later
          <5>11. /\ Cardinality(mine) <= Cardinality(later)
                 /\ Cardinality(mine) \in Nat /\ Cardinality(later) \in Nat
            BY <5>1, <5>7, <5>10, FS_Subset, FS_CardinalityType
          <5>12. Cardinality(mine) <= g[w] + MaxRequests
            BY <1>6, <5>5, <5>8, <5>9, <5>11
          <5>13. QED
            BY <5>12 DEF mine
        <4>6. g \in [V -> Nat] /\ SumOf(g, V) = SumOf(f, V) /\ SumOf(g, V) \in Nat
          BY <4>2, <4>3, <4>4, SumSame, SumType
        <4> HIDE DEF P, V, part, f, g
        <4>7. Cardinality(P) <= SumOf(g, V) + MaxRequests * Cardinality(V)
          BY <1>6, <4>2, <4>3, <4>5, <4>6, PartsBound
        <4>8. /\ Cardinality(V) \in Nat /\ Cardinality(P) \in Nat
              /\ MaxRequests * (Cardinality(V) + 1) = MaxRequests * Cardinality(V) + MaxRequests
              /\ MaxRequests * Cardinality(V) \in Nat
          <5>1. Cardinality(V) \in Nat /\ Cardinality(P) \in Nat
            BY <4>2, <4>3, FS_CardinalityType
          <5>2. QED
            BY <1>6, <5>1
        <4>9. SumOf(f, V) <= MaxRequests
          <5>1. SumOf(f, V) <= SumOf(f, Conversations)
            BY <4>2, <4>4, SumSubset, ConversationsAssumption
          <5>2. SumOf(f, Conversations) <= MaxRequests
            BY <1>23 DEF f
          <5>3. SumOf(f, Conversations) \in Nat
            BY <4>4, SumType, ConversationsAssumption
          <5>4. QED
            BY <1>6, <4>6, <5>1, <5>2, <5>3
        <4>10. Cardinality(P) <= MaxRequests * (Cardinality(V) + 1)
          BY <1>6, <4>6, <4>7, <4>8, <4>9
        <4>11. QED
          BY <4>10 DEF P, V
      <3>4. QED
        BY <3>2, <3>3
    <2>2. QED
      BY <2>1 DEF WindowsHold
  <1>25. QED
    BY <1>19, <1>20, <1>21, <1>22, <1>23, <1>24 DEF BudgetInv

LEMMA BudgetInitially == BudgetInit => BudgetInv
  <1> SUFFICES ASSUME BudgetInit PROVE BudgetInv
    OBVIOUS
  <1>1. /\ clock = 0 /\ usage = [v \in Conversations |-> NoRow]
        /\ call = [c \in Calls |-> New] /\ charges = {}
    BY DEF BudgetInit
  <1>2. BudgetTypeOK
    BY <1>1, MaxTimeAssumption DEF BudgetTypeOK, Times
  <1>3. ChargesTyped
    BY <1>1, <1>2, FS_EmptySet DEF ChargesTyped
  <1>4. RowsCount /\ OneDay
    BY <1>1 DEF RowsCount, OneDay, OnRow, HasRow
  <1>5. SumOf(Requests(usage), Conversations) <= MaxRequests
    <2>1. \A v \in Conversations : Requests(usage)[v] = 0
      BY <1>1 DEF Requests, NoRow
    <2>2. SumOf(Requests(usage), Conversations) = 0
      BY <2>1, SumZero, ConversationsAssumption
    <2>3. QED
      BY <2>2, PositiveAssumption
  <1>6. DaysHold(charges)
    <2>1. IsFiniteSet(charges) /\ \A x \in charges : Dates(x)
      BY <1>1, FS_EmptySet
    <2>2. DaysCount(charges, 0, 0)
      BY <1>1, DaysBegin
    <2>3. QED
      BY <2>1, <2>2, DaysKept, PositiveAssumption
  <1>7. WindowsHold
    <2>1. ASSUME NEW t \in Times
          PROVE  Cardinality(Burst(t))
                   <= MaxRequests * (Cardinality({x.conversation : x \in Burst(t)}) + 1)
      <3> DEFINE used == {x.conversation : x \in Burst(t)}
      <3>1. Burst(t) = {} /\ used = {}
        BY <1>1 DEF Burst
      <3>2. Cardinality(Burst(t)) = 0 /\ Cardinality(used) = 0
        BY <3>1, FS_EmptySet
      <3>3. QED
        BY <3>2, PositiveAssumption
    <2>2. QED
      BY <2>1 DEF WindowsHold
  <1>8. QED
    BY <1>3, <1>4, <1>5, <1>6, <1>7 DEF BudgetInv

(* A step that charges nothing keeps everything that is counted.           *)
LEMMA UnchargedKeeps ==
    ASSUME BudgetInv, UNCHANGED <<usage, charges>>, clock' \in Times,
           call' \in [Calls -> Waiting \cup {New, Over}],
           \A c \in Calls : call[c] = Over => call'[c] = Over
    PROVE  BudgetInv'
  <1>1. ChargesTyped'
    <2>1. \A x \in charges : call'[x.call] = Over
      BY DEF BudgetInv, ChargesTyped, BudgetTypeOK
    <2>2. QED
      BY <2>1 DEF BudgetInv, ChargesTyped, BudgetTypeOK
  <1>2. RowsCount'
    BY DEF BudgetInv, RowsCount, OnRow, HasRow
  <1>3. OneDay'
    BY DEF BudgetInv, OneDay, RowsOfDay, HasRow
  <1>4. WindowsHold'
    BY DEF BudgetInv, WindowsHold, Burst
  <1>5. DaysHold(charges)'
    BY DEF BudgetInv
  <1>6. (SumOf(Requests(usage), Conversations) <= MaxRequests)'
    BY DEF BudgetInv
  <1>7. QED
    BY <1>1, <1>2, <1>3, <1>4, <1>5, <1>6 DEF BudgetInv

LEMMA BudgetKeeps ==
    ASSUME BudgetInv, [BudgetNext]_budgetVars
    PROVE  BudgetInv'
  <1>1. clock \in Times /\ call \in [Calls -> Waiting \cup {New, Over}]
    BY DEF BudgetInv, ChargesTyped, BudgetTypeOK
  <1>2. CASE Tick
    BY <1>1, <1>2, UnchargedKeeps, MaxTimeAssumption DEF Tick, Times
  <1>3. CASE UNCHANGED budgetVars
    BY <1>1, <1>3, UnchargedKeeps DEF budgetVars
  <1>4. ASSUME NEW c \in Calls, Sample(c) PROVE BudgetInv'
    <2>1. PICK v \in Conversations, n \in 1..MaxCost :
            call' = [call EXCEPT ![c] = [phase |-> "sampled", now |-> clock,
                                         conversation |-> v, cost |-> n]]
      BY <1>4 DEF Sample
    <2> DEFINE q == [phase |-> "sampled", now |-> clock, conversation |-> v, cost |-> n]
    <2>2. q \in Waiting
      BY <1>1 DEF Waiting
    <2>3. call[c] # Over /\ UNCHANGED <<clock, usage, charges>>
      BY <1>4 DEF Sample, New, Over
    <2>4. call' = [call EXCEPT ![c] = q]
      BY <2>1
    <2> HIDE DEF q
    <2>5. call' \in [Calls -> Waiting \cup {New, Over}]
      BY <1>1, <2>2, <2>4
    <2>6. \A d \in Calls : call[d] = Over => call'[d] = Over
      BY <1>1, <2>3, <2>4
    <2>7. QED
      BY <1>1, <2>3, <2>5, <2>6, UnchargedKeeps
  <1>5. ASSUME NEW c \in Calls, GiveUp(c) PROVE BudgetInv'
    BY <1>1, <1>5, UnchargedKeeps DEF GiveUp
  <1>6. ASSUME NEW c \in Calls, Reserve(c) PROVE BudgetInv'
    <2>1. CASE WithinBudget(call[c], MovedRows(call[c]))
      BY <1>6, <2>1, ChargeKeeps
    <2>2. CASE ~ WithinBudget(call[c], MovedRows(call[c]))
      <3>1. UNCHANGED <<usage, charges, clock>> /\ call' = [call EXCEPT ![c] = Over]
        BY <1>6, <2>2 DEF Reserve, MovedRows
      <3>2. QED
        BY <1>1, <3>1, UnchargedKeeps
    <2>3. QED
      BY <2>1, <2>2
  <1>7. QED
    BY <1>2, <1>3, <1>4, <1>5, <1>6 DEF BudgetNext

(* A burst is what was not overtaken and what was.                         *)
LEMMA BurstsHold ==
    ASSUME BudgetInv
    PROVE  RequestsPerWindow
  <1>1. ASSUME NEW t \in Times
        PROVE  LET burst == {x \in charges : x.now \in t..(t + Window - 1)}
               IN Cardinality(burst)
                    <= MaxRequests * (Cardinality({x.conversation : x \in burst}) + 1)
                         + Cardinality({x \in burst : Late(x)})
    <2> DEFINE B == {x \in charges : x.now \in t..(t + Window - 1)}
               L == {x \in B : Late(x)}
               P == Burst(t)
               V == {x.conversation : x \in B}
               U == {x.conversation : x \in P}
    <2>1. B = P \cup L /\ P \cap L = {} /\ P \subseteq charges /\ L \subseteq charges
          /\ B \subseteq charges /\ U \subseteq V /\ V \subseteq Conversations
      BY ChargesDated DEF Burst, BudgetInv
    <2>2. Cardinality(P) <= MaxRequests * (Cardinality(U) + 1)
      BY DEF BudgetInv, WindowsHold
    <2>3. IsFiniteSet(charges)
      BY DEF BudgetInv, ChargesTyped
    <2> HIDE DEF B, L, P, V, U
    <2>4. IsFiniteSet(P) /\ IsFiniteSet(L) /\ IsFiniteSet(V)
      BY <2>1, <2>3, FS_Subset, ConversationsAssumption
    <2>5. Cardinality(B) = Cardinality(P) + Cardinality(L)
      BY <2>1, <2>4, DisjointUnion
    <2>6. IsFiniteSet(U) /\ Cardinality(U) <= Cardinality(V)
      BY <2>1, <2>4, FS_Subset
    <2>7. /\ Cardinality(P) \in Nat /\ Cardinality(L) \in Nat
          /\ Cardinality(U) \in Nat /\ Cardinality(V) \in Nat
      BY <2>4, <2>6, FS_CardinalityType
    <2>8. MaxRequests * (Cardinality(U) + 1) <= MaxRequests * (Cardinality(V) + 1)
          /\ MaxRequests * (Cardinality(U) + 1) \in Nat
          /\ MaxRequests * (Cardinality(V) + 1) \in Nat
      <3> PICK m \in Nat, u \in Nat, k \in Nat :
            m = MaxRequests /\ u = Cardinality(U) /\ u + k = Cardinality(V)
        <4>1. Cardinality(V) - Cardinality(U) \in Nat
          BY <2>6, <2>7
        <4>2. QED
          BY <2>7, <4>1, PositiveAssumption
      <3>1. m * (u + k + 1) = m * (u + 1) + m * k /\ m * k \in Nat /\ m * (u + 1) \in Nat
        OBVIOUS
      <3>2. QED
        BY <3>1
    <2>9. Cardinality(B) <= MaxRequests * (Cardinality(V) + 1) + Cardinality(L)
      BY <2>2, <2>5, <2>7, <2>8
    <2>10. QED
      BY <2>9 DEF B, L, V
  <1>2. QED
    BY <1>1 DEF RequestsPerWindow

(* However many conversations, calls and refusals there are, and in        *)
(* whatever order the calls reach the counters: the tokens an actor is     *)
(* charged for one day stay within the limit and one limit more for each   *)
(* call that was overtaken over a midnight around it, and the requests of  *)
(* one window length within what the windows of its conversations hold and *)
(* the overtaken ones (_reserve_usage).                                    *)
THEOREM AssistantBudgetHolds == BudgetSpec => []BudgetHolds
  <1>1. BudgetInit => BudgetInv
    BY BudgetInitially
  <1>2. BudgetInv /\ [BudgetNext]_budgetVars => BudgetInv'
    BY BudgetKeeps
  <1>3. BudgetInv => BudgetHolds
    <2>1. DaysHold(charges) => DailyBudgetHolds
      BY DEF DaysHold, DailyBudgetHolds, ChargedOn, OnDay, CostSum
    <2>2. QED
      BY <2>1, BurstsHold DEF BudgetInv, BudgetHolds
  <1>4. QED
    BY <1>1, <1>2, <1>3, PTL DEF BudgetSpec

LEMMA BudgetTypesKeep ==
    ASSUME BudgetTypeOK, [BudgetNext]_budgetVars
    PROVE  BudgetTypeOK'
  <1>1. CASE UNCHANGED budgetVars
    BY <1>1 DEF budgetVars, BudgetTypeOK
  <1>2. CASE Tick
    BY <1>2, MaxTimeAssumption DEF Tick, BudgetTypeOK, Times
  <1>3. ASSUME NEW c \in Calls, Sample(c) PROVE BudgetTypeOK'
    <2>1. PICK v \in Conversations, n \in 1..MaxCost :
            call' = [call EXCEPT ![c] = [phase |-> "sampled", now |-> clock,
                                         conversation |-> v, cost |-> n]]
      BY <1>3 DEF Sample
    <2> DEFINE q == [phase |-> "sampled", now |-> clock, conversation |-> v, cost |-> n]
    <2>2. q \in Waiting
      BY DEF BudgetTypeOK, Waiting
    <2>3. call' = [call EXCEPT ![c] = q] /\ UNCHANGED <<clock, usage, charges>>
      BY <1>3, <2>1 DEF Sample
    <2> HIDE DEF q
    <2>4. QED
      BY <2>2, <2>3 DEF BudgetTypeOK
  <1>4. ASSUME NEW c \in Calls, GiveUp(c) PROVE BudgetTypeOK'
    BY <1>4 DEF GiveUp, BudgetTypeOK
  <1>5. ASSUME NEW c \in Calls, Reserve(c) PROVE BudgetTypeOK'
    <2> PICK q : q = call[c]
      OBVIOUS
    <2> PICK rows : rows = MovedRows(q)
      OBVIOUS
    <2> DEFINE v == q.conversation
               y == [call |-> c, conversation |-> v, now |-> q.now,
                     newest |-> NewestOf(charges, q.now), cost |-> q.cost]
               row == RowCharged(rows[v], q.cost)
    <2>1. /\ q \in Waiting /\ q.now \in Times /\ q.now \in Nat /\ v \in Conversations
          /\ q.cost \in 1..MaxCost /\ q.cost \in Nat
      <3>1. q \in Waiting
        BY <1>5 DEF Reserve, BudgetTypeOK, New, Over
      <3>2. QED
        BY <3>1, MaxTimeAssumption, PositiveAssumption DEF Waiting, Times
    <2>2. Day(q.now) \in Nat
      BY <2>1, DayOrder
    <2>3. \A u \in Usage : Normalized(u, q.now) \in Usage
      BY <2>1, <2>2 DEF Normalized, Usage
    <2>4. NewRow(q.now) \in Usage
      BY <2>1, <2>2 DEF NewRow, Usage
    <2>5. rows \in [Conversations -> Usage \cup {NoRow}] /\ rows[v] \in Usage
      <3>1. \A w \in Conversations : MovedRows(q)[w] \in Usage \cup {NoRow}
        BY <2>3, <2>4 DEF MovedRows, BudgetTypeOK
      <3>2. MovedRows(q)[v] \in Usage
        BY <2>1, <2>3, <2>4 DEF MovedRows, BudgetTypeOK
      <3>3. QED
        BY <3>1, <3>2 DEF MovedRows
    <2>6. row \in Usage
      BY <2>1, <2>5, ChargedUsage
    <2>7. /\ call' = [call EXCEPT ![c] = Over] /\ clock' = clock
          /\ \/ usage' = [rows EXCEPT ![v] = row] /\ charges' = charges \cup {y}
             \/ UNCHANGED <<usage, charges>>
      <3>1. /\ call' = [call EXCEPT ![c] = Over] /\ clock' = clock
            /\ \/ /\ usage' = [rows EXCEPT ![v].requests = @ + 1, ![v].tokens = @ + q.cost]
                  /\ charges' = charges \cup {y}
               \/ UNCHANGED <<usage, charges>>
        BY <1>5 DEF Reserve, MovedRows
      <3>2. ASSUME usage' = [rows EXCEPT ![v].requests = @ + 1, ![v].tokens = @ + q.cost]
            PROVE  usage' = [rows EXCEPT ![v] = row]
        BY <2>1, <2>5, <3>2 DEF RowCharged
      <3> HIDE DEF row, y, v
      <3>3. QED
        BY <3>1, <3>2
    <2>8. y \in [call : Calls, conversation : Conversations, now : Times,
                 newest : Times, cost : 1..MaxCost]
      <3>1. NewestOf(charges, q.now) \in Times
        BY <2>1, NewestFacts DEF BudgetTypeOK
      <3>2. QED
        BY <2>1, <3>1
    <2> HIDE DEF row, y, v
    <2>9. QED
      BY <2>5, <2>6, <2>7, <2>8 DEF BudgetTypeOK
  <1>6. QED
    BY <1>1, <1>2, <1>3, <1>4, <1>5 DEF BudgetNext

(* The clock, the counters, the calls and the charges keep their types, in *)
(* whatever order calls reach the counters (_reserve_usage).               *)
THEOREM AssistantTypeCorrect == BudgetSpec => []BudgetTypeOK
  <1>1. BudgetInit => BudgetTypeOK
    BY MaxTimeAssumption DEF BudgetInit, BudgetTypeOK, Times
  <1>2. BudgetTypeOK /\ [BudgetNext]_budgetVars => BudgetTypeOK'
    BY BudgetTypesKeep
  <1>3. QED
    BY <1>1, <1>2, PTL DEF BudgetSpec

-----------------------------------------------------------------------------
(* The search index                                                        *)

LEMMA IndexRebuilds ==
    ASSUME IndexMatchesContent, NEW r \in PackageRevisions, NEW readable \in SUBSET FilesOf(r),
           Inserted(r, Rebuilt(r, readable)), ready' = ready \cup {r}, stray' = stray
    PROVE  IndexMatchesContent'
  <1> DEFINE rows == {row \in chunks : row.revision # r}
             pending == Searchable(r, readable)
             new == {[id |-> c, revision |-> r] : c \in pending}
  <1>1. /\ \A row \in rows : row.id \notin pending
        /\ chunks' = rows \cup new
        /\ index' = [q \in DOMAIN index \cup {r} |->
                       IF q = r THEN Cardinality(pending) ELSE index[q]]
    BY DEF Inserted, Rebuilt
  <1>2. pending \subseteq ContentOf[r]
    BY DEF Searchable
  <1> HIDE DEF pending
  <1>3. RowsOf(r)' = pending
    <2>1. {x \in chunks' : x.revision = r} = new
      BY <1>1
    <2>2. {x.id : x \in new} = pending
      <3>1. \A x \in new : x.id \in pending
        OBVIOUS
      <3>2. ASSUME NEW z \in pending PROVE \E x \in new : x.id = z
        <4> WITNESS [id |-> z, revision |-> r] \in new
        <4>1. QED
          OBVIOUS
      <3> HIDE DEF new
      <3>3. QED
        BY <3>1, <3>2
    <2>3. QED
      BY <2>1, <2>2 DEF RowsOf
  <1>4. ASSUME NEW q, q # r PROVE RowsOf(q)' = RowsOf(q)
    <2>1. {x \in chunks' : x.revision = q} = {x \in chunks : x.revision = q}
      BY <1>1, <1>4
    <2>2. QED
      BY <2>1 DEF RowsOf
  <1>5. ready' = DOMAIN index'
    BY <1>1 DEF IndexMatchesContent
  <1>6. ASSUME NEW q \in ready'
        PROVE  index'[q] = Cardinality(RowsOf(q)') /\ RowsOf(q)' \subseteq ContentOf[q]
    <2>1. CASE q = r
      BY <1>1, <1>2, <1>3, <2>1
    <2>2. CASE q # r
      <3>1. q \in ready /\ index'[q] = index[q]
        BY <1>1, <2>2 DEF IndexMatchesContent
      <3>2. QED
        BY <1>4, <2>2, <3>1 DEF IndexMatchesContent
    <2>3. QED
      BY <2>1, <2>2
  <1>7. ASSUME NEW x \in chunks', NEW y \in chunks', x.id = y.id PROVE x = y
    <2>1. \A z \in new : z.id \in pending /\ z = [id |-> z.id, revision |-> r]
      OBVIOUS
    <2> HIDE DEF new
    <2>2. QED
      BY <1>1, <1>7, <2>1 DEF IndexMatchesContent
  <1>8. QED
    BY <1>5, <1>6, <1>7 DEF IndexMatchesContent

(* A citation is of a row that the query ranked, model or none.            *)
LEMMA CitationsRanked ==
    ASSUME NEW r, NEW h \in Hits(r), NEW cited \in Citations(h)
    PROVE  cited \subseteq RowsOf(r)
  <1>1. PICK n \in 0..Cardinality(RowsOf(r)) : h \in [1..n -> RowsOf(r)]
    BY DEF Hits
  <1>2. Citable(h) \subseteq {h[i] : i \in DOMAIN h}
    BY DEF Citable
  <1>3. cited \subseteq {h[i] : i \in DOMAIN h}
    BY <1>2 DEF Citations
  <1>4. QED
    BY <1>1, <1>3

LEMMA IndexKeeps ==
    ASSUME IndexMatchesContent, [AllNext]_allVars
    PROVE  IndexMatchesContent'
  <1>1. ASSUME UNCHANGED <<ready, chunks, index, stray>> PROVE IndexMatchesContent'
    BY <1>1 DEF IndexMatchesContent, RowsOf
  <1>2. ASSUME NEW r \in PackageRevisions, ConfirmAndIndex(r) \/ RebuildIndex(r)
        PROVE  IndexMatchesContent'
    <2>1. PICK readable \in SUBSET FilesOf(r) : Inserted(r, Rebuilt(r, readable))
      BY <1>2 DEF ConfirmAndIndex, RebuildIndex
    <2>2. ready' = ready \cup {r} /\ stray' = stray
      BY <1>2 DEF ConfirmAndIndex, RebuildIndex
    <2>3. QED
      BY <2>1, <2>2, IndexRebuilds
  <1>3. ASSUME NEW c \in Calls, Answer(c) PROVE IndexMatchesContent'
    <2> PICK r : r = call[c].revision
      OBVIOUS
    <2>1. PICK foreign \in {cited \ ContentOf[r] : cited \in UNION {Citations(h) : h \in Hits(r)}} :
            stray' = stray \cup foreign
      BY <1>3 DEF Answer
    <2>2. r \in ready /\ UNCHANGED <<ready, chunks, index>>
      BY <1>3 DEF Answer, IndexMatchesContent
    <2>a. PICK h \in Hits(r) : \E cited \in Citations(h) : foreign = cited \ ContentOf[r]
      BY <2>1
    <2>3. PICK cited \in Citations(h) : foreign = cited \ ContentOf[r]
      BY <2>a
    <2>4. cited \subseteq RowsOf(r) /\ RowsOf(r) \subseteq ContentOf[r]
      BY <2>2, CitationsRanked DEF IndexMatchesContent
    <2>5. stray' = stray
      BY <2>1, <2>3, <2>4
    <2>6. QED
      BY <1>1, <2>2, <2>5
  <1>4. ASSUME NEW c \in Calls, PackageStep(c), ~ Answer(c) PROVE IndexMatchesContent'
    BY <1>1, <1>4 DEF PackageStep, Ask, AskRefused, ReservePackage, AnswerFails, packageVars
  <1>5. ASSUME (BudgetNext /\ UNCHANGED packageVars) \/ UNCHANGED allVars PROVE IndexMatchesContent'
    BY <1>1, <1>5 DEF packageVars, allVars
  <1>6. QED
    BY <1>2, <1>3, <1>4, <1>5 DEF AllNext

(* A revision that is ready is indexed with exactly the chunks its index   *)
(* row counts, all of its own files, and nothing else is ever cited,       *)
(* whatever is confirmed and rebuilt around it                             *)
(* (rebuild_revision_search_index, search_revision_chunks).                *)
THEOREM AssistantIndexMatches == AllSpec => []IndexMatchesContent
  <1>1. AllInit => IndexMatchesContent
    BY DEF AllInit, IndexMatchesContent
  <1>2. IndexMatchesContent /\ [AllNext]_allVars => IndexMatchesContent'
    BY IndexKeeps
  <1>3. QED
    BY <1>1, <1>2, PTL DEF AllSpec

-----------------------------------------------------------------------------
(* The budget of the package assistant                                     *)

Change == [call : Calls, revision : PackageRevisions, now : Times, newest : Times,
           cost : 0..MaxCost]
Paid(X) == {x \in X : x.cost > 0}

AskedCall == [phase : {"asked"}, now : Times, revision : PackageRevisions, cost : 1..MaxCost]
HoldingCall == [phase : {"holding"}, now : Times, revision : PackageRevisions,
                cost : 1..MaxCost, first : BOOLEAN, row : Counters]
CallForms == Waiting \cup {New, Over} \cup AskedCall \cup HoldingCall

Holds(c) == call[c].phase = "holding"
HasCounters(r) == counters[r] # NoCounters

(* A usage row that accounts for the calls X that changed it: while turns  *)
(* are left, none of them came after its window.                           *)
Account(X, u) ==
    /\ Counts(Paid(X), u.start, u.requests)
    /\ Cardinality(Paid(X)) = u.turns /\ u.turns <= TurnLimit
    /\ \E x \in X : u.start <= x.now
    /\ u.turns < TurnLimit => \A x \in X : x.now < u.start + Window
    /\ \E x \in X : u.date = Day(x.now)
    /\ DaysCount(X, u.date, u.tokens) /\ u.tokens <= DailyLimit

(* The limits, of the calls that changed the row of one revision           *)
LimitsKept(X) ==
    /\ Cardinality(Paid(X)) <= TurnLimit
    /\ DaysHold(X)
    /\ \A t \in Times :
         Cardinality({x \in Paid(X) : x.newest \in t..(t + Window - 1)}) <= 2 * MaxRequests

SpendingTyped ==
    /\ clock \in Times /\ call \in [Calls -> CallForms] /\ ready \subseteq PackageRevisions
    /\ counters \in [PackageRevisions -> Counters \cup {NoCounters}]
    /\ IsFiniteSet(spent) /\ spent \subseteq Change
    /\ \A x \in spent : x.now <= x.newest /\ call[x.call] = Over

RowsAccount ==
    \A r \in PackageRevisions :
      IF ~ HasCounters(r) THEN Touches(r) = {} ELSE Account(Touches(r), counters[r])

(* What a call holds is what its charge will leave in the row: a first row *)
(* while there is none, and otherwise a row that no other call has.        *)
FirstHeld(h) == h.first /\ h.row = FirstCharge(h) /\ h.cost <= DailyLimit
NextHeld(h, u) == ~ h.first /\ u # NoCounters /\ ~ Refused(u, h) /\ h.row = Charged(u, h)

Alone(c) == \A d \in Calls : Holds(d) /\ call[d].revision = call[c].revision => d = c

HoldersCharge ==
    \A c \in Calls : Holds(c) =>
      \/ FirstHeld(call[c])
      \/ NextHeld(call[c], counters[call[c].revision]) /\ Alone(c)

PackageInv ==
    /\ SpendingTyped /\ RowsAccount /\ HoldersCharge
    /\ \A r \in PackageRevisions : LimitsKept(Touches(r))

LEMMA PackageConstants ==
    /\ Window \in Nat \ {0} /\ MaxRequests \in Nat \ {0} /\ DailyLimit \in Nat \ {0}
    /\ MaxCost \in Nat \ {0} /\ TurnLimit \in Nat \ {0} /\ Times \subseteq Nat
    /\ 1..MaxCost \subseteq Nat
    /\ \A t \in Times : Day(t) \in Nat
  <1>1. Times \subseteq Nat
    BY MaxTimeAssumption DEF Times
  <1>2. QED
    BY <1>1, PositiveAssumption, TurnLimitAssumption, DayOrder

LEMMA RowForms ==
    /\ NoCounters \notin Counters
    /\ \A u \in Counters : /\ u.date \in Nat /\ u.tokens \in Nat /\ u.start \in Times
                           /\ u.requests \in Nat /\ u.turns \in Nat
  <1>1. ASSUME NoCounters \in Counters PROVE FALSE
    <2>1. DOMAIN NoCounters = {"date", "tokens", "start", "requests", "turns"}
      BY <1>1 DEF Counters
    <2>2. DOMAIN NoCounters = {"none"}
      BY DEF NoCounters
    <2>3. QED
      BY <2>1, <2>2
  <1>2. QED
    BY <1>1 DEF Counters

(* The row for the day of a call, and for its window                       *)
LEMMA DatedRow ==
    ASSUME NEW u \in Counters, NEW now \in Times
    PROVE  /\ Dated(u, now) \in Counters
           /\ Dated(u, now).date = Day(now)
           /\ Dated(u, now).tokens = (IF u.date = Day(now) THEN u.tokens ELSE 0)
           /\ Dated(u, now).start = u.start /\ Dated(u, now).requests = u.requests
           /\ Dated(u, now).turns = u.turns
  <1> DEFINE a == [u EXCEPT !.date = Day(now)]
             b == [a EXCEPT !.tokens = 0]
  <1>1. CASE u.date = Day(now)
    BY <1>1, RowForms DEF Dated
  <1>2. CASE u.date # Day(now)
    <2>1. a \in Counters
      BY PackageConstants DEF Counters
    <2>2. b = Dated(u, now)
      BY <1>2 DEF Dated, Counters
    <2>3. /\ b.date = Day(now) /\ b.tokens = 0 /\ b.start = u.start
          /\ b.requests = u.requests /\ b.turns = u.turns
      BY DEF Counters
    <2> HIDE DEF a
    <2>4. b \in Counters
      BY <2>1 DEF Counters
    <2> HIDE DEF b
    <2>5. QED
      BY <1>2, <2>2, <2>3, <2>4
  <1>3. QED
    BY <1>1, <1>2

LEMMA WindowedRow ==
    ASSUME NEW u \in Counters, NEW now \in Times
    PROVE  LET new == now >= u.start + Window
               w == Windowed(u, now) IN
           /\ w \in Counters /\ w.date = Day(now) /\ w.turns = u.turns
           /\ w.tokens = (IF u.date = Day(now) THEN u.tokens ELSE 0)
           /\ w.start = (IF new THEN now ELSE u.start)
           /\ w.requests = (IF new THEN 0 ELSE u.requests)
  <1> PICK e \in Counters : e = Dated(u, now)
    BY DatedRow
  <1> DEFINE a == [e EXCEPT !.start = now]
             b == [a EXCEPT !.requests = 0]
  <1>1. CASE ~ (now >= u.start + Window)
    <2>1. Windowed(u, now) = e
      BY <1>1 DEF Windowed
    <2>2. QED
      BY <1>1, <2>1, DatedRow
  <1>2. CASE now >= u.start + Window
    <2>1. a \in Counters
      BY DEF Counters
    <2>2. b = Windowed(u, now)
      BY <1>2 DEF Windowed, Counters
    <2>3. /\ b.date = e.date /\ b.tokens = e.tokens /\ b.start = now
          /\ b.requests = 0 /\ b.turns = e.turns
      BY DEF Counters
    <2> HIDE DEF a
    <2>4. b \in Counters
      BY <2>1 DEF Counters
    <2> HIDE DEF b
    <2>5. QED
      BY <1>2, <2>2, <2>3, <2>4, DatedRow
  <1>3. QED
    BY <1>1, <1>2

LEMMA ChargedRow ==
    ASSUME NEW u \in Counters, NEW q, q.now \in Times, q.cost \in Nat
    PROVE  LET w == Windowed(u, q.now)
               s == Charged(u, q) IN
           /\ s \in Counters /\ s.date = w.date /\ s.start = w.start
           /\ s.turns = w.turns + 1 /\ s.tokens = w.tokens + q.cost
           /\ s.requests = w.requests + 1
  <1> PICK w \in Counters : w = Windowed(u, q.now)
    BY WindowedRow
  <1> DEFINE a == [w EXCEPT !.requests = w.requests + 1]
             b == [a EXCEPT !.turns = w.turns + 1]
             s == [b EXCEPT !.tokens = w.tokens + q.cost]
  <1>1. a \in Counters
    BY DEF Counters
  <1>2. b \in Counters
    <2>1. w.turns + 1 \in Nat
      BY RowForms
    <2> HIDE DEF a
    <2>2. QED
      BY <1>1, <2>1 DEF Counters
  <1>3. s = Charged(u, q)
    BY DEF Charged, Counters
  <1>4. /\ s.date = w.date /\ s.start = w.start /\ s.turns = w.turns + 1
        /\ s.tokens = w.tokens + q.cost /\ s.requests = w.requests + 1
    BY DEF Counters
  <1>5. s \in Counters
    <2>1. w.tokens + q.cost \in Nat
      BY RowForms
    <2> HIDE DEF b
    <2>2. QED
      BY <1>2, <2>1 DEF Counters
  <1> HIDE DEF s
  <1>6. QED
    BY <1>3, <1>4, <1>5

(* What is known of the calls that changed the row of one revision, and of *)
(* the one that changes it next                                            *)
Changes(X) == IsFiniteSet(X) /\ X \subseteq Change /\ \A x \in X : x.now <= x.newest
Follows(y, X) ==
    /\ y \in Change /\ y \notin X /\ y.newest = NewestOf(X, y.now)

LEMMA ChangesFinite ==
    ASSUME NEW X, Changes(X)
    PROVE  /\ \A x \in X : /\ Dates(x) /\ x.now \in Times /\ x.now \in Nat
                           /\ x.newest \in Nat /\ Day(x.now) \in Nat
           /\ IsFiniteSet(Paid(X)) /\ Cardinality(Paid(X)) \in Nat
           /\ \A x \in Paid(X) : x \in X /\ x.newest \in Nat
  <1>1. \A x \in X : /\ x.now \in Times /\ x.newest \in Times /\ x.now \in Nat
                     /\ x.newest \in Nat /\ x.cost \in Nat /\ Day(x.now) \in Nat
    <2> TAKE x \in X
    <2>1. x \in Change
      BY DEF Changes
    <2>2. x.now \in Times /\ x.newest \in Times /\ x.cost \in 0..MaxCost
      BY <2>1 DEF Change
    <2>3. x.cost \in Nat
      BY <2>2
    <2>4. QED
      BY <2>2, <2>3, PackageConstants
  <1>2. Paid(X) \subseteq X
    BY DEF Paid
  <1>3. QED
    BY <1>1, <1>2, FS_Subset, FS_CardinalityType DEF Changes, Dates

LEMMA FollowsNewest ==
    ASSUME NEW X, Changes(X), NEW y, Follows(y, X)
    PROVE  /\ Dates(y) /\ y.now \in Times /\ y.now \in Nat /\ y.newest \in Nat
           /\ y.now <= y.newest /\ \A x \in X : x.now <= y.newest
           /\ y.newest = y.now \/ \E x \in X : y.newest = x.now
  <1>1. /\ y.now \in Times /\ y.now \in Nat /\ y.newest \in Times /\ y.newest \in Nat
        /\ y.cost \in Nat
    <2>1. y.now \in Times /\ y.newest \in Times /\ y.cost \in 0..MaxCost
      BY DEF Follows, Change
    <2>2. y.cost \in Nat
      BY <2>1
    <2>3. QED
      BY <2>1, <2>2, PackageConstants
  <1>2. \A x \in X : x.now \in Times /\ x.now \in Nat
    BY ChangesFinite
  <1>3. /\ y.newest >= y.now /\ \A x \in X : y.newest >= x.now
        /\ y.newest = y.now \/ \E x \in X : y.newest = x.now
    BY <1>1, <1>2, NewestFacts DEF Follows
  <1>4. Dates(y) /\ y.now <= y.newest
    BY <1>1, <1>3 DEF Dates
  <1>5. QED
    BY <1>1, <1>2, <1>3, <1>4

LEMMA FollowsChanges ==
    ASSUME NEW X, Changes(X), NEW y, Follows(y, X)
    PROVE  /\ Changes(X \cup {y})
           /\ Paid(X \cup {y}) = (IF y.cost > 0 THEN Paid(X) \cup {y} ELSE Paid(X))
           /\ y \notin Paid(X)
  <1>1. y.now <= y.newest
    BY FollowsNewest
  <1>2. Changes(X \cup {y})
    BY <1>1, FS_AddElement DEF Changes, Follows
  <1>3. Paid(X \cup {y}) = (IF y.cost > 0 THEN Paid(X) \cup {y} ELSE Paid(X)) /\ y \notin Paid(X)
    BY DEF Paid, Follows
  <1>4. QED
    BY <1>2, <1>3

(* The tokens of every day, when a call moves the row to its own           *)
LEMMA DaysFollow ==
    ASSUME NEW X, Changes(X), NEW u \in Counters, Account(X, u), NEW y, Follows(y, X),
           NEW left, left = (IF u.date = Day(y.now) THEN u.tokens ELSE 0) + y.cost
    PROVE  DaysCount(X \cup {y}, Day(y.now), left)
  <1>1. u.date \in Nat /\ u.tokens \in Nat
    BY RowForms
  <1>2. u.date <= Day(y.newest)
    <2>1. PICK x \in X : u.date = Day(x.now)
      BY DEF Account
    <2>2. x.now \in Nat /\ y.newest \in Nat /\ x.now <= y.newest
      BY ChangesFinite, FollowsNewest
    <2>3. QED
      BY <2>1, <2>2, DayOrder
  <1>3. IsFiniteSet(X) /\ (\A x \in X : Dates(x)) /\ Dates(y) /\ y \notin X
    BY ChangesFinite, FollowsNewest DEF Changes, Follows
  <1>4. DaysCount(X, u.date, u.tokens) /\ u.tokens <= DailyLimit
    BY DEF Account
  <1>5. QED
    BY <1>1, <1>2, <1>3, <1>4, DaysMove

(* A refused call that finds no turns left moves the row to its day only.  *)
LEMMA DatedAccount ==
    ASSUME NEW X, Changes(X), NEW u \in Counters, Account(X, u), OutOfTurns(u),
           NEW y, Follows(y, X), y.cost = 0
    PROVE  Account(X \cup {y}, Dated(u, y.now))
  <1> PICK w : w = Dated(u, y.now)
    OBVIOUS
  <1>1. /\ w \in Counters /\ w.date = Day(y.now) /\ w.start = u.start
        /\ w.requests = u.requests /\ w.turns = u.turns
        /\ w.tokens = (IF u.date = Day(y.now) THEN u.tokens ELSE 0)
    BY DatedRow, FollowsNewest
  <1>2. Paid(X \cup {y}) = Paid(X)
    <2>1. ~ (y.cost > 0)
      OBVIOUS
    <2>2. QED
      BY <2>1, FollowsChanges
  <1>3. w.tokens = (IF u.date = Day(y.now) THEN u.tokens ELSE 0) + y.cost
    BY <1>1, RowForms
  <1>4. DaysCount(X \cup {y}, w.date, w.tokens)
    BY <1>1, <1>3, DaysFollow
  <1>5. w.tokens <= DailyLimit
    BY <1>1, PackageConstants DEF Account
  <1>6. ~ (w.turns < TurnLimit)
    BY <1>1, RowForms, PackageConstants DEF OutOfTurns
  <1>7. (\E x \in X : w.start <= x.now) /\ \E x \in X \cup {y} : w.date = Day(x.now)
    BY <1>1 DEF Account
  <1>8. Counts(Paid(X), w.start, w.requests) /\ Cardinality(Paid(X)) = w.turns
        /\ w.turns <= TurnLimit
    BY <1>1 DEF Account
  <1>9. QED
    BY <1>2, <1>4, <1>5, <1>6, <1>7, <1>8 DEF Account

(* The window that a call moves the row to holds the newest time.          *)
LEMMA WindowFollows ==
    ASSUME NEW X, Changes(X), NEW u \in Counters, Account(X, u), ~ OutOfTurns(u),
           NEW y, Follows(y, X)
    PROVE  LET w == Windowed(u, y.now) IN
           /\ w \in Counters /\ w.date = Day(y.now) /\ w.turns = u.turns /\ w.turns < TurnLimit
           /\ w.tokens = (IF u.date = Day(y.now) THEN u.tokens ELSE 0)
           /\ Counts(Paid(X), w.start, w.requests)
           /\ \A x \in X \cup {y} : x.now < w.start + Window
           /\ \E x \in X \cup {y} : w.start <= x.now
           /\ w.start \in Nat /\ w.requests \in Nat
           /\ w.start <= y.newest /\ y.newest < w.start + Window
  <1> PICK w : w = Windowed(u, y.now)
    OBVIOUS
  <1>1. /\ w \in Counters /\ w.date = Day(y.now) /\ w.turns = u.turns
        /\ w.tokens = (IF u.date = Day(y.now) THEN u.tokens ELSE 0)
        /\ w.start = (IF y.now >= u.start + Window THEN y.now ELSE u.start)
        /\ w.requests = (IF y.now >= u.start + Window THEN 0 ELSE u.requests)
    BY WindowedRow, FollowsNewest
  <1>2. u.start \in Nat /\ u.requests \in Nat /\ w.start \in Nat /\ w.requests \in Nat
    BY <1>1, RowForms, PackageConstants
  <1>3. u.turns < TurnLimit
    BY RowForms, PackageConstants DEF OutOfTurns
  <1>4. /\ \A x \in X : x.now \in Nat /\ x.now < u.start + Window
        /\ \E x \in X : u.start <= x.now
        /\ Counts(Paid(X), u.start, u.requests)
    BY <1>3, ChangesFinite DEF Account
  <1>5. /\ y.now \in Nat /\ y.newest \in Nat /\ y.now <= y.newest
        /\ \A x \in X : x.now <= y.newest
        /\ y.newest = y.now \/ \E x \in X : y.newest = x.now
    BY FollowsNewest
  <1>6. Window \in Nat \ {0}
    BY PackageConstants
  <1>7. CASE y.now >= u.start + Window
    <2>1. Counts(Paid(X), y.now, 0)
      BY <1>2, <1>4, <1>5, <1>7, ChangesFinite, WindowMoves
    <2>2. w.start = y.now /\ w.requests = 0
      BY <1>1, <1>7
    <2>3. \A x \in X : x.now < y.now
      BY <1>2, <1>4, <1>5, <1>6, <1>7
    <2>4. y.newest = y.now
      BY <1>4, <1>5, <2>3
    <2>5. \A x \in X \cup {y} : x.now < w.start + Window
      BY <1>4, <1>5, <1>6, <2>2, <2>3
    <2>6. QED
      BY <1>1, <1>2, <1>3, <1>5, <1>6, <2>1, <2>2, <2>4, <2>5
  <1>8. CASE ~ (y.now >= u.start + Window)
    <2>1. w.start = u.start /\ w.requests = u.requests
      BY <1>1, <1>8
    <2>2. \A x \in X \cup {y} : x.now < w.start + Window
      BY <1>2, <1>4, <1>5, <1>6, <1>8, <2>1
    <2>3. w.start <= y.newest /\ y.newest < w.start + Window
      BY <1>2, <1>4, <1>5, <2>1, <2>2
    <2>4. QED
      BY <1>1, <1>2, <1>3, <1>4, <2>1, <2>2, <2>3
  <1>9. QED
    BY <1>7, <1>8

LEMMA WindowedAccount ==
    ASSUME NEW X, Changes(X), NEW u \in Counters, Account(X, u), ~ OutOfTurns(u),
           NEW y, Follows(y, X), y.cost = 0
    PROVE  Account(X \cup {y}, Windowed(u, y.now))
  <1> PICK w : w = Windowed(u, y.now)
    OBVIOUS
  <1>1. /\ w \in Counters /\ w.date = Day(y.now) /\ w.turns = u.turns /\ w.turns < TurnLimit
        /\ w.tokens = (IF u.date = Day(y.now) THEN u.tokens ELSE 0)
        /\ Counts(Paid(X), w.start, w.requests)
        /\ \A x \in X \cup {y} : x.now < w.start + Window
        /\ \E x \in X \cup {y} : w.start <= x.now
    BY WindowFollows
  <1>2. Paid(X \cup {y}) = Paid(X)
    <2>1. ~ (y.cost > 0)
      OBVIOUS
    <2>2. QED
      BY <2>1, FollowsChanges
  <1>3. w.tokens = (IF u.date = Day(y.now) THEN u.tokens ELSE 0) + y.cost
    BY <1>1, RowForms
  <1>4. DaysCount(X \cup {y}, w.date, w.tokens)
    BY <1>1, <1>3, DaysFollow
  <1>5. w.tokens <= DailyLimit
    BY <1>1, PackageConstants DEF Account
  <1>6. Cardinality(Paid(X)) = w.turns /\ w.turns <= TurnLimit
    BY <1>1 DEF Account
  <1>7. \E x \in X \cup {y} : w.date = Day(x.now)
    BY <1>1
  <1>8. QED
    BY <1>1, <1>2, <1>4, <1>5, <1>6, <1>7 DEF Account

(* A charge that its row allows is one more that the row accounts for.     *)
LEMMA ChargedAccount ==
    ASSUME NEW X, Changes(X), NEW u \in Counters, Account(X, u), NEW y, Follows(y, X),
           y.cost > 0, NEW q, q.now = y.now, q.cost = y.cost, q.cost \in Nat,
           ~ OutOfTurns(u), ~ OverLimit(u, q)
    PROVE  /\ Account(X \cup {y}, Charged(u, q)) /\ Charged(u, q).start <= y.newest
  <1> PICK w : w = Windowed(u, q.now)
    OBVIOUS
  <1> PICK s : s = Charged(u, q)
    OBVIOUS
  <1>1. /\ w \in Counters /\ w.date = Day(y.now) /\ w.turns = u.turns /\ w.turns < TurnLimit
        /\ w.tokens = (IF u.date = Day(y.now) THEN u.tokens ELSE 0)
        /\ Counts(Paid(X), w.start, w.requests)
        /\ \A x \in X \cup {y} : x.now < w.start + Window
        /\ \E x \in X \cup {y} : w.start <= x.now
        /\ w.start \in Nat /\ w.requests \in Nat
        /\ w.start <= y.newest /\ y.newest < w.start + Window
    BY WindowFollows
  <1>2. /\ s \in Counters /\ s.date = w.date /\ s.start = w.start /\ s.turns = w.turns + 1
        /\ s.tokens = w.tokens + q.cost /\ s.requests = w.requests + 1
    BY ChargedRow, FollowsNewest
  <1>3. w.requests < MaxRequests /\ w.tokens + q.cost <= DailyLimit
    BY <1>1, RowForms, PackageConstants DEF OverLimit
  <1>4. Paid(X \cup {y}) = Paid(X) \cup {y} /\ y \notin Paid(X) /\ y.newest \in Nat
    BY FollowsNewest, FollowsChanges
  <1>5. Counts(Paid(X) \cup {y}, s.start, s.requests)
    <2>1. IsFiniteSet(Paid(X)) /\ \A x \in Paid(X) : x.newest \in Nat
      BY ChangesFinite
    <2>2. QED
      BY <1>1, <1>2, <1>3, <1>4, <2>1, WindowCharges
  <1>6. Cardinality(Paid(X) \cup {y}) = s.turns /\ s.turns <= TurnLimit
    <2>1. Cardinality(Paid(X)) = w.turns
      BY <1>1 DEF Account
    <2>2. Cardinality(Paid(X) \cup {y}) = Cardinality(Paid(X)) + 1
      BY <1>4, ChangesFinite, FS_AddElement
    <2>3. QED
      BY <1>1, <1>2, <2>1, <2>2, RowForms, PackageConstants
  <1>7. DaysCount(X \cup {y}, s.date, s.tokens)
    <2>1. s.tokens = (IF u.date = Day(y.now) THEN u.tokens ELSE 0) + y.cost
      BY <1>1, <1>2
    <2>2. DaysCount(X \cup {y}, Day(y.now), s.tokens)
      BY <2>1, DaysFollow
    <2>3. s.date = Day(y.now)
      BY <1>1, <1>2
    <2>4. QED
      BY <2>2, <2>3
  <1>8. /\ \A x \in X \cup {y} : x.now < s.start + Window
        /\ \E x \in X \cup {y} : s.start <= x.now
        /\ \E x \in X \cup {y} : s.date = Day(x.now)
        /\ s.tokens <= DailyLimit /\ s.start <= y.newest
    BY <1>1, <1>2, <1>3
  <1>9. QED
    BY <1>4, <1>5, <1>6, <1>7, <1>8 DEF Account

LEMMA FirstAccount ==
    ASSUME NEW q, q.now \in Times, q.cost \in Nat, q.cost <= DailyLimit,
           NEW y \in Change, y.now = q.now, y.cost = q.cost, y.cost > 0, y.newest = y.now
    PROVE  /\ Account({y}, FirstCharge(q)) /\ FirstCharge(q).start <= y.newest
  <1> PICK u : u = FirstCharge(q)
    OBVIOUS
  <1>1. /\ u \in Counters /\ u.date = Day(y.now) /\ u.tokens = y.cost /\ u.start = y.now
        /\ u.requests = 1 /\ u.turns = 1
    BY PackageConstants DEF FirstCharge, Counters
  <1>2. Cardinality({y}) = 1 /\ Cardinality({}) = 0 /\ IsFiniteSet({})
    BY FS_Singleton, FS_EmptySet
  <1>3. y.now \in Nat /\ y.newest \in Nat /\ Dates(y) /\ Day(y.now) \in Nat
    <2>1. y.now \in Nat /\ Day(y.now) \in Nat
      BY PackageConstants
    <2>2. Dates(y)
      BY <2>1 DEF Dates
    <2>3. QED
      BY <2>1, <2>2
  <1>4. Paid({y}) = {y}
    BY DEF Paid
  <1>5. Counts({y}, u.start, 1)
    <2>1. Since({y}, y.now) = {y} /\ Before({y}, y.now) = {}
      BY <1>3 DEF Since, Before
    <2>2. \A x \in {y} : x.newest < y.now + Window
      BY <1>3, PackageConstants
    <2>3. QED
      BY <1>1, <1>2, <2>1, <2>2, PackageConstants DEF Counts
  <1>6. DaysCount({y}, u.date, u.tokens)
    <2> PICK e : e = {}
      OBVIOUS
    <2>1. DaysCount(e, Day(y.now), 0)
      BY <1>3, DaysBegin
    <2>2. /\ IsFiniteSet(e) /\ (\A x \in e : Dates(x)) /\ y \notin e
          /\ 0 \in Nat /\ 0 <= DailyLimit
      BY <1>2, PackageConstants
    <2>3. Day(y.now) <= Day(y.newest)
      BY <1>3
    <2>4. u.tokens = (IF Day(y.now) = Day(y.now) THEN 0 ELSE 0) + y.cost
      BY <1>1, <1>3
    <2>5. DaysCount(e \cup {y}, Day(y.now), u.tokens)
      BY <1>3, <2>1, <2>2, <2>3, <2>4, DaysMove
    <2>6. e \cup {y} = {y}
      OBVIOUS
    <2>7. QED
      BY <1>1, <2>5, <2>6
  <1>7. \A x \in {y} : x.now < u.start + Window
    BY <1>1, <1>3, PackageConstants
  <1>8. QED
    BY <1>1, <1>2, <1>3, <1>4, <1>5, <1>6, <1>7, PackageConstants DEF Account

(* The limits stand after a change that its row accounts for.              *)
LEMMA LimitsGrow ==
    ASSUME NEW X, Changes(X), LimitsKept(X), NEW y, Follows(y, X),
           NEW u \in Counters, Account(X \cup {y}, u), y.cost > 0 => u.start <= y.newest
    PROVE  LimitsKept(X \cup {y})
  <1> PICK Y : Y = X \cup {y}
    OBVIOUS
  <1>1. Changes(Y) /\ y.newest \in Nat
        /\ Paid(Y) = (IF y.cost > 0 THEN Paid(X) \cup {y} ELSE Paid(X))
    BY FollowsNewest, FollowsChanges
  <1>2. Cardinality(Paid(Y)) <= TurnLimit
    BY DEF Account
  <1>3. DaysHold(Y)
    <2>1. u.date \in Nat /\ u.tokens \in Nat
      BY RowForms
    <2>2. DaysCount(Y, u.date, u.tokens) /\ u.tokens <= DailyLimit
      BY DEF Account
    <2>3. IsFiniteSet(Y) /\ \A x \in Y : Dates(x)
      BY <1>1, ChangesFinite DEF Changes
    <2>4. QED
      BY <2>1, <2>2, <2>3, DaysKept
  <1>4. ASSUME NEW t \in Times
        PROVE  Cardinality({x \in Paid(Y) : x.newest \in t..(t + Window - 1)}) <= 2 * MaxRequests
    <2> DEFINE P == {x \in Paid(Y) : x.newest \in t..(t + Window - 1)}
               Q == {x \in Paid(Y) : x.newest >= t}
    <2>1. t \in Nat
      BY PackageConstants
    <2>2. CASE ~ (y.cost > 0 /\ y.newest \in t..(t + Window - 1))
      <3>1. P = {x \in Paid(X) : x.newest \in t..(t + Window - 1)}
        BY <1>1, <2>2
      <3>2. QED
        BY <3>1 DEF LimitsKept
    <2>3. CASE y.cost > 0 /\ y.newest \in t..(t + Window - 1)
      <3>1. u.start \in Nat /\ u.requests \in Nat /\ u.start < t + Window
        <4>1. u.start \in Nat /\ u.requests \in Nat
          BY RowForms, PackageConstants
        <4>2. t + Window - 1 >= y.newest /\ Window \in Nat
          BY <1>1, <2>1, <2>3, PackageConstants
        <4>3. QED
          BY <1>1, <2>1, <2>3, <4>1, <4>2
      <3>2. Counts(Paid(Y), u.start, u.requests)
        BY DEF Account
      <3>3. IsFiniteSet(Paid(Y)) /\ \A x \in Paid(Y) : x.newest \in Nat
        BY <1>1, ChangesFinite
      <3>4. Cardinality(Q) <= u.requests + MaxRequests
        BY <2>1, <3>1, <3>2, <3>3, WindowHolds
      <3>5. u.requests <= MaxRequests
        BY <3>2 DEF Counts
      <3>6. P \subseteq Q /\ Q \subseteq Paid(Y)
        BY <2>1, <3>3
      <3> HIDE DEF P, Q
      <3>7. /\ Cardinality(P) <= Cardinality(Q) /\ Cardinality(P) \in Nat
            /\ Cardinality(Q) \in Nat
        BY <3>3, <3>6, FS_Subset, FS_CardinalityType
      <3>8. Cardinality(P) <= 2 * MaxRequests
        BY <3>1, <3>4, <3>5, <3>7, PackageConstants
      <3>9. QED
        BY <3>8 DEF P
    <2>4. QED
      BY <2>2, <2>3
  <1>5. QED
    BY <1>2, <1>3, <1>4 DEF LimitsKept

LEMMA FormOf ==
    ASSUME NEW q \in CallForms
    PROVE  /\ q.phase = "sampled" => q \in Waiting
           /\ q.phase = "asked" => q \in AskedCall /\ q.now \in Times /\ q.now \in Nat
                /\ q.revision \in PackageRevisions /\ q.cost \in 1..MaxCost /\ q.cost \in Nat
           /\ q.phase = "holding" => q \in HoldingCall /\ q.now \in Times /\ q.now \in Nat
                /\ q.revision \in PackageRevisions /\ q.cost \in 1..MaxCost /\ q.cost \in Nat
                /\ q.first \in BOOLEAN /\ q.row \in Counters
  <1>1. /\ q.phase = "sampled" => q \in Waiting
        /\ q.phase = "asked" => q \in AskedCall
        /\ q.phase = "holding" => q \in HoldingCall
    BY DEF CallForms, New, Over, Waiting, AskedCall, HoldingCall
  <1>2. \A h \in AskedCall : /\ h.now \in Times /\ h.revision \in PackageRevisions
                             /\ h.cost \in 1..MaxCost
    BY DEF AskedCall
  <1>3. \A h \in HoldingCall : /\ h.now \in Times /\ h.revision \in PackageRevisions
                               /\ h.cost \in 1..MaxCost /\ h.first \in BOOLEAN /\ h.row \in Counters
    BY DEF HoldingCall
  <1>4. QED
    BY <1>1, <1>2, <1>3, PackageConstants

LEMMA Spending ==
    ASSUME PackageInv
    PROVE  /\ clock \in Times /\ call \in [Calls -> CallForms] /\ ready \subseteq PackageRevisions
           /\ \A r : Changes(Touches(r))
           /\ \A r \in PackageRevisions : HasCounters(r) => counters[r] \in Counters
           /\ \A c \in Calls : call[c] \in CallForms
  <1>1. \A r : Touches(r) \subseteq spent
    BY DEF Touches
  <1>2. IsFiniteSet(spent) /\ spent \subseteq Change /\ \A x \in spent : x.now <= x.newest
    BY DEF PackageInv, SpendingTyped
  <1>3. \A r : Changes(Touches(r))
    BY <1>1, <1>2, FS_Subset DEF Changes
  <1>4. QED
    BY <1>3 DEF PackageInv, SpendingTyped, HasCounters

(* A step that changes no usage row keeps everything that they account for.*)
LEMMA UnspentKeeps ==
    ASSUME PackageInv, UNCHANGED <<counters, spent>>, clock' \in Times,
           ready' \subseteq PackageRevisions, call' \in [Calls -> CallForms],
           \A c \in Calls : /\ call[c] = Over => call'[c] = Over
                            /\ call'[c].phase = "holding" => call'[c] = call[c]
    PROVE  PackageInv'
  <1>1. SpendingTyped'
    <2>1. \A x \in spent : call'[x.call] = Over
      <3>1. \A x \in spent : x.call \in Calls /\ call[x.call] = Over
        BY DEF PackageInv, SpendingTyped, Change
      <3>2. QED
        BY <3>1
    <2>2. QED
      BY <2>1 DEF PackageInv, SpendingTyped
  <1>2. RowsAccount'
    BY DEF PackageInv, RowsAccount, HasCounters, Touches
  <1>3. HoldersCharge'
    <2>1. ASSUME NEW c \in Calls, Holds(c)'
          PROVE  \/ FirstHeld(call'[c])
                 \/ NextHeld(call'[c], counters'[call'[c].revision]) /\ Alone(c)'
      <3>1. call'[c] = call[c] /\ Holds(c)
        BY <2>1 DEF Holds
      <3>2. Alone(c) => Alone(c)'
        BY <3>1 DEF Alone, Holds
      <3>3. QED
        BY <3>1, <3>2 DEF PackageInv, HoldersCharge
    <2>2. QED
      BY <2>1 DEF HoldersCharge
  <1>4. \A r \in PackageRevisions : LimitsKept(Touches(r))'
    BY DEF PackageInv, Touches
  <1>5. QED
    BY <1>1, <1>2, <1>3, <1>4 DEF PackageInv

(* A call that ends by changing its row keeps the invariant when the row   *)
(* then accounts for it, and nobody else holds a row drawn from this one.  *)
LEMMA TouchKeeps ==
    ASSUME PackageInv, NEW c \in Calls, NEW r \in PackageRevisions, NEW w \in Counters,
           NEW y, Follows(y, Touches(r)), y.call = c, y.revision = r, call[c] # Over,
           Account(Touches(r) \cup {y}, w), y.cost > 0 => w.start <= y.newest,
           call' = [call EXCEPT ![c] = Over], counters' = [counters EXCEPT ![r] = w],
           spent' = spent \cup {y}, UNCHANGED <<clock, ready>>,
           \A d \in Calls \ {c} : Holds(d) /\ call[d].revision = r => FirstHeld(call[d])
    PROVE  PackageInv'
  <1>1. Changes(Touches(r)) /\ call \in [Calls -> CallForms]
    BY Spending
  <1>2. /\ Touches(r)' = Touches(r) \cup {y}
        /\ \A s \in PackageRevisions \ {r} : Touches(s)' = Touches(s)
    BY DEF Touches
  <1>3. /\ counters' \in [PackageRevisions -> Counters \cup {NoCounters}] /\ counters'[r] = w
        /\ \A s \in PackageRevisions \ {r} : counters'[s] = counters[s]
    BY DEF PackageInv, SpendingTyped
  <1>4. call' \in [Calls -> CallForms] /\ call'[c] = Over
        /\ \A d \in Calls \ {c} : call'[d] = call[d]
    BY <1>1 DEF CallForms
  <1>5. w # NoCounters
    BY RowForms
  <1>6. SpendingTyped'
    <2>1. \A x \in spent' : call'[x.call] = Over
      <3>1. \A x \in spent : x.call \in Calls /\ call[x.call] = Over
        BY DEF PackageInv, SpendingTyped, Change
      <3>2. QED
        BY <1>4, <3>1
    <2>2. y \in Change /\ y.now <= y.newest
      BY <1>1, FollowsNewest DEF Follows
    <2>3. IsFiniteSet(spent') /\ spent' \subseteq Change /\ \A x \in spent' : x.now <= x.newest
      BY <2>2, FS_AddElement DEF PackageInv, SpendingTyped
    <2>4. QED
      BY <1>3, <1>4, <2>1, <2>3 DEF PackageInv, SpendingTyped
  <1>7. RowsAccount'
    <2>1. ASSUME NEW s \in PackageRevisions
          PROVE  IF ~ HasCounters(s)' THEN Touches(s)' = {}
                 ELSE Account(Touches(s), counters[s])'
      <3>1. CASE s = r
        BY <1>2, <1>3, <1>5, <3>1 DEF HasCounters
      <3>2. CASE s # r
        <4>1. counters'[s] = counters[s] /\ Touches(s)' = Touches(s)
          BY <1>2, <1>3, <3>2
        <4>2. QED
          BY <4>1 DEF PackageInv, RowsAccount, HasCounters
      <3>3. QED
        BY <3>1, <3>2
    <2>2. QED
      BY <2>1 DEF RowsAccount
  <1>8. HoldersCharge'
    <2>1. ASSUME NEW d \in Calls, Holds(d)'
          PROVE  \/ FirstHeld(call'[d])
                 \/ NextHeld(call'[d], counters'[call'[d].revision]) /\ Alone(d)'
      <3>1. d # c /\ call'[d] = call[d] /\ Holds(d)
        BY <1>4, <2>1 DEF Holds, Over
      <3>2. call[d].revision \in PackageRevisions
        BY <3>1, Spending, FormOf DEF Holds
      <3>3. CASE FirstHeld(call[d])
        BY <3>1, <3>3
      <3>4. CASE ~ FirstHeld(call[d])
        <4>1. NextHeld(call[d], counters[call[d].revision]) /\ Alone(d)
          BY <3>1, <3>4 DEF PackageInv, HoldersCharge
        <4>2. call[d].revision # r
          BY <3>1, <3>4
        <4>3. counters'[call[d].revision] = counters[call[d].revision]
          BY <1>3, <3>2, <4>2
        <4>4. Alone(d)'
          BY <1>4, <3>1, <4>1 DEF Alone, Holds, Over
        <4>5. QED
          BY <3>1, <4>1, <4>3, <4>4
      <3>5. QED
        BY <3>3, <3>4
    <2>2. QED
      BY <2>1 DEF HoldersCharge
  <1>9. \A s \in PackageRevisions : LimitsKept(Touches(s))'
    <2>1. ASSUME NEW s \in PackageRevisions PROVE LimitsKept(Touches(s))'
      <3>1. CASE s = r
        <4>1. LimitsKept(Touches(r))
          BY DEF PackageInv
        <4>2. LimitsKept(Touches(r) \cup {y})
          BY <1>1, <4>1, LimitsGrow
        <4>3. QED
          BY <1>2, <3>1, <4>2
      <3>2. CASE s # r
        BY <1>2, <3>2 DEF PackageInv
      <3>3. QED
        BY <3>1, <3>2
    <2>2. QED
      BY <2>1
  <1>10. QED
    BY <1>6, <1>7, <1>8, <1>9 DEF PackageInv

LEMMA TouchFollows ==
    ASSUME PackageInv, NEW c \in Calls, NEW q, q = call[c], q # Over, q.now \in Times,
           q.revision \in PackageRevisions, NEW cost \in 0..MaxCost,
           NEW y, y = Touch(c, q, cost)
    PROVE  /\ Follows(y, Touches(q.revision)) /\ y.call = c /\ y.revision = q.revision
           /\ y.now = q.now /\ y.cost = cost
  <1>1. y.call = c /\ y.revision = q.revision /\ y.now = q.now /\ y.cost = cost
        /\ y.newest = NewestOf(Touches(q.revision), q.now)
    BY DEF Touch
  <1>2. \A x \in Touches(q.revision) : x.now \in Times
    BY Spending, ChangesFinite
  <1>3. NewestOf(Touches(q.revision), q.now) \in Times
    BY <1>2, NewestFacts
  <1>4. y \in Change
    BY <1>3 DEF Touch, Change
  <1>5. y \notin Touches(q.revision)
    <2>1. \A x \in spent : call[x.call] = Over
      BY DEF PackageInv, SpendingTyped
    <2>2. QED
      BY <1>1, <2>1 DEF Touches
  <1>6. QED
    BY <1>1, <1>4, <1>5 DEF Follows

(* A refused call moves its row, which no other call holds, to its day and *)
(* its window.                                                             *)
LEMMA RefusalKeeps ==
    ASSUME PackageInv, NEW c \in Calls, ReservePackage(c),
           Refused(counters[call[c].revision], call[c])
    PROVE  PackageInv'
  <1> PICK q : q = call[c]
    OBVIOUS
  <1> PICK r : r = q.revision
    OBVIOUS
  <1> PICK u : u = counters[r]
    OBVIOUS
  <1>1. /\ q.phase = "asked" /\ RowFree(c) /\ call' = [call EXCEPT ![c] = Over]
        /\ counters' = [counters EXCEPT ![r] = AfterRefusal(u, q)]
        /\ spent' = IF u = NoCounters THEN spent ELSE spent \cup {Touch(c, q, 0)}
        /\ UNCHANGED <<clock, ready>>
    BY DEF ReservePackage
  <1>2. /\ q \in AskedCall /\ q.now \in Times /\ q.cost \in Nat
        /\ r \in PackageRevisions /\ q # Over
    BY <1>1, Spending, FormOf DEF Over
  <1>3. call \in [Calls -> CallForms] /\ call' \in [Calls -> CallForms]
    BY <1>1 DEF PackageInv, SpendingTyped, CallForms
  <1>4. CASE u = NoCounters
    <2>1. counters' = counters /\ spent' = spent
      BY <1>1, <1>4 DEF AfterRefusal, PackageInv, SpendingTyped
    <2>2. clock' \in Times /\ ready' \subseteq PackageRevisions
      BY <1>1, Spending
    <2>3. \A d \in Calls : /\ call[d] = Over => call'[d] = Over
                           /\ call'[d].phase = "holding" => call'[d] = call[d]
      BY <1>1, <1>3 DEF Over
    <2>4. QED
      BY <1>3, <2>1, <2>2, <2>3, UnspentKeeps
  <1>5. CASE u # NoCounters
    <2> PICK w : w = AfterRefusal(u, q)
      OBVIOUS
    <2> PICK y : y = Touch(c, q, 0)
      OBVIOUS
    <2>1. u \in Counters /\ Account(Touches(r), u) /\ Changes(Touches(r))
      BY <1>2, <1>5, Spending DEF HasCounters, PackageInv, RowsAccount
    <2>2. /\ Follows(y, Touches(r)) /\ y.call = c /\ y.revision = r
          /\ y.now = q.now /\ y.cost = 0
      BY <1>2, TouchFollows, PackageConstants
    <2>3. w \in Counters /\ Account(Touches(r) \cup {y}, w)
      <3>1. CASE OutOfTurns(u)
        <4>1. w = Dated(u, y.now)
          BY <1>5, <2>2, <3>1 DEF AfterRefusal
        <4>2. w \in Counters
          BY <1>2, <2>1, <2>2, <4>1, DatedRow
        <4>3. QED
          BY <2>1, <2>2, <3>1, <4>1, <4>2, DatedAccount
      <3>2. CASE ~ OutOfTurns(u)
        <4>1. w = Windowed(u, y.now)
          BY <1>5, <2>2, <3>2 DEF AfterRefusal
        <4>2. w \in Counters
          BY <1>2, <2>1, <2>2, <4>1, WindowedRow
        <4>3. QED
          BY <2>1, <2>2, <3>2, <4>1, <4>2, WindowedAccount
      <3>3. QED
        BY <3>1, <3>2
    <2>4. \A d \in Calls \ {c} : Holds(d) /\ call[d].revision = r => FirstHeld(call[d])
      BY <1>1, <1>5 DEF RowFree, Holds
    <2>5. ~ (y.cost > 0)
      BY <2>2
    <2>6. /\ counters' = [counters EXCEPT ![r] = w] /\ spent' = spent \cup {y}
      BY <1>1, <1>5
    <2>7. QED
      BY <1>1, <1>2, <2>2, <2>3, <2>4, <2>5, <2>6, TouchKeeps
  <1>6. QED
    BY <1>4, <1>5

(* A granted call holds what its charge will leave in the row.             *)
LEMMA GrantKeeps ==
    ASSUME PackageInv, NEW c \in Calls, ReservePackage(c),
           ~ Refused(counters[call[c].revision], call[c])
    PROVE  PackageInv'
  <1> PICK q : q = call[c]
    OBVIOUS
  <1> PICK r : r = q.revision
    OBVIOUS
  <1> PICK u : u = counters[r]
    OBVIOUS
  <1> DEFINE held == [phase |-> "holding", now |-> q.now, revision |-> r,
                      cost |-> q.cost, first |-> u = NoCounters,
                      row |-> IF u = NoCounters THEN FirstCharge(q) ELSE Charged(u, q)]
  <1>1. /\ q.phase = "asked" /\ RowFree(c) /\ call' = [call EXCEPT ![c] = held]
        /\ UNCHANGED <<clock, ready, spent, counters>>
    BY DEF ReservePackage
  <1>2. /\ q \in AskedCall /\ q.now \in Times /\ q.now \in Nat /\ q.cost \in Nat
        /\ q.cost \in 1..MaxCost /\ r \in PackageRevisions
    BY <1>1, Spending, FormOf
  <1>3. u # NoCounters =>
          u \in Counters /\ \A d \in Calls : Holds(d) => call[d].revision # r
    BY <1>1, <1>2, Spending DEF HasCounters, RowFree, Holds
  <1> PICK h : h = held
    OBVIOUS
  <1>4. /\ h.phase = "holding" /\ h.now = q.now /\ h.revision = r /\ h.cost = q.cost
        /\ h.first = (u = NoCounters) /\ h.first \in BOOLEAN
        /\ h.row = IF u = NoCounters THEN FirstCharge(q) ELSE Charged(u, q)
    OBVIOUS
  <1>5. h \in HoldingCall
    <2>1. CASE u = NoCounters
      <3>1. h.row \in Counters
        BY <1>2, <1>4, <2>1, PackageConstants DEF FirstCharge, Counters
      <3>2. QED
        BY <1>2, <1>4, <3>1 DEF HoldingCall
    <2>2. CASE u # NoCounters
      <3>1. h.row \in Counters
        BY <1>2, <1>3, <1>4, <2>2, ChargedRow
      <3>2. QED
        BY <1>2, <1>4, <3>1 DEF HoldingCall
    <2>3. QED
      BY <2>1, <2>2
  <1>6. call' = [call EXCEPT ![c] = h]
    BY <1>1
  <1> HIDE DEF held
  <1>7. /\ call' \in [Calls -> CallForms] /\ call'[c] = h
        /\ \A d \in Calls \ {c} : call'[d] = call[d]
    BY <1>5, <1>6 DEF PackageInv, SpendingTyped, CallForms
  <1>8. FirstCharge(h) = FirstCharge(q) /\ Charged(u, h) = Charged(u, q)
        /\ (Refused(u, h) <=> Refused(u, q))
    BY <1>4 DEF FirstCharge, Charged, Refused, OverLimit
  <1>9. SpendingTyped'
    <2>1. \A x \in spent : call'[x.call] = Over
      <3>1. \A x \in spent : x.call \in Calls /\ call[x.call] = Over
        BY DEF PackageInv, SpendingTyped, Change
      <3>2. q # Over
        BY <1>1 DEF Over
      <3>3. QED
        BY <1>7, <3>1, <3>2
    <2>2. QED
      BY <1>1, <1>7, <2>1 DEF PackageInv, SpendingTyped
  <1>10. RowsAccount'
    BY <1>1 DEF PackageInv, RowsAccount, HasCounters, Touches
  <1>11. HoldersCharge'
    <2>1. ASSUME NEW d \in Calls, Holds(d)'
          PROVE  \/ FirstHeld(call'[d])
                 \/ NextHeld(call'[d], counters[call'[d].revision]) /\ Alone(d)'
      <3>1. CASE d = c /\ u = NoCounters
        <4>1. q.cost <= DailyLimit
          BY <1>2, <3>1, PackageConstants DEF Refused
        <4>2. FirstHeld(h)
          BY <1>4, <1>8, <3>1, <4>1 DEF FirstHeld
        <4>3. QED
          BY <1>2, <1>4, <1>7, <3>1, <4>2
      <3>2. CASE d = c /\ u # NoCounters
        <4>1. Alone(c)'
          BY <1>3, <1>4, <1>7, <3>2 DEF Alone, Holds
        <4>2. NextHeld(h, u)
          BY <1>4, <1>8, <3>2 DEF NextHeld
        <4>3. QED
          BY <1>2, <1>4, <1>7, <3>2, <4>1, <4>2
      <3>3. CASE d # c
        <4>1. call'[d] = call[d] /\ Holds(d)
          BY <1>7, <2>1, <3>3 DEF Holds
        <4>2. ASSUME NextHeld(call[d], counters[call[d].revision]), Alone(d) PROVE Alone(d)'
          <5>1. call[d].revision # r
            BY <1>3, <4>1, <4>2 DEF NextHeld
          <5>2. QED
            BY <1>4, <1>7, <3>3, <4>2, <5>1 DEF Alone, Holds
        <4>3. QED
          BY <4>1, <4>2 DEF PackageInv, HoldersCharge
      <3>4. QED
        BY <3>1, <3>2, <3>3
    <2>2. QED
      BY <1>1, <2>1 DEF HoldersCharge
  <1>12. \A s \in PackageRevisions : LimitsKept(Touches(s))'
    BY <1>1 DEF PackageInv, Touches
  <1>13. QED
    BY <1>9, <1>10, <1>11, <1>12 DEF PackageInv

(* What is committed with an answer is what the row of its revision then   *)
(* accounts for.                                                           *)
LEMMA AnswerKeeps ==
    ASSUME PackageInv, NEW c \in Calls, Answer(c)
    PROVE  PackageInv'
  <1> PICK h : h = call[c]
    OBVIOUS
  <1> PICK r : r = h.revision
    OBVIOUS
  <1> PICK w : w = h.row
    OBVIOUS
  <1> PICK y : y = Touch(c, h, h.cost)
    OBVIOUS
  <1>1. /\ h.phase = "holding" /\ call' = [call EXCEPT ![c] = Over]
        /\ h.first => counters[r] = NoCounters
        /\ counters' = [counters EXCEPT ![r] = w] /\ spent' = spent \cup {y}
        /\ UNCHANGED <<clock, ready>>
    BY DEF Answer
  <1>2. /\ h.now \in Times /\ h.cost \in Nat /\ h.cost \in 1..MaxCost
        /\ r \in PackageRevisions /\ Holds(c) /\ w \in Counters /\ h # Over
    BY <1>1, Spending, FormOf DEF Holds, Over
  <1>3. /\ Follows(y, Touches(r)) /\ y.call = c /\ y.revision = r
        /\ y.now = h.now /\ y.cost = h.cost /\ y.cost > 0
    <2>1. h.cost \in 0..MaxCost /\ h.cost > 0
      BY <1>2, PackageConstants
    <2>2. QED
      BY <1>2, <2>1, TouchFollows
  <1>4. Changes(Touches(r))
    BY Spending
  <1>5. Account(Touches(r) \cup {y}, w) /\ w.start <= y.newest
    <2>1. CASE FirstHeld(h)
      <3>1. counters[r] = NoCounters /\ w = FirstCharge(h) /\ h.cost <= DailyLimit
        BY <1>1, <2>1 DEF FirstHeld
      <3>2. Touches(r) = {}
        BY <1>2, <3>1 DEF PackageInv, RowsAccount, HasCounters
      <3>3. y.newest = y.now /\ y \in Change
        BY <1>3, <1>4, <3>2, FollowsNewest DEF Follows
      <3>4. Account({y}, w) /\ w.start <= y.newest
        BY <1>2, <1>3, <3>1, <3>3, FirstAccount
      <3>5. QED
        BY <3>2, <3>4
    <2>2. CASE NextHeld(h, counters[r])
      <3> PICK u : u = counters[r]
        OBVIOUS
      <3>1. u # NoCounters /\ ~ OutOfTurns(u) /\ ~ OverLimit(u, h) /\ w = Charged(u, h)
        BY <2>2 DEF NextHeld, Refused
      <3>2. u \in Counters /\ Account(Touches(r), u)
        BY <1>2, <3>1, Spending DEF PackageInv, RowsAccount, HasCounters
      <3>3. QED
        BY <1>2, <1>3, <1>4, <3>1, <3>2, ChargedAccount
    <2>3. QED
      BY <1>2, <2>1, <2>2 DEF PackageInv, HoldersCharge
  <1>6. \A d \in Calls \ {c} : Holds(d) /\ call[d].revision = r => FirstHeld(call[d])
    <2>1. CASE FirstHeld(h)
      <3>1. counters[r] = NoCounters
        BY <1>1, <2>1 DEF FirstHeld
      <3>2. QED
        BY <3>1 DEF PackageInv, HoldersCharge, NextHeld
    <2>2. CASE ~ FirstHeld(h)
      <3>1. Alone(c)
        BY <1>2, <2>2 DEF PackageInv, HoldersCharge
      <3>2. QED
        BY <3>1 DEF Alone
    <2>3. QED
      BY <2>1, <2>2
  <1>7. QED
    BY <1>1, <1>2, <1>3, <1>5, <1>6, TouchKeeps

LEMMA PackageInitially == AllInit => PackageInv
  <1> SUFFICES ASSUME AllInit PROVE PackageInv
    OBVIOUS
  <1>1. /\ clock = 0 /\ call = [c \in Calls |-> New] /\ ready = {} /\ spent = {}
        /\ counters = [r \in PackageRevisions |-> NoCounters]
    BY DEF AllInit, BudgetInit
  <1>2. SpendingTyped
    <2>1. clock \in Times
      BY <1>1, MaxTimeAssumption DEF Times
    <2>2. IsFiniteSet(spent)
      BY <1>1, FS_EmptySet
    <2>3. QED
      BY <1>1, <2>1, <2>2 DEF SpendingTyped, CallForms
  <1>3. \A c \in Calls : ~ Holds(c)
    BY <1>1 DEF Holds, New
  <1>4. HoldersCharge
    BY <1>3 DEF HoldersCharge
  <1>5. \A r : Touches(r) = {}
    BY <1>1 DEF Touches
  <1>6. RowsAccount
    BY <1>1, <1>5 DEF RowsAccount, HasCounters
  <1>7. ASSUME NEW r \in PackageRevisions PROVE LimitsKept(Touches(r))
    <2> PICK e : e = {}
      OBVIOUS
    <2>1. IsFiniteSet(e) /\ Cardinality(e) = 0 /\ Paid(e) = e /\ \A x \in e : Dates(x)
      BY FS_EmptySet DEF Paid
    <2>2. DaysHold(e)
      <3>1. DaysCount(e, 0, 0) /\ 0 \in Nat /\ 0 <= DailyLimit
        BY DaysBegin, PackageConstants
      <3>2. QED
        BY <2>1, <3>1, DaysKept
    <2>3. \A t : {x \in e : x.newest \in t..(t + Window - 1)} = e
      OBVIOUS
    <2>4. 0 <= TurnLimit /\ 0 <= 2 * MaxRequests
      BY PackageConstants
    <2>5. LimitsKept(e)
      BY <2>1, <2>2, <2>3, <2>4 DEF LimitsKept
    <2>6. QED
      BY <1>5, <2>5
  <1>8. QED
    BY <1>2, <1>4, <1>6, <1>7 DEF PackageInv

LEMMA PackageKeeps ==
    ASSUME PackageInv, [AllNext]_allVars
    PROVE  PackageInv'
  <1>1. /\ clock \in Times /\ call \in [Calls -> CallForms]
        /\ ready \subseteq PackageRevisions
    BY Spending
  <1>2. ASSUME BudgetNext, UNCHANGED packageVars PROVE PackageInv'
    <2>1. UNCHANGED <<ready, counters, spent>>
      BY <1>2 DEF packageVars
    <2>2. CASE Tick
      <3>1. clock' = clock + 1 /\ clock' \in Times /\ call' = call
        BY <1>1, <2>2, MaxTimeAssumption DEF Tick, Times
      <3>2. QED
        BY <1>1, <2>1, <3>1, UnspentKeeps DEF Over
    <2>3. ASSUME NEW c \in Calls, Sample(c) PROVE PackageInv'
      <3>1. PICK v \in Conversations, n \in 1..MaxCost :
              call' = [call EXCEPT ![c] = [phase |-> "sampled", now |-> clock,
                                           conversation |-> v, cost |-> n]]
        BY <2>3 DEF Sample
      <3> DEFINE q == [phase |-> "sampled", now |-> clock, conversation |-> v, cost |-> n]
      <3>2. q \in CallForms /\ q.phase = "sampled"
        BY <1>1 DEF Waiting, CallForms
      <3>3. call[c] # Over /\ UNCHANGED clock
        BY <2>3 DEF Sample, New, Over
      <3>4. call' = [call EXCEPT ![c] = q]
        BY <3>1
      <3> HIDE DEF q
      <3>5. /\ call' \in [Calls -> CallForms]
            /\ \A d \in Calls : call'[d] = IF d = c THEN q ELSE call[d]
        BY <1>1, <3>2, <3>4
      <3>6. QED
        BY <1>1, <2>1, <3>2, <3>3, <3>5, UnspentKeeps DEF Over
    <2>4. ASSUME NEW c \in Calls, Reserve(c) \/ GiveUp(c) PROVE PackageInv'
      <3>1. call' = [call EXCEPT ![c] = Over] /\ UNCHANGED clock
        BY <2>4 DEF Reserve, GiveUp
      <3>2. call' \in [Calls -> CallForms] /\ \A d \in Calls : call'[d] = IF d = c THEN Over ELSE call[d]
        BY <1>1, <3>1 DEF CallForms
      <3>3. QED
        BY <1>1, <2>1, <3>1, <3>2, UnspentKeeps DEF Over
    <2>5. QED
      BY <1>2, <2>2, <2>3, <2>4 DEF BudgetNext
  <1>3. ASSUME NEW r \in PackageRevisions, ConfirmAndIndex(r) \/ RebuildIndex(r) PROVE PackageInv'
    <2>1. UNCHANGED <<clock, call, counters, spent>> /\ ready' \subseteq PackageRevisions
      BY <1>1, <1>3 DEF ConfirmAndIndex, RebuildIndex, budgetVars
    <2>2. QED
      BY <1>1, <2>1, UnspentKeeps DEF Over
  <1>4. ASSUME NEW c \in Calls, Ask(c) PROVE PackageInv'
    <2>1. PICK r \in ready, n \in 1..MaxCost :
            call' = [call EXCEPT ![c] = [phase |-> "asked", now |-> clock,
                                         revision |-> r, cost |-> n]]
      BY <1>4 DEF Ask
    <2> DEFINE q == [phase |-> "asked", now |-> clock, revision |-> r, cost |-> n]
    <2>2. q \in CallForms /\ q.phase = "asked" /\ q.now = clock
      BY <1>1 DEF AskedCall, CallForms
    <2>3. call[c] # Over /\ UNCHANGED <<clock, ready, counters, spent>>
      BY <1>4 DEF Ask, New, Over, packageVars
    <2>4. call' = [call EXCEPT ![c] = q]
      BY <2>1
    <2> HIDE DEF q
    <2>5. call' \in [Calls -> CallForms] /\ \A d \in Calls : call'[d] = IF d = c THEN q ELSE call[d]
      BY <1>1, <2>2, <2>4
    <2>6. QED
      BY <1>1, <2>2, <2>3, <2>5, UnspentKeeps DEF Over
  <1>5. ASSUME NEW c \in Calls, AskRefused(c) \/ AnswerFails(c) PROVE PackageInv'
    <2>1. call' = [call EXCEPT ![c] = Over] /\ UNCHANGED <<clock, ready, counters, spent>>
      BY <1>5 DEF AskRefused, AnswerFails, packageVars
    <2>2. call' \in [Calls -> CallForms] /\ \A d \in Calls : call'[d] = IF d = c THEN Over ELSE call[d]
      BY <1>1, <2>1 DEF CallForms
    <2>3. QED
      BY <1>1, <2>1, <2>2, UnspentKeeps DEF Over
  <1>6. ASSUME NEW c \in Calls, ReservePackage(c) PROVE PackageInv'
    BY <1>6, RefusalKeeps, GrantKeeps
  <1>7. ASSUME NEW c \in Calls, Answer(c) PROVE PackageInv'
    BY <1>7, AnswerKeeps
  <1>8. ASSUME UNCHANGED allVars PROVE PackageInv'
    <2>1. UNCHANGED <<clock, call, ready, counters, spent>>
      BY <1>8 DEF allVars, budgetVars, packageVars
    <2>2. QED
      BY <1>1, <2>1, UnspentKeeps DEF Over
  <1>9. QED
    BY <1>2, <1>3, <1>4, <1>5, <1>6, <1>7, <1>8 DEF AllNext, PackageStep

(* However calls race for the first row, overtake each other, fail or are  *)
(* refused: what an actor is charged on a revision stays within the turns, *)
(* within the requests that two windows hold while the newest time passes  *)
(* one, and on each day within the tokens of the limit and of one limit    *)
(* more for each call that was overtaken over a midnight around it         *)
(* (reserve_chat_usage).                                                   *)
THEOREM PackageAssistantBudgetHolds == AllSpec => []PackageBudgetHolds
  <1>1. AllInit => PackageInv
    BY PackageInitially
  <1>2. PackageInv /\ [AllNext]_allVars => PackageInv'
    BY PackageKeeps
  <1>3. PackageInv => PackageBudgetHolds
    BY DEF PackageInv, LimitsKept, Paid, DaysHold, OnDay, CostSum, PackageBudgetHolds
  <1>4. QED
    BY <1>1, <1>2, <1>3, PTL DEF AllSpec
=============================================================================
