---------------------------- MODULE SharedLemmas ----------------------------
(***************************************************************************)
(* Lemmas that the proofs of several components rest on: sums over finite  *)
(* sets, and the rows of the matrix.                                       *)
(***************************************************************************)
EXTENDS CColor, Functions, FiniteSetTheorems, WellFoundedInduction, TLAPS

(***************************************************************************)
(* SumFunctionOnSet of the community modules, for every finite set. The    *)
(* library's induction theorems take a predicate as a parameter; here a    *)
(* smallest set that breaks the claim is taken instead, which the          *)
(* well-foundedness of strict inclusion provides.                          *)
(***************************************************************************)

\* Of the finite sets that break a claim, one has no smaller one below it.
LEMMA SmallestBreaker ==
    ASSUME NEW S, IsFiniteSet(S), NEW F \in SUBSET SUBSET S, F # {}
    PROVE  \E U \in F : IsFiniteSet(U) /\ \A V \in F : V \subseteq U => V = U
  <1>1. FiniteSubsetsOf(S) = SUBSET S
    BY FS_FiniteSubsetsOfFinite
  <1>2. IsWellFoundedOn(StrictSubsetOrdering(S), SUBSET S)
    BY <1>1, FS_StrictSubsetOrderingWellFounded
  <1>3. PICK U \in F : \A V \in F : ~(<<V, U>> \in StrictSubsetOrdering(S))
    BY <1>2, WFMin
  <1>4. IsFiniteSet(U)
    BY FS_Subset
  <1>5. QED BY <1>3, <1>4 DEF StrictSubsetOrdering

\* Likewise, of the numbers that break a claim one is the smallest.
LEMMA SmallestNumber ==
    ASSUME NEW T \in SUBSET Nat, T # {}
    PROVE  \E n \in T : \A m \in T : n <= m
  <1>1. PICK n \in T : \A m \in T : ~(<<m, n>> \in OpToRel(<, Nat))
    BY NatLessThanWellFounded, WFMin
  <1>2. \A m \in T : ~(m < n)
    BY <1>1 DEF OpToRel
  <1>3. QED BY <1>2

Pick(T) == CHOOSE x \in T : TRUE

\* The function that the sum over a set is taken from.
SumsUp(f, w, S) ==
    f = [T \in SUBSET S |-> IF T = {} THEN 0
                            ELSE w[Pick(T)] + f[T \ {Pick(T)}]]

LEMMA SumIsChosen ==
    ASSUME NEW w, NEW S
    PROVE  SumFunctionOnSet(w, S) = (CHOOSE f : SumsUp(f, w, S))[S]
  BY DEF SumFunctionOnSet, FoldFunctionOnSet, MapThenFoldSet, SumsUp, Pick

LEMMA PickedBelow ==
    ASSUME NEW T, T # {}
    PROVE  /\ Pick(T) \in T
           /\ T \ {Pick(T)} \subseteq T
           /\ T \ {Pick(T)} # T
  BY DEF Pick

\* Two such functions agree wherever both are defined.
LEMMA SumsUpOnce ==
    ASSUME NEW w, NEW A, NEW B, IsFiniteSet(A), NEW f, NEW g,
           SumsUp(f, w, A), SumsUp(g, w, B), NEW T \in SUBSET (A \cap B)
    PROVE  f[T] = g[T]
  <1> DEFINE Bad == {U \in SUBSET A : U \subseteq B /\ f[U] # g[U]}
  <1> SUFFICES ASSUME Bad # {} PROVE FALSE
    OBVIOUS
  <1>1. PICK U \in Bad : \A V \in Bad : V \subseteq U => V = U
    <2> HIDE DEF Bad
    <2>1. Bad \in SUBSET SUBSET A
      BY DEF Bad
    <2>2. QED BY <2>1, SmallestBreaker
  <1>2. U # {}
    BY DEF SumsUp
  <1>3. f[U \ {Pick(U)}] = g[U \ {Pick(U)}]
    BY <1>1, <1>2, PickedBelow
  <1>4. f[U] = w[Pick(U)] + f[U \ {Pick(U)}]
    BY <1>2 DEF SumsUp
  <1>5. g[U] = w[Pick(U)] + g[U \ {Pick(U)}]
    BY <1>2 DEF SumsUp
  <1>6. QED BY <1>3, <1>4, <1>5

\* There is such a function on every finite set.
LEMMA SumsUpExists ==
    ASSUME NEW w, NEW S, IsFiniteSet(S)
    PROVE  \E f : SumsUp(f, w, S)
  <1> DEFINE Bad == {U \in SUBSET S : ~\E f : SumsUp(f, w, U)}
             On(U) == CHOOSE f : SumsUp(f, w, U)
  <1> SUFFICES ASSUME Bad # {} PROVE FALSE
    OBVIOUS
  <1>1. PICK U \in Bad : IsFiniteSet(U) /\ \A V \in Bad : V \subseteq U => V = U
    <2> HIDE DEF Bad
    <2>1. Bad \in SUBSET SUBSET S
      BY DEF Bad
    <2>2. QED BY <2>1, SmallestBreaker
  <1>2. ASSUME NEW V \in SUBSET U, V # U
        PROVE  SumsUp(On(V), w, V) /\ IsFiniteSet(V)
    BY <1>1, <1>2, FS_Subset
  <1> DEFINE Rest(T) == T \ {Pick(T)}
             h == [T \in SUBSET U |-> IF T = {} THEN 0
                                      ELSE w[Pick(T)] + On(Rest(T))[Rest(T)]]
  <1> HIDE DEF On
  <1>3. ASSUME NEW V \in SUBSET U, V # U
        PROVE  h[V] = On(V)[V]
    <2>1. On(V)[V] = IF V = {} THEN 0 ELSE w[Pick(V)] + On(V)[Rest(V)]
      BY <1>2, <1>3 DEF SumsUp
    <2>2. CASE V = {}
      BY <2>1, <2>2
    <2>3. CASE V # {}
      <3>1. Rest(V) \in SUBSET V /\ Rest(V) \in SUBSET U /\ Rest(V) # U
        BY <2>3, <1>3, PickedBelow
      <3>2. On(V)[Rest(V)] = On(Rest(V))[Rest(V)]
        BY <1>2, <1>3, <3>1, SumsUpOnce
      <3>3. QED BY <2>1, <2>3, <3>2
    <2>4. QED BY <2>2, <2>3
  <1>4. \A T \in SUBSET U : T # {} => h[Rest(T)] = On(Rest(T))[Rest(T)]
    BY <1>3, PickedBelow
  <1>5. h = [T \in SUBSET U |-> IF T = {} THEN 0
                                ELSE w[Pick(T)] + h[T \ {Pick(T)}]]
    BY <1>4
  <1>6. SumsUp(h, w, U)
    BY <1>5 DEF SumsUp
  <1>7. QED BY <1>1, <1>6

(***************************************************************************)
(* The sum over a finite set, one element at a time.                       *)
(***************************************************************************)
LEMMA SumUnfolds ==
    ASSUME NEW w, NEW S, IsFiniteSet(S)
    PROVE  SumFunctionOnSet(w, S) =
              IF S = {} THEN 0
              ELSE w[Pick(S)] + SumFunctionOnSet(w, S \ {Pick(S)})
  <1> DEFINE f == CHOOSE f : SumsUp(f, w, S)
             R == S \ {Pick(S)}
             g == CHOOSE g : SumsUp(g, w, R)
  <1>1. SumsUp(f, w, S)
    BY SumsUpExists
  <1>2. IsFiniteSet(R)
    BY FS_Subset
  <1>3. SumsUp(g, w, R)
    BY <1>2, SumsUpExists
  <1>4. f[R] = g[R]
    BY <1>1, <1>2, <1>3, SumsUpOnce
  <1>5. f[S] = IF S = {} THEN 0 ELSE w[Pick(S)] + f[R]
    BY <1>1 DEF SumsUp
  <1>6. f[S] = SumFunctionOnSet(w, S) /\ g[R] = SumFunctionOnSet(w, R)
    BY SumIsChosen
  <1> HIDE DEF f, g
  <1>7. QED BY <1>4, <1>5, <1>6

LEMMA SumEmpty == ASSUME NEW w PROVE SumFunctionOnSet(w, {}) = 0
  BY SumUnfolds, FS_EmptySet

LEMMA SumInt ==
    ASSUME NEW S, IsFiniteSet(S), NEW w, \A x \in S : w[x] \in Int
    PROVE  SumFunctionOnSet(w, S) \in Int
  <1> DEFINE Bad == {U \in SUBSET S : SumFunctionOnSet(w, U) \notin Int}
  <1> SUFFICES ASSUME Bad # {} PROVE FALSE
    OBVIOUS
  <1>1. PICK U \in Bad : IsFiniteSet(U) /\ \A V \in Bad : V \subseteq U => V = U
    <2> HIDE DEF Bad
    <2>1. Bad \in SUBSET SUBSET S
      BY DEF Bad
    <2>2. QED BY <2>1, SmallestBreaker
  <1>2. U # {}
    BY SumEmpty
  <1>3. SumFunctionOnSet(w, U \ {Pick(U)}) \in Int /\ w[Pick(U)] \in Int
    BY <1>1, <1>2, PickedBelow
  <1>4. QED BY <1>1, <1>2, <1>3, SumUnfolds

\* Only what is summed matters.
LEMMA SumSame ==
    ASSUME NEW S, IsFiniteSet(S), NEW v, NEW w, \A x \in S : v[x] = w[x]
    PROVE  SumFunctionOnSet(v, S) = SumFunctionOnSet(w, S)
  <1> DEFINE Bad == {U \in SUBSET S :
                       SumFunctionOnSet(v, U) # SumFunctionOnSet(w, U)}
  <1> SUFFICES ASSUME Bad # {} PROVE FALSE
    OBVIOUS
  <1>1. PICK U \in Bad : IsFiniteSet(U) /\ \A V \in Bad : V \subseteq U => V = U
    <2> HIDE DEF Bad
    <2>1. Bad \in SUBSET SUBSET S
      BY DEF Bad
    <2>2. QED BY <2>1, SmallestBreaker
  <1>2. U # {}
    BY SumEmpty
  <1>3. /\ SumFunctionOnSet(v, U \ {Pick(U)}) = SumFunctionOnSet(w, U \ {Pick(U)})
        /\ v[Pick(U)] = w[Pick(U)]
    BY <1>1, <1>2, PickedBelow
  <1>4. QED BY <1>1, <1>2, <1>3, SumUnfolds

\* Any element can be taken out, not only the one that is picked.
LEMMA SumRemove ==
    ASSUME NEW S, IsFiniteSet(S), NEW w, \A x \in S : w[x] \in Int, NEW e \in S
    PROVE  SumFunctionOnSet(w, S) = w[e] + SumFunctionOnSet(w, S \ {e})
  <1> DEFINE Holds(U, x) ==
               SumFunctionOnSet(w, U) = w[x] + SumFunctionOnSet(w, U \ {x})
             Bad == {U \in SUBSET S : \E x \in U : ~Holds(U, x)}
  <1> SUFFICES ASSUME Bad # {} PROVE FALSE
    OBVIOUS
  <1>1. PICK U \in Bad : IsFiniteSet(U) /\ \A V \in Bad : V \subseteq U => V = U
    <2> HIDE DEF Bad
    <2>1. Bad \in SUBSET SUBSET S
      BY DEF Bad
    <2>2. QED BY <2>1, SmallestBreaker
  <1>2. PICK x \in U : ~Holds(U, x)
    OBVIOUS
  <1> DEFINE y == Pick(U)
             V == U \ {x, y}
  <1>3. y \in U /\ Holds(U, y)
    BY <1>1, PickedBelow, SumUnfolds
  <1>4. x # y
    BY <1>2, <1>3
  <1>5. U \ {y} \notin Bad /\ U \ {x} \notin Bad
    BY <1>1, <1>3
  <1>6. Holds(U \ {y}, x) /\ Holds(U \ {x}, y)
    BY <1>3, <1>4, <1>5
  <1>7. V = (U \ {y}) \ {x} /\ V = (U \ {x}) \ {y}
    OBVIOUS
  <1>8. SumFunctionOnSet(w, V) \in Int /\ w[x] \in Int /\ w[y] \in Int
    BY <1>1, <1>3, FS_Subset, SumInt
  <1> HIDE DEF y, V, Bad
  <1>9. /\ SumFunctionOnSet(w, U) = w[y] + (w[x] + SumFunctionOnSet(w, V))
        /\ SumFunctionOnSet(w, U \ {x}) = w[y] + SumFunctionOnSet(w, V)
    BY <1>3, <1>6, <1>7
  <1>10. QED BY <1>2, <1>8, <1>9

LEMMA SumOfOne ==
    ASSUME NEW w, NEW x, w[x] \in Int
    PROVE  SumFunctionOnSet(w, {x}) = w[x]
  <1>1. IsFiniteSet({x}) /\ Pick({x}) = x /\ {x} \ {x} = {}
    BY FS_Singleton DEF Pick
  <1>2. QED BY <1>1, SumUnfolds, SumEmpty

\* Sums can be taken term by term.
LEMMA SumOfSums ==
    ASSUME NEW S, IsFiniteSet(S), NEW u, NEW v, NEW w,
           \A x \in S : v[x] \in Int /\ w[x] \in Int /\ u[x] = v[x] + w[x]
    PROVE  SumFunctionOnSet(u, S) = SumFunctionOnSet(v, S) + SumFunctionOnSet(w, S)
  <1> DEFINE Bad == {U \in SUBSET S : SumFunctionOnSet(u, U) #
                       SumFunctionOnSet(v, U) + SumFunctionOnSet(w, U)}
  <1> SUFFICES ASSUME Bad # {} PROVE FALSE
    OBVIOUS
  <1>1. PICK U \in Bad : IsFiniteSet(U) /\ \A V \in Bad : V \subseteq U => V = U
    <2> HIDE DEF Bad
    <2>1. Bad \in SUBSET SUBSET S
      BY DEF Bad
    <2>2. QED BY <2>1, SmallestBreaker
  <1>2. U # {}
    BY SumEmpty
  <1> DEFINE x == Pick(U)
             V == U \ {x}
  <1>3. x \in U /\ V \notin Bad /\ V \in SUBSET S /\ IsFiniteSet(V)
    BY <1>1, <1>2, PickedBelow, FS_Subset
  <1>4. SumFunctionOnSet(u, V) = SumFunctionOnSet(v, V) + SumFunctionOnSet(w, V)
    BY <1>3
  <1>5. SumFunctionOnSet(v, V) \in Int /\ SumFunctionOnSet(w, V) \in Int
    BY <1>3, SumInt
  <1>6. /\ SumFunctionOnSet(u, U) = u[x] + SumFunctionOnSet(u, V)
        /\ SumFunctionOnSet(v, U) = v[x] + SumFunctionOnSet(v, V)
        /\ SumFunctionOnSet(w, U) = w[x] + SumFunctionOnSet(w, V)
    BY <1>1, <1>2, SumUnfolds
  <1>7. v[x] \in Int /\ w[x] \in Int /\ u[x] = v[x] + w[x]
    BY <1>3
  <1> HIDE DEF x, V
  <1>8. QED BY <1>1, <1>4, <1>5, <1>6, <1>7

LEMMA SumNotNegative ==
    ASSUME NEW S, IsFiniteSet(S), NEW w, \A x \in S : w[x] \in Nat
    PROVE  SumFunctionOnSet(w, S) \in Nat
  <1> DEFINE Bad == {U \in SUBSET S : SumFunctionOnSet(w, U) \notin Nat}
  <1> SUFFICES ASSUME Bad # {} PROVE FALSE
    OBVIOUS
  <1>1. PICK U \in Bad : IsFiniteSet(U) /\ \A V \in Bad : V \subseteq U => V = U
    <2> HIDE DEF Bad
    <2>1. Bad \in SUBSET SUBSET S
      BY DEF Bad
    <2>2. QED BY <2>1, SmallestBreaker
  <1>2. U # {}
    BY SumEmpty
  <1>3. SumFunctionOnSet(w, U \ {Pick(U)}) \in Nat /\ w[Pick(U)] \in Nat
    BY <1>1, <1>2, PickedBelow
  <1>4. QED BY <1>1, <1>2, <1>3, SumUnfolds

\* A sum is no larger than another one when no term is.
LEMMA SumMonotone ==
    ASSUME NEW S, IsFiniteSet(S), NEW v, NEW w,
           \A x \in S : v[x] \in Int /\ w[x] \in Int /\ v[x] <= w[x]
    PROVE  SumFunctionOnSet(v, S) <= SumFunctionOnSet(w, S)
  <1> DEFINE g == [x \in S |-> w[x] - v[x]]
  <1>1. \A x \in S : g[x] \in Nat /\ w[x] = v[x] + g[x]
    OBVIOUS
  <1> HIDE DEF g
  <1>2. SumFunctionOnSet(g, S) \in Nat
    BY <1>1, SumNotNegative
  <1>3. SumFunctionOnSet(w, S) = SumFunctionOnSet(v, S) + SumFunctionOnSet(g, S)
    <2>1. \A x \in S : g[x] \in Int
      BY <1>1
    <2>2. QED BY <1>1, <2>1, SumOfSums
  <1>4. SumFunctionOnSet(v, S) \in Int
    BY SumInt
  <1>5. QED BY <1>2, <1>3, <1>4

\* Terms that are zero do not count.
LEMMA SumOfSupport ==
    ASSUME NEW S, IsFiniteSet(S), NEW T \in SUBSET S, NEW w,
           \A x \in S : w[x] \in Int, \A x \in S \ T : w[x] = 0
    PROVE  SumFunctionOnSet(w, S) = SumFunctionOnSet(w, T)
  <1> DEFINE Bad == {U \in SUBSET S :
                       SumFunctionOnSet(w, U) # SumFunctionOnSet(w, U \cap T)}
  <1> SUFFICES ASSUME Bad # {} PROVE FALSE
    <2>1. S \in SUBSET S /\ S \cap T = T
      OBVIOUS
    <2>2. QED BY <2>1
  <1>1. PICK U \in Bad : IsFiniteSet(U) /\ \A V \in Bad : V \subseteq U => V = U
    <2> HIDE DEF Bad
    <2>1. Bad \in SUBSET SUBSET S
      BY DEF Bad
    <2>2. QED BY <2>1, SmallestBreaker
  <1>2. PICK x \in U : x \notin T
    <2>1. U \cap T # U
      OBVIOUS
    <2>2. QED BY <2>1
  <1>3. SumFunctionOnSet(w, U) = w[x] + SumFunctionOnSet(w, U \ {x})
    BY <1>1, SumRemove
  <1>4. U \ {x} \notin Bad /\ (U \ {x}) \cap T = U \cap T
    BY <1>1, <1>2
  <1>5. SumFunctionOnSet(w, U \ {x}) = SumFunctionOnSet(w, U \cap T)
    BY <1>4
  <1>6. IsFiniteSet(U \cap T)
    BY <1>1, FS_Subset
  <1>7. SumFunctionOnSet(w, U \cap T) \in Int
    BY <1>6, SumInt
  <1>8. w[x] = 0
    BY <1>2
  <1>9. QED BY <1>1, <1>3, <1>5, <1>7, <1>8

\* A term changes, and the sum by as much.
LEMMA SumOfChanged ==
    ASSUME NEW S, IsFiniteSet(S), NEW v, NEW w, NEW x \in S,
           \A y \in S : /\ v[y] \in Int /\ w[y] \in Int
                        /\ y # x => v[y] = w[y]
    PROVE  SumFunctionOnSet(w, S) = SumFunctionOnSet(v, S) + (w[x] - v[x])
  <1>1. IsFiniteSet(S \ {x})
    BY FS_Subset
  <1>2. SumFunctionOnSet(v, S \ {x}) = SumFunctionOnSet(w, S \ {x})
    BY <1>1, SumSame
  <1>3. SumFunctionOnSet(v, S \ {x}) \in Int
    BY <1>1, SumInt
  <1>4. /\ SumFunctionOnSet(v, S) = v[x] + SumFunctionOnSet(v, S \ {x})
        /\ SumFunctionOnSet(w, S) = w[x] + SumFunctionOnSet(w, S \ {x})
    BY SumRemove
  <1>5. QED BY <1>2, <1>3, <1>4

\* The elements can be summed group by group.
LEMMA SumByGroup ==
    ASSUME NEW S, IsFiniteSet(S), NEW G, IsFiniteSet(G), NEW k, NEW w,
           \A x \in S : w[x] \in Int /\ k[x] \in G
    PROVE  SumFunctionOnSet(
              [g \in G |-> SumFunctionOnSet(w, {x \in S : k[x] = g})], G)
           = SumFunctionOnSet(w, S)
  <1> DEFINE of(U) == [g \in G |-> SumFunctionOnSet(w, {x \in U : k[x] = g})]
             Bad == {U \in SUBSET S :
                       SumFunctionOnSet(of(U), G) # SumFunctionOnSet(w, U)}
  <1> SUFFICES ASSUME Bad # {} PROVE FALSE
    OBVIOUS
  <1>1. PICK U \in Bad : IsFiniteSet(U) /\ \A V \in Bad : V \subseteq U => V = U
    <2> HIDE DEF Bad
    <2>1. Bad \in SUBSET SUBSET S
      BY DEF Bad
    <2>2. QED BY <2>1, SmallestBreaker
  <1>2. ASSUME NEW V \in SUBSET U, NEW g \in G
        PROVE  of(V)[g] \in Int
    <2>1. IsFiniteSet({x \in V : k[x] = g})
      BY <1>1, FS_Subset
    <2>2. \A x \in {z \in V : k[z] = g} : w[x] \in Int
      OBVIOUS
    <2>3. QED BY <2>1, <2>2, SumInt
  <1>3. U # {}
    <2>1. ASSUME U = {} PROVE FALSE
      <3>1. \A g \in G : {x \in U : k[x] = g} = {}
        BY <2>1
      <3>2. \A g \in G : of(U)[g] = 0
        BY <3>1, SumEmpty
      <3>3. SumFunctionOnSet(of(U), G) = SumFunctionOnSet(of(U), {})
        <4> HIDE DEF of, Bad
        <4>1. \A g \in G : of(U)[g] \in Int
          BY <3>2
        <4>2. {} \in SUBSET G
          OBVIOUS
        <4>3. QED BY <3>2, <4>1, <4>2, SumOfSupport
      <3>4. SumFunctionOnSet(of(U), G) # SumFunctionOnSet(w, U)
        BY <1>1
      <3> HIDE DEF of
      <3>5. QED BY <2>1, <3>3, <3>4, SumEmpty
    <2>2. QED BY <2>1
  <1>4. PICK x \in U : TRUE
    BY <1>3
  <1> DEFINE V == U \ {x}
             d == [g \in G |-> IF g = k[x] THEN w[x] ELSE 0]
  <1>5. V \notin Bad /\ V \in SUBSET U /\ V \in SUBSET S
    BY <1>1
  <1>6. SumFunctionOnSet(of(V), G) = SumFunctionOnSet(w, V)
    BY <1>5
  <1>7. SumFunctionOnSet(w, U) = w[x] + SumFunctionOnSet(w, V)
    BY <1>1, SumRemove
  <1>8. ASSUME NEW g \in G PROVE of(U)[g] = of(V)[g] + d[g]
    <2>1. CASE g = k[x]
      <3>1. {y \in V : k[y] = g} = {y \in U : k[y] = g} \ {x}
        OBVIOUS
      <3>2. IsFiniteSet({y \in U : k[y] = g}) /\ x \in {y \in U : k[y] = g}
        BY <1>1, <2>1, FS_Subset
      <3>3. \A y \in {z \in U : k[z] = g} : w[y] \in Int
        OBVIOUS
      <3>4. of(U)[g] = w[x] + of(V)[g]
        BY <3>1, <3>2, <3>3, SumRemove
      <3>5. of(V)[g] \in Int /\ w[x] \in Int /\ d[g] = w[x]
        BY <1>2, <1>5, <2>1
      <3> HIDE DEF of
      <3>6. QED BY <3>4, <3>5
    <2>2. CASE g # k[x]
      <3>1. {y \in V : k[y] = g} = {y \in U : k[y] = g}
        BY <2>2
      <3>2. of(U)[g] = of(V)[g]
        BY <3>1
      <3>3. of(V)[g] \in Int /\ d[g] = 0
        BY <1>2, <1>5, <2>2
      <3> HIDE DEF of
      <3>4. QED BY <3>2, <3>3
    <2>3. QED BY <2>1, <2>2
  <1>9. SumFunctionOnSet(d, G) = w[x]
    <2>1. k[x] \in G /\ w[x] \in Int /\ d[k[x]] = w[x]
      OBVIOUS
    <2>2. \A g \in G : d[g] \in Int
      OBVIOUS
    <2>3. \A g \in G \ {k[x]} : d[g] = 0
      OBVIOUS
    <2> HIDE DEF d
    <2>4. SumFunctionOnSet(d, G) = SumFunctionOnSet(d, {k[x]})
      BY <2>1, <2>2, <2>3, SumOfSupport
    <2>5. QED BY <2>1, <2>4, SumOfOne
  <1>10. \A g \in G : d[g] \in Int /\ of(V)[g] \in Int
    BY <1>2, <1>5
  <1>11. SumFunctionOnSet(of(U), G)
           = SumFunctionOnSet(of(V), G) + SumFunctionOnSet(d, G)
    <2> DEFINE u == of(U)
               v == of(V)
    <2>1. \A g \in G : v[g] \in Int /\ d[g] \in Int /\ u[g] = v[g] + d[g]
      BY <1>8, <1>10
    <2> HIDE DEF u, v, d
    <2>2. SumFunctionOnSet(u, G) = SumFunctionOnSet(v, G) + SumFunctionOnSet(d, G)
      BY <2>1, SumOfSums
    <2>3. QED BY <2>2 DEF u, v
  <1>12. SumFunctionOnSet(w, V) \in Int /\ w[x] \in Int
    BY <1>1, FS_Subset, SumInt
  <1>13. SumFunctionOnSet(of(U), G) # SumFunctionOnSet(w, U)
    BY <1>1
  <1> HIDE DEF of, d, V
  <1>14. QED BY <1>6, <1>7, <1>9, <1>11, <1>12, <1>13

(***************************************************************************)
(* The row that getLEDBar makes of a ratio, for every ratio: when a row is *)
(* made at all, what its LEDs show, and that a larger ratio shows no less. *)
(***************************************************************************)

\* A quotient reaches k when k times the divisor is reached.
LEMMA QuotientAtLeast ==
    ASSUME NEW n \in Int, NEW d \in Nat \ {0}, NEW k \in Int
    PROVE  n \div d >= k <=> n >= k * d
  <1>1. PICK q \in Int : q = n \div d
    OBVIOUS
  <1>2. d * q <= n /\ n < d * q + d
    BY <1>1
  <1>3. ASSUME q >= k PROVE n >= k * d
    <2>1. d * q >= d * k
      BY <1>3
    <2>2. d * k = k * d
      OBVIOUS
    <2>3. QED BY <1>2, <2>1, <2>2
  <1>4. ASSUME n >= k * d PROVE q >= k
    <2>1. SUFFICES ASSUME q <= k - 1 PROVE FALSE
      BY <1>1
    <2>2. d * q <= d * (k - 1)
      BY <2>1
    <2>3. d * (k - 1) = k * d - d
      OBVIOUS
    <2>4. QED BY <1>2, <1>4, <2>2, <2>3
  <1>5. QED BY <1>1, <1>3, <1>4

\* The exact percentage of a ratio, above zero and below.
LEMMA PercentReaches ==
    ASSUME NEW n \in Int, NEW d \in Nat \ {0}
    PROVE  /\ Percent(n, d) \in Int
           /\ n >= 0 => Percent(n, d) >= 0
           /\ n < 0 => Percent(n, d) <= 0
           /\ \A s \in Nat \ {0} : /\ Percent(n, d) >= s <=> 100 * n >= s * d
                                   /\ Percent(n, d) <= -s <=> 100 * (-n) >= s * d
  <1>1. PICK a \in Int : a = 100 * n /\ -a = 100 * (-n)
    OBVIOUS
  <1>2. ASSUME NEW s \in Nat \ {0} PROVE s * d > 0
    OBVIOUS
  <1>3. CASE n >= 0
    <2>1. a >= 0 /\ Percent(n, d) = a \div d
      BY <1>1, <1>3 DEF Percent, Truncated
    <2>2. a \div d >= 0
      <3>1. 0 * d = 0
        OBVIOUS
      <3>2. QED BY <1>1, <2>1, <3>1, QuotientAtLeast
    <2>3. ASSUME NEW s \in Nat \ {0}
          PROVE  /\ a \div d >= s <=> a >= s * d
                 /\ ~(a \div d <= -s) /\ ~(-a >= s * d)
      <3>1. a \div d >= s <=> a >= s * d
        BY <1>1, QuotientAtLeast
      <3>2. s * d > 0 /\ s * d \in Int
        BY <1>2
      <3>3. QED BY <1>1, <2>1, <2>2, <3>1, <3>2
    <2>4. QED BY <1>1, <2>1, <2>2, <2>3
  <1>4. CASE n < 0
    <2>1. -a > 0 /\ Percent(n, d) = -((-a) \div d)
      BY <1>1, <1>4 DEF Percent, Truncated
    <2>2. PICK q \in Int : q = (-a) \div d
      OBVIOUS
    <2>3. q >= 0
      <3>1. 0 * d = 0
        OBVIOUS
      <3>2. QED BY <1>1, <2>1, <2>2, <3>1, QuotientAtLeast
    <2>4. ASSUME NEW s \in Nat \ {0}
          PROVE  /\ q >= s <=> -a >= s * d
                 /\ ~(-q >= s) /\ ~(a >= s * d)
      <3>1. q >= s <=> -a >= s * d
        BY <1>1, <2>2, QuotientAtLeast
      <3>2. s * d > 0 /\ s * d \in Int
        BY <1>2
      <3>3. QED BY <1>1, <2>1, <2>3, <3>1, <3>2
    <2>5. QED BY <1>1, <1>4, <2>1, <2>2, <2>4
  <1>5. QED BY <1>3, <1>4

\* A ratio has reached s percent, as far as the doubles tell.
AtStep(x, s, d) == IF s \in Short THEN x > s * d ELSE x >= s * d
Reaches(n, s, d) == AtStep(100 * n, s, d)

Shortened(p, x, d) == IF p * d = x /\ p \in Short THEN p - 1 ELSE p

\* A percentage p of x per d, less one where it falls short.
LEMMA ShortReaches ==
    ASSUME NEW x \in Int, NEW d \in Nat \ {0}, NEW p \in Nat, NEW u,
           \A s \in Nat \ {0} : p >= s <=> x >= s * d,
           u = Shortened(p, x, d)
    PROVE  /\ u \in Nat
           /\ \A s \in Nat \ {0} : u >= s <=> AtStep(x, s, d)
  <1>1. /\ u \in Nat /\ (u = p \/ (u = p - 1 /\ p * d = x /\ p \in Short))
        /\ (p * d = x /\ p \in Short => u = p - 1)
    BY DEF Short, Shortened
  <1>2. ASSUME NEW s \in Nat \ {0}
        PROVE  u >= s <=> AtStep(x, s, d)
    <2>1. PICK y \in Int : y = s * d
      OBVIOUS
    <2>2. p >= s <=> x >= y
      BY <2>1
    <2>3. p >= s + 1 <=> x >= y + d
      <3>1. s + 1 \in Nat \ {0} /\ (s + 1) * d = s * d + d
        OBVIOUS
      <3>2. p >= s + 1 <=> x >= (s + 1) * d
        BY <3>1
      <3>3. QED BY <2>1, <3>1, <3>2
    <2>4. p = s => (p * d = x <=> y = x)
      BY <2>1
    <2>5. CASE s \in Short
      <3>1. ASSUME u >= s PROVE x > y
        BY <1>1, <2>2, <2>3, <2>4, <2>5, <3>1
      <3>2. ASSUME x > y PROVE u >= s
        BY <1>1, <2>2, <2>4, <3>2
      <3>3. QED BY <2>1, <2>5, <3>1, <3>2 DEF AtStep
    <2>6. CASE s \notin Short
      <3>1. u >= s <=> p >= s
        BY <1>1, <2>6
      <3>2. QED BY <2>1, <2>2, <2>6, <3>1 DEF AtStep
    <2>7. QED BY <2>5, <2>6
  <1>3. QED BY <1>1, <1>2

\* The percentage that the doubles yield.
LEMMA UtilizationReaches ==
    ASSUME NEW n \in Int, NEW d \in Nat \ {0}
    PROVE  /\ Utilization(n, d) \in Int
           /\ n >= 0 => Utilization(n, d) >= 0
           /\ \A s \in Nat \ {0} : /\ Utilization(n, d) >= s <=> Reaches(n, s, d)
                                   /\ Utilization(n, d) <= -s <=> Reaches(-n, s, d)
  <1>1. PICK p \in Int : p = Percent(n, d)
    BY PercentReaches
  <1>2. /\ n >= 0 => p >= 0
        /\ n < 0 => p <= 0
        /\ \A s \in Nat \ {0} : /\ p >= s <=> 100 * n >= s * d
                                /\ p <= -s <=> 100 * (-n) >= s * d
    BY <1>1, PercentReaches
  <1>3. PICK u : u = Utilization(n, d)
    OBVIOUS
  <1>4. u = IF p * d = 100 * n /\ p \in Short THEN p - 1
            ELSE IF p * d = 100 * n /\ -p \in Short THEN p + 1
            ELSE p
    BY <1>1, <1>3 DEF Utilization
  <1>5. Short \subseteq Nat \ {0}
    BY DEF Short
  <1>6. ASSUME NEW s \in Nat \ {0} PROVE s * d > 0
    OBVIOUS
  <1>7. PICK a \in Int : a = 100 * n /\ -a = 100 * (-n)
    OBVIOUS
  <1>8. CASE n >= 0
    <2>1. p \in Nat /\ a >= 0
      BY <1>2, <1>7, <1>8
    <2>2. -p \notin Short
      BY <1>5, <2>1
    <2>3. u = Shortened(p, a, d)
      BY <1>4, <1>7, <2>2 DEF Shortened
    <2>4. \A s \in Nat \ {0} : p >= s <=> a >= s * d
      BY <1>2, <1>7
    <2>5. /\ u \in Nat
          /\ \A s \in Nat \ {0} : u >= s <=> AtStep(a, s, d)
      BY <1>7, <2>1, <2>3, <2>4, ShortReaches
    <2>6. ASSUME NEW s \in Nat \ {0}
          PROVE  /\ u >= s <=> Reaches(n, s, d)
                 /\ u <= -s <=> Reaches(-n, s, d)
      <3>1. u >= s <=> Reaches(n, s, d)
        BY <1>7, <2>5 DEF Reaches
      <3>2. ~(u <= -s) /\ ~(-a > s * d) /\ ~(-a >= s * d)
        BY <1>6, <2>1, <2>5
      <3>3. QED BY <1>7, <3>1, <3>2 DEF Reaches, AtStep
    <2>7. QED BY <1>3, <2>5, <2>6
  <1>9. CASE n < 0
    <2> DEFINE q == -p
               v == -u
    <2>1. q \in Nat /\ -a > 0 /\ p \notin Short
      BY <1>2, <1>5, <1>7, <1>9
    <2>2. p * d = a <=> q * d = -a
      <3>1. q * d = -(p * d)
        OBVIOUS
      <3>2. p * d \in Int
        OBVIOUS
      <3>3. QED BY <1>7, <3>1, <3>2
    <2>3. u \in Int /\ v = Shortened(q, -a, d)
      BY <1>4, <1>7, <2>1, <2>2 DEF Shortened
    <2>4. \A s \in Nat \ {0} : q >= s <=> -a >= s * d
      BY <1>2, <1>7
    <2>5. /\ v \in Nat
          /\ \A s \in Nat \ {0} : v >= s <=> AtStep(-a, s, d)
      <3> HIDE DEF q, v
      <3>1. -a \in Int
        BY <1>7
      <3>2. QED BY <2>1, <2>3, <2>4, <3>1, ShortReaches
    <2>6. ASSUME NEW s \in Nat \ {0}
          PROVE  /\ u >= s <=> Reaches(n, s, d)
                 /\ u <= -s <=> Reaches(-n, s, d)
      <3>1. v >= s <=> Reaches(-n, s, d)
        BY <1>7, <2>5 DEF Reaches
      <3>2. u <= -s <=> v >= s
        BY <2>3
      <3>3. ~(u >= s) /\ ~(a > s * d) /\ ~(a >= s * d)
        BY <1>6, <1>7, <2>1, <2>3, <2>5
      <3>4. QED BY <1>7, <3>1, <3>2, <3>3 DEF Reaches, AtStep
    <2>7. QED BY <1>3, <1>9, <2>3, <2>6
  <1>10. QED BY <1>8, <1>9

\* The percentage at which the k-th LED lights.
StepOf(k) == (25 * k + 1) \div 2

LEMMA BarsReach ==
    ASSUME NEW n \in Int, NEW d \in Nat \ {0}
    PROVE  /\ Bars(n, d) \in Int
           /\ \A k \in Nat \ {0} : Bars(n, d) >= k <=> Reaches(n, StepOf(k), d)
           /\ Bars(n, d) <= -1 <=> Reaches(-n, 13, d)
  <1>1. PICK u \in Int : u = Utilization(n, d)
    BY UtilizationReaches
  <1>2. Bars(n, d) = IF u >= 0 THEN (2 * u) \div 25 ELSE -((-(2 * u)) \div 25)
    BY <1>1 DEF Bars, Truncated
  <1>3. Bars(n, d) \in Int /\ (Bars(n, d) <= -1 <=> u <= -13)
    BY <1>2
  <1>4. ASSUME NEW k \in Nat \ {0}
        PROVE  StepOf(k) \in Nat \ {0} /\ (Bars(n, d) >= k <=> u >= StepOf(k))
    BY <1>2 DEF StepOf
  <1>5. ASSUME NEW k \in Nat \ {0}
        PROVE  Bars(n, d) >= k <=> Reaches(n, StepOf(k), d)
    BY <1>1, <1>4, UtilizationReaches
  <1>6. u <= -13 <=> Reaches(-n, 13, d)
    <2>1. PICK s \in Nat \ {0} : s = 13
      OBVIOUS
    <2>2. u <= -s <=> Reaches(-n, s, d)
      BY <1>1, UtilizationReaches
    <2>3. QED BY <2>1, <2>2
  <1>7. QED BY <1>3, <1>5, <1>6

\* 0 / 0 yields no bar.
LEMMA NoBars == Bars(0, 0) = 0
  BY DEF Bars, Utilization, Truncated

\* A ratio in [0, 1] yields 0 to 8 bars.  So does 0 / 0.
LEMMA BarsInRow ==
    ASSUME NEW n \in Nat, NEW d \in Nat, n <= d
    PROVE  Bars(n, d) \in 0..8
  <1>1. CASE d = 0
    BY <1>1, NoBars
  <1>2. CASE d # 0
    <2>1. Bars(n, d) \in Int
      BY <1>2, BarsReach
    <2>2. ~Reaches(-n, 13, d)
      BY <1>2 DEF Reaches, AtStep, Short
    <2>3. StepOf(9) = 113
      BY DEF StepOf
    <2>4. ~Reaches(n, StepOf(9), d)
      BY <1>2, <2>3 DEF Reaches, AtStep, Short
    <2>5. ~(Bars(n, d) >= 9) /\ ~(Bars(n, d) <= -1)
      BY <1>2, <2>2, <2>4, BarsReach
    <2>6. QED BY <2>1, <2>5
  <1>3. QED BY <1>1, <1>2

\* A reading of zero lights nothing, one that is the whole lights the row.
LEMMA NoneLit == ASSUME NEW d \in Nat \ {0} PROVE Bars(0, d) = 0
  <1>1. StepOf(1) = 13
    BY DEF StepOf
  <1>2. ~Reaches(0, StepOf(1), d)
    BY <1>1 DEF Reaches, AtStep, Short
  <1>3. ~(Bars(0, d) >= 1)
    BY <1>2, BarsReach
  <1>4. QED BY <1>3, BarsInRow

LEMMA AllLit == ASSUME NEW d \in Nat \ {0} PROVE Bars(d, d) = 8
  <1>1. StepOf(8) = 100
    BY DEF StepOf
  <1>2. Reaches(d, StepOf(8), d)
    BY <1>1 DEF Reaches, AtStep, Short
  <1>3. Bars(d, d) >= 8
    BY <1>2, BarsReach
  <1>4. QED BY <1>3, BarsInRow

\* A larger part of a smaller whole yields at least as many bars.
LEMMA BarsInOrder ==
    ASSUME NEW n \in Nat, NEW d \in Nat, NEW m \in Nat, NEW e \in Nat \ {0},
           n <= m, e <= d
    PROVE  Bars(n, d) <= Bars(m, e)
  <1>1. PICK u \in Int, v \in Int : u = Utilization(n, d) /\ v = Utilization(m, e)
    <2>1. d \in Nat \ {0}
      OBVIOUS
    <2>2. Utilization(n, d) \in Int
      BY <2>1, UtilizationReaches
    <2>3. Utilization(m, e) \in Int
      BY UtilizationReaches
    <2>4. QED BY <2>2, <2>3
  <1>2. u >= 0 /\ v >= 0
    BY <1>1, UtilizationReaches
  <1>3. u <= v
    <2>1. CASE u = 0
      BY <1>2, <2>1
    <2>2. CASE u # 0
      <3>1. u \in Nat \ {0}
        BY <1>2, <2>2
      <3>2. Reaches(n, u, d)
        <4>1. Utilization(n, d) >= u /\ d \in Nat \ {0}
          BY <1>1
        <4>2. QED BY <3>1, <4>1, UtilizationReaches
      <3>3. u * d >= u * e
        BY <3>1
      <3>4. PICK x \in Nat, y \in Nat : x = u * d /\ y = u * e
        BY <3>1
      <3>5. Reaches(m, u, e)
        BY <3>2, <3>3, <3>4 DEF Reaches, AtStep
      <3>6. QED BY <1>1, <3>1, <3>5, UtilizationReaches
    <2>3. QED BY <2>1, <2>2
  <1>4. Bars(n, d) = (2 * u) \div 25 /\ Bars(m, e) = (2 * v) \div 25
    BY <1>1, <1>2 DEF Bars, Truncated
  <1>5. QED BY <1>2, <1>3, <1>4

\* getLEDBar throws when the bars do not fit a row, and only then.
LEMMA RowReturnedIff ==
    ASSUME NEW n, NEW d, Bars(n, d) \in Int, NEW first, NEW second
    PROVE  GetLEDBar(n, d, first, second) = Throws <=> Bars(n, d) \notin 0..8
  <1>1. PICK b \in Int : b = Bars(n, d)
    OBVIOUS
  <1>2. InBounds(0, b) /\ InBounds(b, 8) <=> b \in 0..8
    BY DEF InBounds
  <1>3. ASSUME NEW data PROVE CompressData(data) # Throws
    <2>1. DOMAIN CompressData(data) = 1..4
      BY DEF CompressData
    <2>2. DOMAIN Throws = {}
      BY DEF Throws
    <2>3. 1 \in 1..4
      OBVIOUS
    <2>4. QED BY <2>1, <2>2, <2>3
  <1>4. QED BY <1>1, <1>2, <1>3 DEF GetLEDBar

\* getLEDBar returns a row for every ratio in [0, 1].
LEMMA RowReturned ==
    ASSUME NEW n \in Nat, NEW d \in Nat, n <= d,
           NEW first, NEW second
    PROVE  GetLEDBar(n, d, first, second) # Throws
  BY BarsInRow, RowReturnedIff

\* Two colours share a byte and come apart again.
LEMMA Nibbles ==
    ASSUME NEW a \in Colors, NEW b \in Colors
    PROVE  (16 * a + b) \div 16 = a /\ (16 * a + b) % 16 = b
  BY DEF Colors

\* The first bars of the LEDs show the first colour, the others the second.
LEMMA RowShows ==
    ASSUME NEW n, NEW d, Bars(n, d) \in 0..8,
           NEW first \in Colors, NEW second \in Colors, NEW i \in 1..8
    PROVE  Led(GetLEDBar(n, d, first, second), i)
           = IF i <= Bars(n, d) THEN first ELSE second
  <1>1. PICK b \in 0..8 : b = Bars(n, d)
    OBVIOUS
  <1> DEFINE data == [k \in 1..8 |-> IF k <= b THEN first ELSE second]
  <1>2. GetLEDBar(n, d, first, second) = CompressData(data)
    <2>1. InBounds(0, b) /\ InBounds(b, 8)
      BY DEF InBounds
    <2>2. FillData(second, b, 8, FillData(first, 0, b, [k \in 1..8 |-> 0])) = data
      BY DEF FillData
    <2>3. QED BY <1>1, <2>1, <2>2 DEF GetLEDBar
  <1>3. \A k \in 1..8 : data[k] \in Colors
    OBVIOUS
  <1>4. data[i] = IF i <= b THEN first ELSE second
    OBVIOUS
  <1> HIDE DEF data
  <1>5. Led(CompressData(data), i) = data[i]
    <2>1. CASE i % 2 = 1
      <3>1. (i + 1) \div 2 \in 1..4 /\ 2 * ((i + 1) \div 2) - 1 = i
            /\ 2 * ((i + 1) \div 2) \in 1..8
        BY <2>1
      <3>2. CompressData(data)[(i + 1) \div 2]
            = 16 * data[i] + data[2 * ((i + 1) \div 2)]
        BY <3>1 DEF CompressData
      <3>3. QED BY <1>3, <2>1, <3>1, <3>2, Nibbles DEF Led
    <2>2. CASE i % 2 # 1
      <3>1. i \div 2 \in 1..4 /\ 2 * (i \div 2) = i /\ 2 * (i \div 2) - 1 \in 1..8
        BY <2>2
      <3>2. CompressData(data)[i \div 2] = 16 * data[2 * (i \div 2) - 1] + data[i]
        BY <3>1 DEF CompressData
      <3>3. QED BY <1>3, <2>2, <3>1, <3>2, Nibbles DEF Led
    <2>3. QED BY <2>1, <2>2
  <1>6. QED BY <1>1, <1>2, <1>4, <1>5

\* How many LEDs show the first colour of a row.
LEMMA RowLights ==
    ASSUME NEW n, NEW d, Bars(n, d) \in 0..8,
           NEW first \in Colors, NEW second \in Colors, first # second
    PROVE  Cardinality({k \in 1..8 :
                          Led(GetLEDBar(n, d, first, second), k) = first})
           = Bars(n, d)
  <1>1. {k \in 1..8 : Led(GetLEDBar(n, d, first, second), k) = first} = 1..Bars(n, d)
    <2>1. \A k \in 1..8 : Led(GetLEDBar(n, d, first, second), k) = first
                          <=> k <= Bars(n, d)
      BY RowShows
    <2>2. QED BY <2>1
  <1>2. Cardinality(1..Bars(n, d)) = Bars(n, d)
    <2>1. PICK b \in 0..8 : b = Bars(n, d)
      OBVIOUS
    <2>2. Cardinality(1..b) = IF 1 > b THEN 0 ELSE b - 1 + 1
      BY FS_Interval
    <2>3. QED BY <2>1, <2>2
  <1>3. QED BY <1>1, <1>2
=============================================================================
