--------------------------------- MODULE Sums ---------------------------------
(***************************************************************************)
(* Facts about SumFunction, the sum of the values of a function with a     *)
(* finite domain, for the proofs about counters.  An induction over finite *)
(* sets is a search for a smallest counterexample: a set of sets can be    *)
(* named in a proof, a predicate on sets cannot be passed to a lemma.      *)
(***************************************************************************)
EXTENDS Integers, FiniteSetsExt, FiniteSetTheorems, WellFoundedInduction, TLAPS

\* A non-empty set of finite sets has a member that includes no other member.
LEMMA SmallestSet ==
    ASSUME NEW S, IsFiniteSet(S), NEW Bad, Bad \subseteq SUBSET S, Bad # {}
    PROVE  \E T \in Bad : \A U \in Bad : U \subseteq T => U = T
<1>1. IsWellFoundedOn(StrictSubsetOrdering(S), FiniteSubsetsOf(S))
  BY FS_StrictSubsetOrderingWellFounded
<1>2. Bad \subseteq FiniteSubsetsOf(S)
  BY FS_FiniteSubsetsOfFinite
<1>3. PICK T \in Bad : \A U \in Bad : ~ (<<U, T>> \in StrictSubsetOrdering(S))
  BY <1>1, <1>2, WFMin
<1>4. ASSUME NEW U \in Bad, U \subseteq T, U # T PROVE FALSE
  <2>1. <<U, T>> \in StrictSubsetOrdering(S)
    BY <1>4 DEF StrictSubsetOrdering
  <2> QED BY <1>3, <2>1
<1> QED BY <1>4

-----------------------------------------------------------------------------
(* The equation of the fold                                                *)

\* The element that a fold takes next.
Pick(s) == CHOOSE x \in s : TRUE

LEMMA PickIn == ASSUME NEW s, s # {} PROVE Pick(s) \in s
BY DEF Pick

\* The function that a fold over S defines: the sums over all subsets of S.
Partial(iter, f, S) ==
    iter = [s \in SUBSET S |-> IF s = {} THEN 0 ELSE f[Pick(s)] + iter[s \ {Pick(s)}]]

LEMMA SumIsPartial ==
    ASSUME NEW f, NEW S
    PROVE  SumFunctionOnSet(f, S) = (CHOOSE iter : Partial(iter, f, S))[S]
BY DEF SumFunctionOnSet, FoldFunctionOnSet, MapThenFoldSet, Partial, Pick

LEMMA PartialAt ==
    ASSUME NEW f, NEW S, NEW g, Partial(g, f, S)
    PROVE  \A s \in SUBSET S :
               g[s] = IF s = {} THEN 0 ELSE f[Pick(s)] + g[s \ {Pick(s)}]
<1> DEFINE h == [t \in SUBSET S |-> IF t = {} THEN 0 ELSE f[Pick(t)] + g[t \ {Pick(t)}]]
<1>1. g = h
  BY DEF Partial
<1>2. \A s \in SUBSET S : h[s] = IF s = {} THEN 0 ELSE f[Pick(s)] + g[s \ {Pick(s)}]
  OBVIOUS
<1> HIDE DEF h
<1> QED BY <1>1, <1>2

\* Two such functions agree where both are defined and what is summed agrees.
LEMMA PartialUnique ==
    ASSUME NEW f, NEW g, NEW S, NEW T, NEW U, IsFiniteSet(U), U \subseteq S, U \subseteq T,
           NEW c, Partial(c, f, S), NEW d, Partial(d, g, T),
           \A x \in U : f[x] = g[x]
    PROVE  c[U] = d[U]
<1> DEFINE Bad == {V \in SUBSET U : c[V] # d[V]}
<1> SUFFICES ASSUME Bad # {} PROVE FALSE
  OBVIOUS
<1>1. Bad \subseteq SUBSET U
  OBVIOUS
<1>2. \A V : V \in Bad <=> V \subseteq U /\ c[V] # d[V]
  OBVIOUS
<1> HIDE DEF Bad
<1>3. PICK V \in Bad : \A W \in Bad : W \subseteq V => W = V
  BY <1>1, SmallestSet
<1>4. V \in SUBSET S /\ V \in SUBSET T /\ V \subseteq U /\ c[V] # d[V]
  BY <1>2
<1>5. c[V] = IF V = {} THEN 0 ELSE f[Pick(V)] + c[V \ {Pick(V)}]
  BY <1>4, PartialAt
<1>6. d[V] = IF V = {} THEN 0 ELSE g[Pick(V)] + d[V \ {Pick(V)}]
  BY <1>4, PartialAt
<1>7. V # {}
  BY <1>4, <1>5, <1>6
<1>8. Pick(V) \in V
  BY <1>7, PickIn
<1>9. V \ {Pick(V)} \notin Bad
  BY <1>3, <1>8
<1>10. c[V \ {Pick(V)}] = d[V \ {Pick(V)}]
  BY <1>2, <1>4, <1>9
<1> QED BY <1>4, <1>5, <1>6, <1>7, <1>8, <1>10

\* The restriction to a subset is the function of the subset.
LEMMA PartialRestricts ==
    ASSUME NEW f, NEW S, NEW c, Partial(c, f, S), NEW T, T \subseteq S
    PROVE  Partial([s \in SUBSET T |-> c[s]], f, T)
<1> DEFINE d == [s \in SUBSET T |-> c[s]]
           e == [s \in SUBSET T |-> IF s = {} THEN 0 ELSE f[Pick(s)] + d[s \ {Pick(s)}]]
<1>1. ASSUME NEW s \in SUBSET T PROVE d[s] = e[s]
  <2>1. c[s] = IF s = {} THEN 0 ELSE f[Pick(s)] + c[s \ {Pick(s)}]
    <3>1. s \in SUBSET S
      OBVIOUS
    <3> QED BY <3>1, PartialAt
  <2>2. d[s] = c[s] /\ d[s \ {Pick(s)}] = c[s \ {Pick(s)}]
    OBVIOUS
  <2>3. e[s] = IF s = {} THEN 0 ELSE f[Pick(s)] + d[s \ {Pick(s)}]
    OBVIOUS
  <2> QED BY <2>1, <2>2, <2>3
<1>2. d = e
  BY <1>1
<1> QED BY <1>2 DEF Partial

\* The sums over subsets of a larger set serve for the subset.
LEMMA PartialExists ==
    ASSUME NEW f, NEW S, IsFiniteSet(S)
    PROVE  \E c : Partial(c, f, S)
<1> DEFINE Bad == {T \in SUBSET S : ~ \E c : Partial(c, f, T)}
<1> SUFFICES ASSUME Bad # {} PROVE FALSE
  OBVIOUS
<1>1. Bad \subseteq SUBSET S
  OBVIOUS
<1>2. \A T : T \in Bad <=> T \subseteq S /\ ~ \E c : Partial(c, f, T)
  OBVIOUS
<1> HIDE DEF Bad
<1>3. PICK T \in Bad : \A U \in Bad : U \subseteq T => U = T
  BY <1>1, SmallestSet
<1> DEFINE Of(U) == CHOOSE c : Partial(c, f, U)
           At(s) == Of(s)[s]
           e == [s \in SUBSET T |-> IF s = {} THEN 0 ELSE f[Pick(s)] + At(s \ {Pick(s)})]
<1>4. ASSUME NEW U, U \subseteq T, U # T PROVE Partial(Of(U), f, U)
  <2>1. U \notin Bad /\ U \subseteq S
    BY <1>1, <1>3, <1>4
  <2>2. \E c : Partial(c, f, U)
    BY <1>2, <2>1
  <2> QED BY <2>2
<1>5. ASSUME NEW U, U \subseteq T, U # T, U # {}
      PROVE  At(U) = f[Pick(U)] + At(U \ {Pick(U)})
  <2>1. Partial(Of(U), f, U) /\ Pick(U) \in U
    BY <1>4, <1>5, PickIn
  <2> DEFINE V == U \ {Pick(U)}
  <2>2. V \subseteq T /\ V # T /\ V \subseteq U /\ V \in SUBSET S
    BY <1>1, <1>5, <2>1
  <2>3. Partial(Of(V), f, V)
    BY <1>4, <2>2
  <2>4. U \in SUBSET U
    OBVIOUS
  <2>5. Of(U)[U] = f[Pick(U)] + Of(U)[V]
    BY <1>5, <2>1, <2>4, PartialAt
  <2>6. IsFiniteSet(V)
    BY <2>2, FS_Subset
  <2> HIDE DEF Of, V
  <2>7. Of(U)[V] = Of(V)[V]
    BY <2>1, <2>2, <2>3, <2>6, PartialUnique
  <2> QED BY <2>5, <2>7 DEF V
<1>6. ASSUME NEW U, U \subseteq T, U # T PROVE At(U) = e[U]
  <2>1. CASE U = {}
    <3>1. Partial(Of(U), f, U) /\ U \in SUBSET U
      BY <1>4, <1>6
    <3> HIDE DEF Of
    <3>2. Of(U)[U] = 0
      BY <2>1, <3>1, PartialAt
    <3> QED BY <2>1, <3>2
  <2>2. CASE U # {}
    <3> HIDE DEF At
    <3> QED BY <1>5, <1>6, <2>2
  <2> QED BY <2>1, <2>2
<1> HIDE DEF At
<1>7. \A s \in SUBSET T : s # {} => e[s \ {Pick(s)}] = At(s \ {Pick(s)})
  <2> SUFFICES ASSUME NEW s \in SUBSET T, s # {} PROVE e[s \ {Pick(s)}] = At(s \ {Pick(s)})
    OBVIOUS
  <2>1. Pick(s) \in s
    BY PickIn
  <2>2. s \ {Pick(s)} \subseteq T /\ s \ {Pick(s)} # T
    BY <2>1
  <2> QED BY <1>6, <2>2
<1>8. e = [s \in SUBSET T |-> IF s = {} THEN 0 ELSE f[Pick(s)] + e[s \ {Pick(s)}]]
  <2> DEFINE g == [s \in SUBSET T |-> IF s = {} THEN 0 ELSE f[Pick(s)] + e[s \ {Pick(s)}]]
  <2>1. \A s \in SUBSET T : e[s] = IF s = {} THEN 0 ELSE f[Pick(s)] + At(s \ {Pick(s)})
    OBVIOUS
  <2>2. DOMAIN e = SUBSET T /\ e = [s \in DOMAIN e |-> e[s]]
    OBVIOUS
  <2> HIDE DEF e
  <2>3. \A s \in SUBSET T : g[s] = IF s = {} THEN 0 ELSE f[Pick(s)] + e[s \ {Pick(s)}]
    OBVIOUS
  <2>4. \A s \in SUBSET T : g[s] = e[s]
    BY <1>7, <2>1, <2>3
  <2>5. DOMAIN g = SUBSET T /\ g = [s \in SUBSET T |-> g[s]]
    OBVIOUS
  <2> HIDE DEF g
  <2>6. e = g
    BY <2>2, <2>4, <2>5
  <2> QED BY <2>6 DEF g
<1> HIDE DEF e
<1>9. Partial(e, f, T)
  BY <1>8 DEF Partial
<1> QED BY <1>2, <1>9

LEMMA SumEquation ==
    ASSUME NEW f, NEW S, IsFiniteSet(S)
    PROVE  SumFunctionOnSet(f, S) =
             IF S = {} THEN 0 ELSE f[Pick(S)] + SumFunctionOnSet(f, S \ {Pick(S)})
<1> DEFINE Of(U) == CHOOSE c : Partial(c, f, U)
<1>1. \A U : IsFiniteSet(U) => Partial(Of(U), f, U)
  BY PartialExists
<1>2. \A U : SumFunctionOnSet(f, U) = Of(U)[U]
  BY SumIsPartial
<1> HIDE DEF Of
<1>3. S \in SUBSET S
  OBVIOUS
<1>4. Of(S)[S] = IF S = {} THEN 0 ELSE f[Pick(S)] + Of(S)[S \ {Pick(S)}]
  BY <1>1, <1>3, PartialAt
<1> DEFINE V == S \ {Pick(S)}
<1>5. IsFiniteSet(V) /\ V \subseteq S /\ V \subseteq V
  BY FS_RemoveElement
<1> HIDE DEF V
<1>6. Of(S)[V] = Of(V)[V]
  <2>1. Partial(Of(S), f, S) /\ Partial(Of(V), f, V)
    BY <1>1, <1>5
  <2>2. \A x \in V : f[x] = f[x]
    OBVIOUS
  <2> QED BY <1>5, <2>1, <2>2, PartialUnique
<1> QED BY <1>2, <1>4, <1>6 DEF V

\* A sum depends on what is summed, and on nothing else.
LEMMA SumCongruent ==
    ASSUME NEW f, NEW g, NEW S, IsFiniteSet(S), \A x \in S : f[x] = g[x]
    PROVE  SumFunctionOnSet(f, S) = SumFunctionOnSet(g, S)
<1> DEFINE Of(h) == CHOOSE c : Partial(c, h, S)
<1>1. Partial(Of(f), f, S) /\ Partial(Of(g), g, S)
  BY PartialExists
<1>2. SumFunctionOnSet(f, S) = Of(f)[S] /\ SumFunctionOnSet(g, S) = Of(g)[S]
  BY SumIsPartial
<1>3. PICK c, d : c = Of(f) /\ d = Of(g)
  OBVIOUS
<1> HIDE DEF Of
<1>4. Partial(c, f, S)
  BY <1>1, <1>3
<1>5. Partial(d, g, S)
  BY <1>1, <1>3
<1>6. PICK U : U = S
  OBVIOUS
<1>7. IsFiniteSet(U) /\ U \subseteq S /\ \A x \in U : f[x] = g[x]
  BY <1>6
<1>8. c[U] = d[U]
  BY <1>4, <1>5, <1>7, PartialUnique
<1> QED BY <1>2, <1>3, <1>6, <1>8

LEMMA SumOfNone == ASSUME NEW f PROVE SumFunctionOnSet(f, {}) = 0
BY SumEquation, FS_EmptySet

LEMMA SumType ==
    ASSUME NEW f, NEW S, IsFiniteSet(S), \A x \in S : f[x] \in Nat
    PROVE  SumFunctionOnSet(f, S) \in Nat
<1> DEFINE Bad == {T \in SUBSET S : SumFunctionOnSet(f, T) \notin Nat}
<1> SUFFICES ASSUME Bad # {} PROVE FALSE
  OBVIOUS
<1>1. Bad \subseteq SUBSET S
  OBVIOUS
<1>2. \A T : T \in Bad <=> T \subseteq S /\ SumFunctionOnSet(f, T) \notin Nat
  OBVIOUS
<1> HIDE DEF Bad
<1>3. PICK T \in Bad : \A U \in Bad : U \subseteq T => U = T
  BY <1>1, SmallestSet
<1>4. T \subseteq S /\ SumFunctionOnSet(f, T) \notin Nat /\ IsFiniteSet(T)
  BY <1>2, FS_Subset
<1>5. T # {}
  BY <1>4, SumOfNone
<1>6. Pick(T) \in T
  BY <1>5, PickIn
<1>7. SumFunctionOnSet(f, T \ {Pick(T)}) \in Nat
  BY <1>2, <1>3, <1>4, <1>6
<1>8. SumFunctionOnSet(f, T) = f[Pick(T)] + SumFunctionOnSet(f, T \ {Pick(T)})
  BY <1>4, <1>5, SumEquation
<1> QED BY <1>4, <1>6, <1>7, <1>8

\* The order of the fold does not matter: any element may come first.
LEMMA SumAdded ==
    ASSUME NEW f, NEW S, IsFiniteSet(S), \A x \in S : f[x] \in Nat, NEW a \in S
    PROVE  SumFunctionOnSet(f, S) = SumFunctionOnSet(f, S \ {a}) + f[a]
<1> DEFINE Sum(T) == SumFunctionOnSet(f, T)
           Adds(T) == \A x \in T : Sum(T) = Sum(T \ {x}) + f[x]
           Bad == {T \in SUBSET S : ~ Adds(T)}
<1>0. \A T \in SUBSET S : IsFiniteSet(T) /\ Sum(T) \in Nat
  BY FS_Subset, SumType
<1>1. \A T \in SUBSET S : T # {} => Sum(T) = f[Pick(T)] + Sum(T \ {Pick(T)})
  BY <1>0, SumEquation
<1>2. ASSUME Bad # {} PROVE FALSE
  <2>1. Bad \subseteq SUBSET S
    OBVIOUS
  <2>2. \A T : T \in Bad <=> T \subseteq S /\ ~ Adds(T)
    OBVIOUS
  <2> HIDE DEF Bad
  <2>3. PICK T \in Bad : \A U \in Bad : U \subseteq T => U = T
    BY <1>2, <2>1, SmallestSet
  <2>4. T \subseteq S /\ ~ Adds(T)
    BY <2>2
  <2>5. PICK x \in T : Sum(T) # Sum(T \ {x}) + f[x]
    BY <2>4
  <2> DEFINE p == Pick(T)
             V == T \ {p}
  <2>6. p \in T
    BY PickIn
  <2>7. V \in SUBSET S /\ Adds(V)
    <3>1. V \notin Bad
      BY <2>3, <2>6
    <3> QED BY <2>2, <2>4, <3>1
  <2>8. Sum(T) = f[p] + Sum(V)
    BY <1>1, <2>4
  <2> HIDE DEF p, V, Sum
  <2>9. x # p
    <3> SUFFICES ASSUME x = p PROVE FALSE
      OBVIOUS
    <3> QED BY <1>0, <2>4, <2>5, <2>6, <2>7, <2>8 DEF V
  <2>10. x \in V /\ T \ {x} \in SUBSET S /\ V \ {x} \in SUBSET S /\ p \in T \ {x}
    BY <2>4, <2>6, <2>9 DEF V
  <2>11. Sum(V) = Sum(V \ {x}) + f[x]
    BY <2>7, <2>10
  <2>12. Sum(T \ {x}) = f[p] + Sum(V \ {x})
    <3>1. (T \ {x}) \ {p} = V \ {x}
      BY DEF V
    <3>2. Adds(T \ {x})
      <4>1. T \ {x} \notin Bad
        BY <2>3
      <4> QED BY <2>2, <2>10, <4>1
    <3>3. Sum(T \ {x}) = Sum((T \ {x}) \ {p}) + f[p]
      BY <2>10, <3>2
    <3>4. Sum(V \ {x}) \in Nat /\ f[p] \in Nat
      BY <1>0, <2>4, <2>6, <2>10
    <3> QED BY <3>1, <3>3, <3>4
  <2>13. Sum(V \ {x}) \in Nat /\ f[p] \in Nat /\ f[x] \in Nat
    BY <1>0, <2>4, <2>6, <2>10
  <2> QED BY <2>5, <2>8, <2>11, <2>12, <2>13
<1>3. Adds(S)
  BY <1>2
<1> QED BY <1>3

-----------------------------------------------------------------------------
(* SumFunction                                                             *)

LEMMA SumOverDomain == ASSUME NEW f PROVE SumFunction(f) = SumFunctionOnSet(f, DOMAIN f)
BY DEF SumFunction

\* One more value, which nothing else depends on.
LEMMA SumExtended ==
    ASSUME NEW S, IsFiniteSet(S), NEW a, a \notin S,
           NEW f \in [S -> Nat], NEW g \in [S \cup {a} -> Nat],
           \A x \in S : g[x] = f[x]
    PROVE  SumFunction(g) = SumFunction(f) + g[a]
<1>1. IsFiniteSet(S \cup {a}) /\ (S \cup {a}) \ {a} = S
  BY FS_AddElement
<1>2. SumFunctionOnSet(g, S \cup {a}) = SumFunctionOnSet(g, (S \cup {a}) \ {a}) + g[a]
  <2>1. \A x \in S \cup {a} : g[x] \in Nat
    OBVIOUS
  <2> QED BY <1>1, <2>1, SumAdded
<1>3. SumFunctionOnSet(g, S) = SumFunctionOnSet(f, S)
  BY SumCongruent
<1>4. DOMAIN f = S /\ DOMAIN g = S \cup {a}
  OBVIOUS
<1> QED BY <1>1, <1>2, <1>3, <1>4, SumOverDomain

\* One value changes.
LEMMA SumChanged ==
    ASSUME NEW S, IsFiniteSet(S), NEW a \in S,
           NEW f \in [S -> Nat], NEW g \in [S -> Nat],
           \A x \in S \ {a} : g[x] = f[x]
    PROVE  SumFunction(g) + f[a] = SumFunction(f) + g[a]
<1>1. IsFiniteSet(S \ {a})
  BY FS_RemoveElement
<1>2. SumFunctionOnSet(g, S \ {a}) = SumFunctionOnSet(f, S \ {a})
  BY <1>1, SumCongruent
<1>3. SumFunctionOnSet(g, S) = SumFunctionOnSet(g, S \ {a}) + g[a]
  <2>1. \A x \in S : g[x] \in Nat
    OBVIOUS
  <2> QED BY <2>1, SumAdded
<1>4. SumFunctionOnSet(f, S) = SumFunctionOnSet(f, S \ {a}) + f[a]
  <2>1. \A x \in S : f[x] \in Nat
    OBVIOUS
  <2> QED BY <2>1, SumAdded
<1>5. SumFunctionOnSet(f, S \ {a}) \in Nat /\ f[a] \in Nat /\ g[a] \in Nat
  <2>1. \A x \in S \ {a} : f[x] \in Nat
    OBVIOUS
  <2> QED BY <1>1, <2>1, SumType
<1>6. DOMAIN f = S /\ DOMAIN g = S
  OBVIOUS
<1> QED BY <1>2, <1>3, <1>4, <1>5, <1>6, SumOverDomain

LEMMA SumNat ==
    ASSUME NEW S, IsFiniteSet(S), NEW f \in [S -> Nat]
    PROVE  SumFunction(f) \in Nat
<1>1. DOMAIN f = S /\ \A x \in S : f[x] \in Nat
  OBVIOUS
<1> QED BY <1>1, SumType, SumOverDomain

LEMMA SumEmpty == ASSUME NEW f, DOMAIN f = {} PROVE SumFunction(f) = 0
BY SumOverDomain, SumOfNone

\* Fewer values have a smaller sum.
LEMMA SumOfFewer ==
    ASSUME NEW T, IsFiniteSet(T), NEW S \in SUBSET T,
           NEW f \in [S -> Nat], NEW g \in [T -> Nat], \A x \in S : g[x] = f[x]
    PROVE  SumFunction(f) <= SumFunction(g)
<1> DEFINE Sum(U) == SumFunctionOnSet(g, U)
           Bad == {U \in SUBSET T : S \subseteq U /\ ~ (Sum(S) <= Sum(U))}
<1>0. \A U \in SUBSET T : IsFiniteSet(U) /\ Sum(U) \in Nat
  BY FS_Subset, SumType
<1>1. ASSUME Bad # {} PROVE FALSE
  <2>1. Bad \subseteq SUBSET T
    OBVIOUS
  <2>2. \A U : U \in Bad <=> U \subseteq T /\ S \subseteq U /\ ~ (Sum(S) <= Sum(U))
    OBVIOUS
  <2> HIDE DEF Bad
  <2>3. PICK U \in Bad : \A V \in Bad : V \subseteq U => V = U
    BY <1>1, <2>1, SmallestSet
  <2>4. U \subseteq T /\ S \subseteq U /\ ~ (Sum(S) <= Sum(U))
    BY <2>2
  <2>5. U # S
    <3>1. Sum(S) <= Sum(S)
      BY <1>0
    <3> QED BY <2>4, <3>1
  <2>6. PICK x \in U : x \notin S
    BY <2>4, <2>5
  <2>7. Sum(S) <= Sum(U \ {x})
    BY <2>2, <2>3, <2>4, <2>6
  <2>8. Sum(U) = Sum(U \ {x}) + g[x]
    <3>1. IsFiniteSet(U) /\ \A y \in U : g[y] \in Nat
      BY <1>0, <2>4
    <3> QED BY <3>1, SumAdded
  <2>9. Sum(S) \in Nat /\ Sum(U \ {x}) \in Nat /\ g[x] \in Nat
    BY <1>0, <2>4
  <2> HIDE DEF Sum
  <2> QED BY <2>4, <2>7, <2>8, <2>9
<1>2. Sum(S) <= Sum(T)
  BY <1>1
<1>3. IsFiniteSet(S) /\ \A x \in S : g[x] = f[x]
  BY <1>0
<1>4. Sum(S) = SumFunctionOnSet(f, S)
  BY <1>3, SumCongruent
<1>5. DOMAIN f = S /\ DOMAIN g = T
  OBVIOUS
<1> QED BY <1>2, <1>4, <1>5, SumOverDomain

LEMMA ImageFinite == ASSUME NEW S, IsFiniteSet(S), NEW h PROVE IsFiniteSet({h[x] : x \in S})
<1> DEFINE T == {h[x] : x \in S}
           f == [x \in S |-> h[x]]
<1>1. f \in [S -> T] /\ \A y \in T : \E x \in S : f[x] = y
  OBVIOUS
<1> HIDE DEF f, T
<1>2. f \in Surjection(S, T)
  BY <1>1 DEF Surjection
<1>3. IsFiniteSet(T)
  BY <1>2, FS_Surjection
<1> QED BY <1>3 DEF T

\* The sum of the sums of groups, each of those with one value of h.
SumOfGroup(w, h, T, k) == SumFunction([x \in {y \in T : h[y] = k} |-> w[x]])
SumOfGroups(w, h, T) == SumFunction([k \in {h[x] : x \in T} |-> SumOfGroup(w, h, T, k)])

LEMMA GroupType ==
    ASSUME NEW T, IsFiniteSet(T), NEW w, \A x \in T : w[x] \in Nat, NEW h, NEW k
    PROVE  SumOfGroup(w, h, T, k) \in Nat
<1> DEFINE G == {y \in T : h[y] = k}
<1>1. IsFiniteSet(G)
  BY FS_Subset
<1>2. [x \in G |-> w[x]] \in [G -> Nat]
  OBVIOUS
<1> HIDE DEF G
<1>3. SumFunction([x \in G |-> w[x]]) \in Nat
  BY <1>1, <1>2, SumNat
<1> QED BY <1>3 DEF G, SumOfGroup

\* An element counts in its own group only.
LEMMA GroupExtended ==
    ASSUME NEW T, IsFiniteSet(T), NEW e \in T, NEW w, \A x \in T : w[x] \in Nat, NEW h,
           NEW k
    PROVE  SumOfGroup(w, h, T, k) =
             SumOfGroup(w, h, T \ {e}, k) + (IF h[e] = k THEN w[e] ELSE 0)
<1> DEFINE G == {y \in T : h[y] = k}
           F == {y \in T \ {e} : h[y] = k}
<1>1. SumOfGroup(w, h, T, k) = SumFunction([x \in G |-> w[x]])
  BY DEF SumOfGroup
<1>2. SumOfGroup(w, h, T \ {e}, k) = SumFunction([x \in F |-> w[x]])
  BY DEF SumOfGroup
<1>3. CASE h[e] = k
  <2>1. G = F \cup {e} /\ e \notin F /\ e \in G
    BY <1>3
  <2>2. IsFiniteSet(F)
    BY FS_Subset
  <2>3. [x \in F |-> w[x]] \in [F -> Nat]
    OBVIOUS
  <2>4. [x \in G |-> w[x]] \in [F \cup {e} -> Nat]
    BY <2>1
  <2>5. /\ \A y \in F : [x \in G |-> w[x]][y] = [x \in F |-> w[x]][y]
        /\ [x \in G |-> w[x]][e] = w[e]
    BY <2>1
  <2> HIDE DEF F, G
  <2>6. SumFunction([x \in G |-> w[x]]) = SumFunction([x \in F |-> w[x]]) + w[e]
    BY <2>1, <2>2, <2>3, <2>4, <2>5, SumExtended
  <2> QED BY <1>1, <1>2, <1>3, <2>6
<1>4. CASE h[e] # k
  <2>1. G = F
    BY <1>4
  <2>2. SumOfGroup(w, h, T \ {e}, k) \in Nat
    <3>1. IsFiniteSet(T \ {e}) /\ \A x \in T \ {e} : w[x] \in Nat
      BY FS_RemoveElement
    <3> QED BY <3>1, GroupType
  <2> HIDE DEF F, G
  <2> QED BY <1>1, <1>2, <1>4, <2>1, <2>2
<1> QED BY <1>3, <1>4

\* A sum can be taken group by group.
LEMMA SumByGroups ==
    ASSUME NEW S, IsFiniteSet(S), NEW w \in [S -> Nat], NEW h
    PROVE  SumOfGroups(w, h, S) = SumFunction(w)
<1> DEFINE Sum(T) == SumFunctionOnSet(w, T)
           Bad == {T \in SUBSET S : SumOfGroups(w, h, T) # Sum(T)}
<1>0. \A T \in SUBSET S : IsFiniteSet(T) /\ (\A x \in T : w[x] \in Nat) /\ Sum(T) \in Nat
  BY FS_Subset, SumType
<1>1. ASSUME Bad # {} PROVE FALSE
  <2>1. Bad \subseteq SUBSET S
    OBVIOUS
  <2>2. \A T : T \in Bad <=> T \subseteq S /\ SumOfGroups(w, h, T) # Sum(T)
    OBVIOUS
  <2> HIDE DEF Bad
  <2>3. PICK T \in Bad : \A U \in Bad : U \subseteq T => U = T
    BY <1>1, <2>1, SmallestSet
  <2>4. T \in SUBSET S /\ SumOfGroups(w, h, T) # Sum(T)
    BY <2>2
  <2>5. T # {}
    <3> SUFFICES ASSUME T = {} PROVE FALSE
      OBVIOUS
    <3>1. SumOfGroups(w, h, T) = 0
      <4>1. DOMAIN [k \in {h[x] : x \in T} |-> SumOfGroup(w, h, T, k)] = {}
        OBVIOUS
      <4> QED BY <4>1, SumEmpty DEF SumOfGroups
    <3> QED BY <2>4, <3>1, SumOfNone
  <2>6. PICK e \in T : TRUE
    BY <2>5
  <2> DEFINE U == T \ {e}
             K == {h[x] : x \in U}
             f == [k \in K |-> SumOfGroup(w, h, U, k)]
             g == [k \in {h[x] : x \in T} |-> SumOfGroup(w, h, T, k)]
  <2>7. U \in SUBSET S /\ SumOfGroups(w, h, U) = Sum(U)
    BY <2>2, <2>3, <2>4, <2>6
  <2>8. Sum(T) = Sum(U) + w[e] /\ w[e] \in Nat /\ Sum(U) \in Nat
    <3>1. IsFiniteSet(T) /\ (\A x \in T : w[x] \in Nat) /\ Sum(U) \in Nat
      BY <1>0, <2>4, <2>7
    <3> QED BY <3>1, SumAdded
  <2>9. SumFunction(f) = Sum(U)
    BY <2>7 DEF SumOfGroups
  <2>10. SumFunction(g) # Sum(T)
    BY <2>4 DEF SumOfGroups
  <2>11. /\ {h[x] : x \in T} = K \cup {h[e]}
         /\ \A k \in K : f[k] = SumOfGroup(w, h, U, k)
         /\ \A k \in K \cup {h[e]} : g[k] = SumOfGroup(w, h, T, k)
    OBVIOUS
  <2>12. IsFiniteSet(T) /\ \A x \in T : w[x] \in Nat
    BY <1>0, <2>4
  <2>13. \A k : /\ SumOfGroup(w, h, U, k) \in Nat
                /\ SumOfGroup(w, h, T, k) =
                      SumOfGroup(w, h, U, k) + (IF h[e] = k THEN w[e] ELSE 0)
    <3>1. IsFiniteSet(U) /\ \A x \in U : w[x] \in Nat
      BY <1>0, <2>7
    <3>2. \A k : SumOfGroup(w, h, U, k) \in Nat
      BY <3>1, GroupType
    <3>3. \A k : SumOfGroup(w, h, T, k) =
                   SumOfGroup(w, h, U, k) + (IF h[e] = k THEN w[e] ELSE 0)
      BY <2>12, GroupExtended
    <3> QED BY <3>2, <3>3
  <2>14. \A k : SumOfGroup(w, h, T, k) \in Nat
    BY <2>12, GroupType
  <2>15. IsFiniteSet(K)
    <3>1. IsFiniteSet(U)
      BY <1>0, <2>7
    <3> QED BY <3>1, ImageFinite
  <2>16. h[e] \notin K => SumOfGroup(w, h, U, h[e]) = 0
    <3> SUFFICES ASSUME h[e] \notin K PROVE SumOfGroup(w, h, U, h[e]) = 0
      OBVIOUS
    <3>1. DOMAIN [x \in {y \in U : h[y] = h[e]} |-> w[x]] = {}
      OBVIOUS
    <3> QED BY <3>1, SumEmpty DEF SumOfGroup
  <2>17. f \in [K -> Nat] /\ g \in [K \cup {h[e]} -> Nat]
    BY <2>11, <2>13, <2>14
  <2> HIDE DEF U, K, f, g, Sum
  <2>18. \A k \in K : k # h[e] => g[k] = f[k]
    BY <2>11, <2>13
  <2>19. CASE h[e] \in K
    <3>1. g \in [K -> Nat] /\ \A k \in K \ {h[e]} : g[k] = f[k]
      <4>1. K \cup {h[e]} = K
        BY <2>19
      <4> QED BY <2>17, <2>18, <4>1
    <3>2. g[h[e]] = f[h[e]] + w[e] /\ f[h[e]] \in Nat
      BY <2>11, <2>13, <2>19
    <3>3. SumFunction(g) + f[h[e]] = SumFunction(f) + g[h[e]]
      BY <2>15, <2>17, <2>19, <3>1, SumChanged
    <3>4. SumFunction(g) \in Nat
      BY <2>15, <3>1, SumNat
    <3> QED BY <2>8, <2>9, <2>10, <3>2, <3>3, <3>4
  <2>20. CASE h[e] \notin K
    <3>1. g[h[e]] = w[e]
      BY <2>8, <2>11, <2>13, <2>16, <2>20
    <3>2. SumFunction(g) = SumFunction(f) + g[h[e]]
      BY <2>15, <2>17, <2>18, <2>20, SumExtended
    <3> QED BY <2>8, <2>9, <2>10, <3>1, <3>2
  <2> QED BY <2>19, <2>20
<1>2. SumOfGroups(w, h, S) = Sum(S)
  BY <1>1
<1> QED BY <1>2, SumOverDomain

LEMMA SumOfOne == ASSUME NEW a, NEW f \in [{a} -> Nat] PROVE SumFunction(f) = f[a]
<1> DEFINE none == [x \in {} |-> 0]
<1>1. none \in [{} -> Nat] /\ DOMAIN none = {}
  OBVIOUS
<1>2. \A x \in {} : f[x] = none[x]
  OBVIOUS
<1> HIDE DEF none
<1>3. SumFunction(none) = 0
  BY <1>1, SumEmpty
<1>4. f \in [{} \cup {a} -> Nat] /\ f[a] \in Nat
  OBVIOUS
<1>5. SumFunction(f) = SumFunction(none) + f[a]
  <2>1. PICK S : S = {}
    OBVIOUS
  <2>2. /\ IsFiniteSet(S) /\ a \notin S /\ none \in [S -> Nat] /\ f \in [S \cup {a} -> Nat]
        /\ \A x \in S : f[x] = none[x]
    BY <1>1, <1>4, <2>1, FS_EmptySet
  <2> QED BY <2>2, SumExtended
<1> QED BY <1>3, <1>4, <1>5

\* A sum stays the same when each value is found under another name.
LEMMA SumReindexed ==
    ASSUME NEW S, IsFiniteSet(S), NEW h, \A x, y \in S : h[x] = h[y] => x = y,
           NEW w \in [S -> Nat], NEW v \in [{h[x] : x \in S} -> Nat],
           \A x \in S : v[h[x]] = w[x]
    PROVE  SumFunction(v) = SumFunction(w)
<1> DEFINE H == {h[x] : x \in S}
           g == [k \in H |-> SumOfGroup(w, h, S, k)]
<1>1. SumFunction(g) = SumFunction(w)
  BY SumByGroups DEF SumOfGroups
<1>2. ASSUME NEW x \in S PROVE SumOfGroup(w, h, S, h[x]) = w[x]
  <2>1. {y \in S : h[y] = h[x]} = {x}
    OBVIOUS
  <2>2. SumOfGroup(w, h, S, h[x]) = SumFunction([y \in {x} |-> w[y]])
    BY <2>1 DEF SumOfGroup
  <2>3. PICK f : f = [y \in {x} |-> w[y]]
    OBVIOUS
  <2>4. f \in [{x} -> Nat] /\ f[x] = w[x]
    BY <2>3
  <2>5. SumFunction(f) = f[x]
    BY <2>4, SumOfOne
  <2> QED BY <2>2, <2>3, <2>4, <2>5
<1>3. ASSUME NEW k \in H PROVE g[k] = v[k]
  <2>1. PICK x \in S : k = h[x]
    OBVIOUS
  <2>2. g[k] = SumOfGroup(w, h, S, h[x])
    BY <2>1
  <2> HIDE DEF g
  <2> QED BY <1>2, <2>1, <2>2
<1>4. g = v
  <2>1. v = [k \in H |-> v[k]] /\ g = [k \in H |-> g[k]]
    OBVIOUS
  <2> HIDE DEF g, H
  <2> QED BY <1>3, <2>1
<1> HIDE DEF g
<1> QED BY <1>1, <1>4
==============================================================================
