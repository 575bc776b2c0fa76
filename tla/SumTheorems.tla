------------------------------ MODULE SumTheorems ------------------------------
(***************************************************************************)
(* Sums over finite sets, as SumFunctionOnSet of Functions defines them:   *)
(* by a function over the subsets that takes away one chosen element after *)
(* the other.  That the choice does not matter is proved by looking at a   *)
(* smallest set for which it would, since the strict subset relation on    *)
(* finite sets is well founded.                                            *)
(***************************************************************************)
EXTENDS Integers, Functions, FiniteSetTheorems, TLAPS

\* The element taken first, and what makes a function the sums of S's subsets.
First(s) == CHOOSE x \in s : TRUE

Adds(it, g, S) ==
  it = [s \in SUBSET S |-> IF s = {} THEN 0 ELSE g[First(s)] + it[s \ {First(s)}]]

\* Every set but the empty one has a first element.
LEMMA FirstIn == \A s : s # {} => First(s) \in s
  BY DEF First

\* Of any finite sets one is smallest.
LEMMA SmallestSet ==
  ASSUME NEW S, IsFiniteSet(S), NEW T \in SUBSET SUBSET S, T # {}
  PROVE  \E s \in T : \A t \in T : t \subseteq s => t = s
<1>1. IsWellFoundedOn(StrictSubsetOrdering(S), SUBSET S)
  BY FS_StrictSubsetOrderingWellFounded, FS_FiniteSubsetsOfFinite
<1>2. PICK s \in T : \A t \in T : ~(<<t, s>> \in StrictSubsetOrdering(S))
  BY <1>1, WFMin
<1>3. ASSUME NEW t \in T, t \subseteq s, t # s PROVE FALSE
  BY <1>2, <1>3 DEF StrictSubsetOrdering
<1> QED
  BY <1>3

\* Two such functions agree where both are defined.
LEMMA AddsUnique ==
  ASSUME NEW g, NEW S, NEW U, IsFiniteSet(S), NEW i, NEW j, Adds(i, g, S), Adds(j, g, U),
         NEW s \in SUBSET (S \cap U)
  PROVE  i[s] = j[s]
<1> DEFINE Bad == {t \in SUBSET (S \cap U) : i[t] # j[t]}
<1>1. Bad = {}
  <2> SUFFICES ASSUME Bad # {} PROVE FALSE
    OBVIOUS
  <2>1. Bad \in SUBSET SUBSET S
    OBVIOUS
  <2> HIDE DEF Bad
  <2>2. PICK t \in Bad : \A u \in Bad : u \subseteq t => u = t
    BY <2>1, SmallestSet
  <2>3. t \in SUBSET S /\ t \in SUBSET U /\ i[t] # j[t]
    BY <2>2 DEF Bad
  <2>4. t # {}
    BY <2>3 DEF Adds
  <2>5. t \ {First(t)} \subseteq t /\ t \ {First(t)} # t
    BY <2>4, FirstIn
  <2>6. i[t \ {First(t)}] = j[t \ {First(t)}]
    BY <2>2, <2>3, <2>5 DEF Bad
  <2> QED
    BY <2>3, <2>4, <2>6 DEF Adds
<1> QED
  BY <1>1

\* Every finite set has such a function: a smallest set without one could take
\* each sum from the function of a smaller set.
LEMMA AddsExists ==
  ASSUME NEW g, NEW S, IsFiniteSet(S)
  PROVE  \E it : Adds(it, g, S)
<1> DEFINE Bad == {t \in SUBSET S : ~ \E it : Adds(it, g, t)}
<1> SUFFICES ASSUME Bad # {} PROVE FALSE
  OBVIOUS
<1>1. Bad \in SUBSET SUBSET S
  OBVIOUS
<1> HIDE DEF Bad
<1>2. PICK t \in Bad : \A u \in Bad : u \subseteq t => u = t
  BY <1>1, SmallestSet
<1>3. t \in SUBSET S /\ ~ \E it : Adds(it, g, t)
  BY <1>2 DEF Bad
<1> DEFINE h(u) == CHOOSE it : Adds(it, g, u)
           less(s) == s \ {First(s)}
           it == [s \in SUBSET t |-> IF s = {} THEN 0 ELSE g[First(s)] + h(less(s))[less(s)]]
<1>4. ASSUME NEW u \in SUBSET t, u # t PROVE Adds(h(u), g, u)
  <2>1. \E j : Adds(j, g, u)
    BY <1>2, <1>3, <1>4 DEF Bad
  <2> QED
    BY <2>1
<1> HIDE DEF h
<1>5. ASSUME NEW s \in SUBSET t, s # {} PROVE less(s) \in SUBSET t /\ less(s) # t
  BY <1>5, FirstIn
<1>6. ASSUME NEW v \in SUBSET t, v # t PROVE it[v] = h(v)[v]
  <2>1. Adds(h(v), g, v)
    BY <1>4, <1>6
  <2>2. CASE v = {}
    BY <2>1, <2>2 DEF Adds
  <2>3. CASE v # {}
    <3>1. Adds(h(less(v)), g, less(v))
      BY <1>4, <1>5, <2>3
    <3>2. IsFiniteSet(v)
      BY <1>3, FS_Subset
    <3>3. h(v)[less(v)] = h(less(v))[less(v)]
      <4>1. less(v) \in SUBSET (v \cap less(v))
        OBVIOUS
      <4> HIDE DEF less
      <4> QED
        BY <2>1, <3>1, <3>2, <4>1, AddsUnique
    <3>4. h(v)[v] = g[First(v)] + h(v)[less(v)]
      BY <2>1, <2>3 DEF Adds
    <3> QED
      BY <2>3, <3>3, <3>4
  <2> QED
    BY <2>2, <2>3
<1>7. Adds(it, g, t)
  <2>1. \A s \in SUBSET t : s # {} => h(less(s))[less(s)] = it[less(s)]
    BY <1>5, <1>6
  <2>2. it = [s \in SUBSET t |-> IF s = {} THEN 0 ELSE g[First(s)] + it[less(s)]]
    <3> DEFINE e(s) == IF s = {} THEN 0 ELSE g[First(s)] + it[less(s)]
    <3>1. \A s \in SUBSET t : it[s] = e(s)
      BY <2>1
    <3> HIDE DEF e
    <3>2. it = [s \in SUBSET t |-> e(s)]
      BY <3>1
    <3> QED
      BY <3>2 DEF e
  <2> QED
    BY <2>2 DEF Adds
<1> QED
  BY <1>3, <1>7

\* The sum of a finite set: take any element that CHOOSE gives, and go on.
LEMMA SumUnfold ==
  ASSUME NEW g, NEW S, IsFiniteSet(S)
  PROVE  /\ SumFunctionOnSet(g, {}) = 0
         /\ S # {} => SumFunctionOnSet(g, S) = g[First(S)] + SumFunctionOnSet(g, S \ {First(S)})
<1> DEFINE h(U) == CHOOSE it : Adds(it, g, U)
<1>1. \A U : SumFunctionOnSet(g, U) = h(U)[U]
  BY DEF SumFunctionOnSet, FoldFunctionOnSet, MapThenFoldSet, Adds, First
<1>2. \A U : IsFiniteSet(U) => Adds(h(U), g, U)
  BY AddsExists
<1> HIDE DEF h
<1>3. SumFunctionOnSet(g, {}) = 0
  <2>1. Adds(h({}), g, {})
    BY <1>2, FS_EmptySet
  <2> QED
    BY <1>1, <2>1 DEF Adds
<1>4. ASSUME S # {} PROVE SumFunctionOnSet(g, S) = g[First(S)] + SumFunctionOnSet(g, S \ {First(S)})
  <2> DEFINE R == S \ {First(S)}
  <2>1. IsFiniteSet(R) /\ R \in SUBSET (S \cap R)
    BY FS_Subset
  <2>2. Adds(h(S), g, S) /\ Adds(h(R), g, R)
    BY <1>2, <2>1
  <2>3. h(S)[R] = h(R)[R]
    <3> HIDE DEF R
    <3> QED
      BY <2>1, <2>2, AddsUnique
  <2>4. h(S)[S] = g[First(S)] + h(S)[R]
    BY <1>4, <2>2 DEF Adds
  <2> QED
    BY <1>1, <2>3, <2>4
<1> QED
  BY <1>3, <1>4

\* Sums of integers are integers, and depend on the summands only.
LEMMA SumSame ==
  ASSUME NEW S, IsFiniteSet(S), NEW g, NEW h, \A x \in S : g[x] \in Int /\ h[x] = g[x]
  PROVE  SumFunctionOnSet(g, S) \in Int /\ SumFunctionOnSet(h, S) = SumFunctionOnSet(g, S)
<1> DEFINE Bad == {t \in SUBSET S : ~ /\ SumFunctionOnSet(g, t) \in Int
                                      /\ SumFunctionOnSet(h, t) = SumFunctionOnSet(g, t)}
<1>1. Bad = {}
  <2> SUFFICES ASSUME Bad # {} PROVE FALSE
    OBVIOUS
  <2>1. Bad \in SUBSET SUBSET S
    OBVIOUS
  <2> HIDE DEF Bad
  <2>2. PICK t \in Bad : \A u \in Bad : u \subseteq t => u = t
    BY <2>1, SmallestSet
  <2>3. /\ t \in SUBSET S /\ IsFiniteSet(t)
        /\ ~ /\ SumFunctionOnSet(g, t) \in Int
             /\ SumFunctionOnSet(h, t) = SumFunctionOnSet(g, t)
    BY <2>2, FS_Subset DEF Bad
  <2>4. t # {}
    <3>1. SumFunctionOnSet(g, {}) = 0 /\ SumFunctionOnSet(h, {}) = 0
      BY FS_EmptySet, SumUnfold
    <3> QED
      BY <2>3, <3>1
  <2>5. First(t) \in t
    BY <2>4, FirstIn
  <2>6. LET r == t \ {First(t)}
        IN  SumFunctionOnSet(g, r) \in Int /\ SumFunctionOnSet(h, r) = SumFunctionOnSet(g, r)
    BY <2>2, <2>3, <2>5 DEF Bad
  <2>7. /\ SumFunctionOnSet(g, t) = g[First(t)] + SumFunctionOnSet(g, t \ {First(t)})
        /\ SumFunctionOnSet(h, t) = h[First(t)] + SumFunctionOnSet(h, t \ {First(t)})
    BY <2>3, <2>4, SumUnfold
  <2> QED
    BY <2>3, <2>5, <2>6, <2>7
<1> QED
  BY <1>1

\* A sum of natural numbers is one.
LEMMA SumNat ==
  ASSUME NEW S, IsFiniteSet(S), NEW g, \A x \in S : g[x] \in Nat
  PROVE  SumFunctionOnSet(g, S) \in Nat
<1> DEFINE Bad == {t \in SUBSET S : SumFunctionOnSet(g, t) \notin Nat}
<1>1. Bad = {}
  <2> SUFFICES ASSUME Bad # {} PROVE FALSE
    OBVIOUS
  <2>1. Bad \in SUBSET SUBSET S
    OBVIOUS
  <2> HIDE DEF Bad
  <2>2. PICK t \in Bad : \A u \in Bad : u \subseteq t => u = t
    BY <2>1, SmallestSet
  <2>3. t \in SUBSET S /\ IsFiniteSet(t) /\ SumFunctionOnSet(g, t) \notin Nat
    BY <2>2, FS_Subset DEF Bad
  <2>4. t # {}
    <3>1. SumFunctionOnSet(g, {}) = 0
      BY FS_EmptySet, SumUnfold
    <3> QED
      BY <2>3, <3>1
  <2>5. PICK c \in t : c = First(t)
    BY <2>4, FirstIn
  <2>6. t \ {c} \subseteq t /\ t \ {c} # t /\ t \ {c} \in SUBSET S
    BY <2>3
  <2>7. SumFunctionOnSet(g, t \ {c}) \in Nat
    BY <2>2, <2>6 DEF Bad
  <2>8. SumFunctionOnSet(g, t) = g[c] + SumFunctionOnSet(g, t \ {c})
    BY <2>3, <2>4, <2>5, SumUnfold
  <2> QED
    BY <2>3, <2>7, <2>8
<1> QED
  BY <1>1

\* The order does not matter: any element may be the one that is added last.
LEMMA SumAdd ==
  ASSUME NEW S, IsFiniteSet(S), NEW g, \A x \in S : g[x] \in Int, NEW a \in S
  PROVE  SumFunctionOnSet(g, S) = SumFunctionOnSet(g, S \ {a}) + g[a]
<1> DEFINE Bad == {t \in SUBSET S :
                     \E b \in t : SumFunctionOnSet(g, t) # SumFunctionOnSet(g, t \ {b}) + g[b]}
<1>1. Bad = {}
  <2> SUFFICES ASSUME Bad # {} PROVE FALSE
    OBVIOUS
  <2>1. Bad \in SUBSET SUBSET S
    OBVIOUS
  <2> HIDE DEF Bad
  <2>2. PICK t \in Bad : \A u \in Bad : u \subseteq t => u = t
    BY <2>1, SmallestSet
  <2>3. t \in SUBSET S /\ IsFiniteSet(t)
    BY <2>2, FS_Subset DEF Bad
  <2>4. PICK b \in t : SumFunctionOnSet(g, t) # SumFunctionOnSet(g, t \ {b}) + g[b]
    BY <2>2 DEF Bad
  <2>5. First(t) \in t /\ SumFunctionOnSet(g, t) = g[First(t)] + SumFunctionOnSet(g, t \ {First(t)})
    BY <2>3, <2>4, FirstIn, SumUnfold
  <2>6. \A u \in SUBSET t : IsFiniteSet(u) /\ SumFunctionOnSet(g, u) \in Int
    BY <2>3, FS_Subset, SumSame
  <2>7. PICK c \in t : c = First(t)
    BY <2>5
  <2>8. g[b] \in Int /\ g[c] \in Int
    BY <2>3
  <2>9. /\ SumFunctionOnSet(g, t) = g[c] + SumFunctionOnSet(g, t \ {c})
        /\ SumFunctionOnSet(g, t \ {c}) \in Int
    BY <2>5, <2>6, <2>7
  <2>10. c # b
    <3>1. SumFunctionOnSet(g, t) = SumFunctionOnSet(g, t \ {c}) + g[c]
      BY <2>8, <2>9
    <3> QED
      BY <2>4, <3>1
  <2>11. ASSUME NEW d \in t, NEW e \in t \ {d}
         PROVE  SumFunctionOnSet(g, t \ {d}) = SumFunctionOnSet(g, (t \ {d}) \ {e}) + g[e]
    <3>1. t \ {d} \subseteq t /\ t \ {d} # t /\ t \ {d} \in SUBSET S
      BY <2>3
    <3>2. t \ {d} \notin Bad
      BY <2>2, <3>1
    <3> QED
      BY <3>1, <3>2 DEF Bad
  <2>12. PICK k \in Int : /\ SumFunctionOnSet(g, t \ {c}) = k + g[b]
                          /\ SumFunctionOnSet(g, t \ {b}) = k + g[c]
    <3>1. (t \ {c}) \ {b} = (t \ {b}) \ {c}
      OBVIOUS
    <3>2. SumFunctionOnSet(g, (t \ {c}) \ {b}) \in Int
      BY <2>6
    <3>3. SumFunctionOnSet(g, t \ {c}) = SumFunctionOnSet(g, (t \ {c}) \ {b}) + g[b]
      BY <2>10, <2>11
    <3>4. SumFunctionOnSet(g, t \ {b}) = SumFunctionOnSet(g, (t \ {c}) \ {b}) + g[c]
      BY <2>10, <2>11, <3>1
    <3> QED
      BY <3>2, <3>3, <3>4
  <2>13. SumFunctionOnSet(g, t) = g[c] + (k + g[b]) /\ SumFunctionOnSet(g, t) # (k + g[c]) + g[b]
    BY <2>4, <2>9, <2>12
  <2> QED
    BY <2>8, <2>12, <2>13
<1> QED
  BY <1>1

\* One summand changes.
LEMMA SumUpdate ==
  ASSUME NEW S, IsFiniteSet(S), NEW g, NEW h, NEW a \in S,
         \A x \in S : g[x] \in Int /\ h[x] \in Int,
         \A x \in S \ {a} : h[x] = g[x]
  PROVE  SumFunctionOnSet(h, S) = SumFunctionOnSet(g, S) + h[a] - g[a]
<1>1. /\ SumFunctionOnSet(g, S) = SumFunctionOnSet(g, S \ {a}) + g[a]
      /\ SumFunctionOnSet(h, S) = SumFunctionOnSet(h, S \ {a}) + h[a]
  BY SumAdd
<1>2. IsFiniteSet(S \ {a})
  BY FS_Subset
<1>3. /\ SumFunctionOnSet(h, S \ {a}) = SumFunctionOnSet(g, S \ {a})
      /\ SumFunctionOnSet(g, S \ {a}) \in Int
  BY <1>2, SumSame
<1> QED
  BY <1>1, <1>3

\* One element joins.
LEMMA SumJoin ==
  ASSUME NEW S, IsFiniteSet(S), NEW a, a \notin S, NEW T, T = S \cup {a}, NEW g, NEW h,
         \A x \in S : g[x] \in Int, \A x \in S : h[x] = g[x], h[a] \in Int
  PROVE  SumFunctionOnSet(h, T) = SumFunctionOnSet(g, S) + h[a]
<1>1. IsFiniteSet(T) /\ T \ {a} = S
  BY FS_AddElement
<1>2. SumFunctionOnSet(h, T) = SumFunctionOnSet(h, S) + h[a]
  BY <1>1, SumAdd
<1> QED
  BY <1>2, SumSame

\* A sum of nothing but zeros is zero.
LEMMA SumZero ==
  ASSUME NEW S, IsFiniteSet(S), NEW g, \A x \in S : g[x] = 0
  PROVE  SumFunctionOnSet(g, S) = 0
<1> DEFINE Bad == {t \in SUBSET S : SumFunctionOnSet(g, t) # 0}
<1>1. Bad = {}
  <2> SUFFICES ASSUME Bad # {} PROVE FALSE
    OBVIOUS
  <2>1. Bad \in SUBSET SUBSET S
    OBVIOUS
  <2> HIDE DEF Bad
  <2>2. PICK t \in Bad : \A u \in Bad : u \subseteq t => u = t
    BY <2>1, SmallestSet
  <2>3. t \in SUBSET S /\ IsFiniteSet(t) /\ SumFunctionOnSet(g, t) # 0
    BY <2>2, FS_Subset DEF Bad
  <2>4. PICK c \in t : SumFunctionOnSet(g, t) = g[c] + SumFunctionOnSet(g, t \ {c})
    BY <2>3, FirstIn, SumUnfold
  <2>5. SumFunctionOnSet(g, t \ {c}) = 0
    BY <2>2, <2>3, <2>4 DEF Bad
  <2> QED
    BY <2>3, <2>4, <2>5
<1> QED
  BY <1>1

\* More summands, none negative, sum up to no less.
LEMMA SumSubset ==
  ASSUME NEW T, IsFiniteSet(T), NEW S \in SUBSET T, NEW g, \A x \in T : g[x] \in Nat
  PROVE  SumFunctionOnSet(g, S) <= SumFunctionOnSet(g, T)
<1> DEFINE Bad == {t \in SUBSET T : ~(SumFunctionOnSet(g, S) <= SumFunctionOnSet(g, S \cup t))}
<1>1. \A u \in SUBSET T : IsFiniteSet(u) /\ SumFunctionOnSet(g, u) \in Nat
  BY FS_Subset, SumNat
<1>2. Bad = {}
  <2> SUFFICES ASSUME Bad # {} PROVE FALSE
    OBVIOUS
  <2>1. Bad \in SUBSET SUBSET T
    OBVIOUS
  <2> HIDE DEF Bad
  <2>2. PICK t \in Bad : \A u \in Bad : u \subseteq t => u = t
    BY <2>1, SmallestSet
  <2>3. t \in SUBSET T /\ ~(SumFunctionOnSet(g, S) <= SumFunctionOnSet(g, S \cup t))
    BY <2>2 DEF Bad
  <2>4. PICK a \in t : a \notin S
    <3>1. CASE t \subseteq S
      <4>1. S \cup t = S
        BY <3>1
      <4> QED
        BY <1>1, <2>3, <4>1
    <3> QED
      BY <3>1
  <2>5. /\ S \cup t \in SUBSET T /\ (S \cup t) \ {a} = S \cup (t \ {a})
        /\ S \cup (t \ {a}) \in SUBSET T /\ t \ {a} \in SUBSET T
    BY <2>3, <2>4
  <2>6. SumFunctionOnSet(g, S) <= SumFunctionOnSet(g, S \cup (t \ {a}))
    BY <2>2, <2>4, <2>5 DEF Bad
  <2>7. SumFunctionOnSet(g, S \cup t) = SumFunctionOnSet(g, S \cup (t \ {a})) + g[a]
    <3>1. IsFiniteSet(S \cup t) /\ \A x \in S \cup t : g[x] \in Int
      BY <1>1, <2>5
    <3> QED
      BY <2>4, <2>5, <3>1, SumAdd
  <2>8. g[a] \in Nat
    BY <2>3, <2>4
  <2> QED
    BY <1>1, <2>3, <2>5, <2>6, <2>7, <2>8
<1>3. T \notin Bad /\ S \cup T = T
  BY <1>2
<1> QED
  BY <1>3
=============================================================================
