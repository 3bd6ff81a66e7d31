---------------------------- MODULE SumTheorems ----------------------------
(***************************************************************************)
(* Sums over finite sets: what MapThenSumSet of the community modules      *)
(* computes, how a sum changes with its set and with its summands, and how *)
(* many members of a set come first in an order.                           *)
(* The balances of the wallets, the ledgers, the cap tables and the        *)
(* dividends are such sums, so their proofs rest on these facts.           *)
(*                                                                         *)
(* The induction is over subsets: a non-empty set of subsets of a finite   *)
(* set has a least one, because strict inclusion is well-founded.          *)
(***************************************************************************)
EXTENDS Integers, FiniteSets, FiniteSetsExt, FiniteSetTheorems, TLAPS

SumOver(f, S) == MapThenSumSet(LAMBDA x : f[x], S)

-----------------------------------------------------------------------------
(* The recursion behind the sum has a solution, and only one.              *)

First(s) == CHOOSE x \in s : TRUE
Rest(s) == s \ {First(s)}

SumBody(f, S, g) == [s \in SUBSET S |-> IF s = {} THEN 0 ELSE f[First(s)] + g[Rest(s)]]
SumsUp(f, S, g) == g = SumBody(f, S, g)

LEMMA SumByRecursion ==
  ASSUME NEW f, NEW S
  PROVE  SumOver(f, S) = (CHOOSE g : SumsUp(f, S, g))[S]
BY DEF SumOver, MapThenSumSet, MapThenFoldSet, SumsUp, SumBody, Rest, First

LEMMA LeastSubset ==
  ASSUME NEW S, IsFiniteSet(S), NEW T \in SUBSET (SUBSET S), T # {}
  PROVE  \E s \in T : \A t \in SUBSET s : t \in T => t = s
<1>1. FiniteSubsetsOf(S) = SUBSET S
  BY FS_Subset DEF FiniteSubsetsOf
<1>2. \E s \in T : \A t \in T : ~(<<t, s>> \in StrictSubsetOrdering(S))
  BY <1>1, FS_StrictSubsetOrderingWellFounded, WFMin
<1> QED
  BY <1>2 DEF StrictSubsetOrdering

LEMMA FirstIsIn ==
  ASSUME NEW s, s # {}
  PROVE  First(s) \in s /\ Rest(s) \in SUBSET s /\ Rest(s) # s
BY DEF First, Rest

LEMMA SumsUpAt ==
  ASSUME NEW f, NEW S, NEW g, SumsUp(f, S, g), NEW s \in SUBSET S
  PROVE  g[s] = IF s = {} THEN 0 ELSE f[First(s)] + g[Rest(s)]
BY DEF SumsUp, SumBody

LEMMA SolutionsAgree ==
  ASSUME NEW f, NEW S, NEW T, IsFiniteSet(S), NEW g, NEW h, SumsUp(f, S, g), SumsUp(f, T, h),
         NEW s \in SUBSET (S \cap T)
  PROVE  g[s] = h[s]
<1> DEFINE Bad == {t \in SUBSET (S \cap T) : g[t] # h[t]}
<1> SUFFICES ASSUME Bad # {} PROVE FALSE
  OBVIOUS
<1>1. Bad \in SUBSET (SUBSET S)
  OBVIOUS
<1>2. PICK t \in Bad : \A u \in SUBSET t : u \in Bad => u = t
  <2> HIDE DEF Bad
  <2> QED
    BY <1>1, LeastSubset
<1>3. t \in SUBSET S /\ t \in SUBSET T
  OBVIOUS
<1>4. CASE t = {}
  BY <1>3, <1>4, SumsUpAt
<1>5. CASE t # {}
  <2>1. Rest(t) \in SUBSET (S \cap T) /\ Rest(t) \notin Bad
    BY <1>2, <1>3, <1>5, FirstIsIn
  <2>2. g[Rest(t)] = h[Rest(t)]
    BY <2>1
  <2>3. g[t] = f[First(t)] + g[Rest(t)] /\ h[t] = f[First(t)] + h[Rest(t)]
    BY <1>3, <1>5, SumsUpAt
  <2> QED
    BY <2>2, <2>3
<1> QED
  BY <1>4, <1>5

LEMMA SolutionExists ==
  ASSUME NEW f, NEW S, IsFiniteSet(S)
  PROVE  \E g : SumsUp(f, S, g)
<1> DEFINE Bad == {s \in SUBSET S : ~ \E g : SumsUp(f, s, g)}
<1> SUFFICES ASSUME Bad # {} PROVE FALSE
  OBVIOUS
<1>1. Bad \in SUBSET (SUBSET S)
  OBVIOUS
<1>2. PICK s \in Bad : \A t \in SUBSET s : t \in Bad => t = s
  <2> HIDE DEF Bad
  <2> QED
    BY <1>1, LeastSubset
<1> DEFINE G(t) == CHOOSE g : SumsUp(f, t, g)
           h == [t \in SUBSET s |-> IF t = {} THEN 0 ELSE f[First(t)] + G(Rest(t))[Rest(t)]]
<1>3. ASSUME NEW t \in SUBSET s, t # s PROVE SumsUp(f, t, G(t)) /\ IsFiniteSet(t)
  <2>1. t \notin Bad /\ t \in SUBSET S
    BY <1>2, <1>3
  <2>2. \E g : SumsUp(f, t, g)
    BY <2>1
  <2> QED
    BY <2>1, <2>2, FS_Subset
<1>4. ASSUME NEW u \in SUBSET s, u # s PROVE h[u] = G(u)[u]
  <2>1. SumsUp(f, u, G(u)) /\ u \in SUBSET u
    BY <1>3, <1>4
  <2> HIDE DEF G
  <2>2. G(u)[u] = IF u = {} THEN 0 ELSE f[First(u)] + G(u)[Rest(u)]
    BY <2>1, SumsUpAt
  <2>3. CASE u = {}
    BY <2>2, <2>3
  <2>4. CASE u # {}
    <3>1. Rest(u) \in SUBSET s /\ Rest(u) # s /\ Rest(u) \in SUBSET (u \cap Rest(u))
      BY <1>4, <2>4, FirstIsIn
    <3>2. SumsUp(f, Rest(u), G(Rest(u))) /\ IsFiniteSet(u)
      BY <1>3, <1>4, <3>1
    <3>3. G(u)[Rest(u)] = G(Rest(u))[Rest(u)]
      BY <2>1, <3>1, <3>2, SolutionsAgree
    <3> QED
      BY <2>2, <2>4, <3>3
  <2> QED
    BY <2>3, <2>4
<1>5. SumsUp(f, s, h)
  <2> HIDE DEF G
  <2>1. ASSUME NEW t \in SUBSET s, t # {} PROVE h[Rest(t)] = G(Rest(t))[Rest(t)]
    <3>1. Rest(t) \in SUBSET s /\ Rest(t) # s
      BY <2>1, FirstIsIn
    <3> HIDE DEF h
    <3> QED
      BY <3>1, <1>4
  <2> DEFINE k == SumBody(f, s, h)
  <2>2. ASSUME NEW t \in SUBSET s PROVE h[t] = k[t]
    <3>1. k[t] = IF t = {} THEN 0 ELSE f[First(t)] + h[Rest(t)]
      BY DEF SumBody
    <3>2. h[t] = IF t = {} THEN 0 ELSE f[First(t)] + G(Rest(t))[Rest(t)]
      OBVIOUS
    <3> HIDE DEF h, k
    <3> QED
      BY <2>1, <3>1, <3>2
  <2>3. h = [t \in SUBSET s |-> h[t]] /\ k = [t \in SUBSET s |-> k[t]]
    BY DEF SumBody
  <2> HIDE DEF h
  <2>4. h = k
    <3> HIDE DEF k
    <3> QED
      BY <2>2, <2>3
  <2> QED
    BY <2>4 DEF SumsUp
<1> QED
  BY <1>2, <1>5

-----------------------------------------------------------------------------
(* The sum, element by element.                                            *)

LEMMA SumSolves ==
  ASSUME NEW f, NEW S, IsFiniteSet(S), NEW T \in SUBSET S, NEW g, SumsUp(f, S, g)
  PROVE  SumOver(f, T) = g[T]
<1>1. IsFiniteSet(T)
  BY FS_Subset
<1>2. PICK h : SumsUp(f, T, h) /\ SumOver(f, T) = h[T]
  BY <1>1, SolutionExists, SumByRecursion
<1>3. T \in SUBSET (T \cap S)
  OBVIOUS
<1>4. h[T] = g[T]
  BY <1>1, <1>2, <1>3, SolutionsAgree
<1> QED
  BY <1>2, <1>4

LEMMA SumRecursion ==
  ASSUME NEW f, NEW S, IsFiniteSet(S)
  PROVE  SumOver(f, S) = IF S = {} THEN 0 ELSE f[First(S)] + SumOver(f, Rest(S))
<1>1. PICK g : SumsUp(f, S, g)
  BY SolutionExists
<1>2. SumOver(f, S) = g[S]
  BY <1>1, SumSolves
<1>3. S # {} => SumOver(f, Rest(S)) = g[Rest(S)]
  BY <1>1, FirstIsIn, SumSolves
<1> QED
  BY <1>1, <1>2, <1>3, SumsUpAt

LEMMA SumEmpty == ASSUME NEW f PROVE SumOver(f, {}) = 0
BY SumRecursion, FS_EmptySet

\* A property of sums holds of a finite set if it holds of every one of its
\* subsets whose smaller subsets all have it; the proofs below look for a least
\* subset without the property.
LEMMA SumType ==
  ASSUME NEW f, NEW S, IsFiniteSet(S), \A x \in S : f[x] \in Int
  PROVE  SumOver(f, S) \in Int
<1> DEFINE Bad == {s \in SUBSET S : SumOver(f, s) \notin Int}
<1> SUFFICES ASSUME Bad # {} PROVE FALSE
  OBVIOUS
<1>1. PICK s \in Bad : \A t \in SUBSET s : t \in Bad => t = s
  <2>1. Bad \in SUBSET (SUBSET S)
    OBVIOUS
  <2> HIDE DEF Bad
  <2> QED
    BY <2>1, LeastSubset
<1>2. IsFiniteSet(s) /\ s \in SUBSET S
  BY FS_Subset
<1>3. s # {}
  BY SumEmpty
<1>4. First(s) \in S /\ Rest(s) \in SUBSET S /\ SumOver(f, Rest(s)) \in Int
  BY <1>1, <1>2, <1>3, FirstIsIn
<1>5. SumOver(f, s) = f[First(s)] + SumOver(f, Rest(s))
  BY <1>2, <1>3, SumRecursion
<1> QED
  BY <1>4, <1>5

LEMMA SumRemove ==
  ASSUME NEW f, NEW S, IsFiniteSet(S), \A y \in S : f[y] \in Int, NEW x \in S
  PROVE  SumOver(f, S) = f[x] + SumOver(f, S \ {x})
<1> DEFINE Splits(s, y) == SumOver(f, s) = f[y] + SumOver(f, s \ {y})
           Bad == {s \in SUBSET S : \E y \in s : ~Splits(s, y)}
<1> SUFFICES ASSUME Bad # {} PROVE FALSE
  OBVIOUS
<1>1. PICK s \in Bad : \A t \in SUBSET s : t \in Bad => t = s
  <2>1. Bad \in SUBSET (SUBSET S)
    OBVIOUS
  <2> HIDE DEF Bad
  <2> QED
    BY <2>1, LeastSubset
<1>2. PICK y \in s : ~Splits(s, y)
  BY <1>1
<1>3. PICK p : p = First(s)
  OBVIOUS
<1>4. /\ IsFiniteSet(s) /\ IsFiniteSet(s \ {y, p}) /\ s \in SUBSET S /\ p \in s
      /\ Splits(s, p)
  <2>1. p \in s /\ s \ {p} = Rest(s)
    BY <1>2, <1>3, FirstIsIn DEF Rest
  <2>2. IsFiniteSet(s)
    BY FS_Subset
  <2>3. Splits(s, p)
    BY <1>2, <1>3, <2>1, <2>2, SumRecursion
  <2> QED
    BY <2>1, <2>2, <2>3, FS_Subset
<1>5. p # y
  BY <1>2, <1>4
<1>6. Splits(s \ {p}, y) /\ Splits(s \ {y}, p)
  <2>1. /\ s \ {p} \in SUBSET s /\ s \ {p} # s /\ y \in s \ {p}
        /\ s \ {y} \in SUBSET s /\ s \ {y} # s /\ p \in s \ {y}
    BY <1>2, <1>4, <1>5
  <2>2. s \ {p} \notin Bad /\ s \ {y} \notin Bad
    BY <1>1, <2>1
  <2> QED
    BY <2>1, <2>2
<1>7. (s \ {p}) \ {y} = s \ {y, p} /\ (s \ {y}) \ {p} = s \ {y, p}
  OBVIOUS
<1>8. SumOver(f, s \ {y, p}) \in Int /\ f[y] \in Int /\ f[p] \in Int
  BY <1>2, <1>4, SumType
<1>9. /\ SumOver(f, s) = f[p] + (f[y] + SumOver(f, s \ {y, p}))
      /\ SumOver(f, s \ {y}) = f[p] + SumOver(f, s \ {y, p})
  BY <1>4, <1>6, <1>7
<1>10. SumOver(f, s) = f[y] + SumOver(f, s \ {y})
  BY <1>8, <1>9
<1> QED
  BY <1>2, <1>10

LEMMA SumAdd ==
  ASSUME NEW f, NEW S, IsFiniteSet(S), NEW x, x \notin S, \A y \in S \cup {x} : f[y] \in Int
  PROVE  SumOver(f, S \cup {x}) = f[x] + SumOver(f, S)
<1>1. IsFiniteSet(S \cup {x}) /\ (S \cup {x}) \ {x} = S
  BY FS_AddElement
<1> QED
  BY <1>1, SumRemove

\* Two functions that agree on the set have one sum.
LEMMA SumAgree ==
  ASSUME NEW f, NEW g, NEW S, IsFiniteSet(S), \A x \in S : f[x] = g[x]
  PROVE  SumOver(f, S) = SumOver(g, S)
<1> DEFINE Bad == {s \in SUBSET S : SumOver(f, s) # SumOver(g, s)}
<1> SUFFICES ASSUME Bad # {} PROVE FALSE
  OBVIOUS
<1>1. PICK s \in Bad : \A t \in SUBSET s : t \in Bad => t = s
  <2>1. Bad \in SUBSET (SUBSET S)
    OBVIOUS
  <2> HIDE DEF Bad
  <2> QED
    BY <2>1, LeastSubset
<1>2. IsFiniteSet(s) /\ s # {} /\ SumOver(f, s) # SumOver(g, s)
  BY SumEmpty, FS_Subset
<1>3. First(s) \in S /\ SumOver(f, Rest(s)) = SumOver(g, Rest(s))
  BY <1>1, <1>2, FirstIsIn
<1> QED
  BY <1>2, <1>3, SumRecursion

\* The sum after one summand changed.
LEMMA SumChange ==
  ASSUME NEW f, NEW g, NEW S, IsFiniteSet(S), NEW x \in S,
         \A y \in S : f[y] \in Int /\ g[y] \in Int,
         \A y \in S \ {x} : g[y] = f[y]
  PROVE  SumOver(g, S) = SumOver(f, S) - f[x] + g[x]
<1>1. IsFiniteSet(S \ {x})
  BY FS_Subset
<1>2. SumOver(g, S \ {x}) = SumOver(f, S \ {x}) /\ SumOver(f, S \ {x}) \in Int
  BY <1>1, SumAgree, SumType
<1>3. /\ SumOver(f, S) = f[x] + SumOver(f, S \ {x})
      /\ SumOver(g, S) = g[x] + SumOver(g, S \ {x})
  BY SumRemove
<1>4. f[x] \in Int /\ g[x] \in Int
  OBVIOUS
<1> QED
  BY <1>2, <1>3, <1>4

\* Greater summands have a greater sum, and a larger set too if what it adds is
\* not negative.
LEMMA SumGrows ==
  ASSUME NEW f, NEW g, NEW S, IsFiniteSet(S),
         \A x \in S : f[x] \in Int /\ g[x] \in Int /\ f[x] <= g[x]
  PROVE  SumOver(f, S) <= SumOver(g, S)
<1> DEFINE Bad == {s \in SUBSET S : ~(SumOver(f, s) <= SumOver(g, s))}
<1> SUFFICES ASSUME Bad # {} PROVE FALSE
  OBVIOUS
<1>1. PICK s \in Bad : \A t \in SUBSET s : t \in Bad => t = s
  <2>1. Bad \in SUBSET (SUBSET S)
    OBVIOUS
  <2> HIDE DEF Bad
  <2> QED
    BY <2>1, LeastSubset
<1>2. IsFiniteSet(s) /\ s # {} /\ ~(SumOver(f, s) <= SumOver(g, s))
  <2>1. SumOver(f, {}) = 0 /\ SumOver(g, {}) = 0
    BY SumEmpty
  <2>2. s # {}
    BY <2>1
  <2> QED
    BY <2>2, FS_Subset
<1>3. /\ First(s) \in S /\ Rest(s) \in SUBSET S /\ IsFiniteSet(Rest(s))
      /\ SumOver(f, Rest(s)) <= SumOver(g, Rest(s))
  BY <1>1, <1>2, FirstIsIn, FS_Subset
<1>4. SumOver(f, Rest(s)) \in Int /\ SumOver(g, Rest(s)) \in Int
  BY <1>3, SumType
<1>5. /\ SumOver(f, s) = f[First(s)] + SumOver(f, Rest(s))
      /\ SumOver(g, s) = g[First(s)] + SumOver(g, Rest(s))
  BY <1>2, SumRecursion
<1>6. f[First(s)] \in Int /\ g[First(s)] \in Int /\ f[First(s)] <= g[First(s)]
  BY <1>3
<1> QED
  BY <1>2, <1>3, <1>4, <1>5, <1>6

\* The sum of sums is the sum of the summands' sums.
LEMMA SumPlus ==
  ASSUME NEW f, NEW g, NEW h, NEW S, IsFiniteSet(S),
         \A x \in S : f[x] \in Int /\ g[x] \in Int /\ h[x] = f[x] + g[x]
  PROVE  SumOver(h, S) = SumOver(f, S) + SumOver(g, S)
<1> DEFINE Bad == {s \in SUBSET S : SumOver(h, s) # SumOver(f, s) + SumOver(g, s)}
<1> SUFFICES ASSUME Bad # {} PROVE FALSE
  OBVIOUS
<1>1. PICK s \in Bad : \A t \in SUBSET s : t \in Bad => t = s
  <2>1. Bad \in SUBSET (SUBSET S)
    OBVIOUS
  <2> HIDE DEF Bad
  <2> QED
    BY <2>1, LeastSubset
<1>2. IsFiniteSet(s) /\ s # {} /\ SumOver(h, s) # SumOver(f, s) + SumOver(g, s)
  <2>1. SumOver(f, {}) = 0 /\ SumOver(g, {}) = 0 /\ SumOver(h, {}) = 0
    BY SumEmpty
  <2>2. s \in SUBSET S /\ SumOver(h, s) # SumOver(f, s) + SumOver(g, s)
    OBVIOUS
  <2>3. s # {}
    BY <2>1, <2>2
  <2> QED
    BY <2>2, <2>3, FS_Subset
<1>3. /\ First(s) \in S /\ Rest(s) \in SUBSET S /\ IsFiniteSet(Rest(s))
      /\ SumOver(h, Rest(s)) = SumOver(f, Rest(s)) + SumOver(g, Rest(s))
  BY <1>1, <1>2, FirstIsIn, FS_Subset
<1>4. SumOver(f, Rest(s)) \in Int /\ SumOver(g, Rest(s)) \in Int
  BY <1>3, SumType
<1>5. /\ SumOver(f, s) = f[First(s)] + SumOver(f, Rest(s))
      /\ SumOver(g, s) = g[First(s)] + SumOver(g, Rest(s))
      /\ SumOver(h, s) = h[First(s)] + SumOver(h, Rest(s))
  BY <1>2, SumRecursion
<1>6. /\ f[First(s)] \in Int /\ g[First(s)] \in Int
      /\ h[First(s)] = f[First(s)] + g[First(s)]
  BY <1>3
<1> QED
  BY <1>2, <1>3, <1>4, <1>5, <1>6

LEMMA SumZero ==
  ASSUME NEW f, NEW S, IsFiniteSet(S), \A x \in S : f[x] = 0
  PROVE  SumOver(f, S) = 0
<1> DEFINE Bad == {s \in SUBSET S : SumOver(f, s) # 0}
<1> SUFFICES ASSUME Bad # {} PROVE FALSE
  OBVIOUS
<1>1. PICK s \in Bad : \A t \in SUBSET s : t \in Bad => t = s
  <2>1. Bad \in SUBSET (SUBSET S)
    OBVIOUS
  <2> HIDE DEF Bad
  <2> QED
    BY <2>1, LeastSubset
<1>2. IsFiniteSet(s) /\ s # {} /\ SumOver(f, s) # 0
  BY SumEmpty, FS_Subset
<1>3. f[First(s)] = 0 /\ SumOver(f, Rest(s)) = 0
  BY <1>1, <1>2, FirstIsIn
<1>4. SumOver(f, s) = f[First(s)] + SumOver(f, Rest(s))
  BY <1>2, SumRecursion
<1> QED
  BY <1>2, <1>3, <1>4

LEMMA SumNatural ==
  ASSUME NEW f, NEW S, IsFiniteSet(S), \A x \in S : f[x] \in Nat
  PROVE  SumOver(f, S) \in Nat
<1> DEFINE z == [x \in S |-> 0]
<1>1. SumOver(z, S) = 0
  BY SumZero
<1>2. SumOver(z, S) <= SumOver(f, S)
  BY SumGrows
<1>3. SumOver(f, S) \in Int
  BY SumType
<1> HIDE DEF z
<1> QED
  BY <1>1, <1>2, <1>3

\* Of naturals every summand is at most the sum.
LEMMA SumAtLeast ==
  ASSUME NEW f, NEW S, IsFiniteSet(S), \A x \in S : f[x] \in Nat, NEW x \in S
  PROVE  f[x] <= SumOver(f, S)
<1>1. IsFiniteSet(S \ {x})
  BY FS_Subset
<1>2. SumOver(f, S \ {x}) \in Nat
  BY <1>1, SumNatural
<1>3. SumOver(f, S) = f[x] + SumOver(f, S \ {x})
  BY SumRemove
<1> QED
  BY <1>2, <1>3

\* The sum over two disjoint sets, over a part, and over the elements that a
\* condition selects.
LEMMA SumUnion ==
  ASSUME NEW f, NEW S, NEW T, IsFiniteSet(S), IsFiniteSet(T), S \cap T = {},
         \A x \in S \cup T : f[x] \in Int
  PROVE  SumOver(f, S \cup T) = SumOver(f, S) + SumOver(f, T)
<1> DEFINE Bad == {t \in SUBSET T : SumOver(f, S \cup t) # SumOver(f, S) + SumOver(f, t)}
<1> SUFFICES ASSUME Bad # {} PROVE FALSE
  OBVIOUS
<1>1. PICK t \in Bad : \A u \in SUBSET t : u \in Bad => u = t
  <2>1. Bad \in SUBSET (SUBSET T)
    OBVIOUS
  <2> HIDE DEF Bad
  <2> QED
    BY <2>1, LeastSubset
<1>2. IsFiniteSet(t) /\ SumOver(f, S) \in Int
  BY FS_Subset, SumType
<1>3. t # {}
  <2>1. SumOver(f, {}) = 0 /\ S \cup {} = S
    BY SumEmpty
  <2> QED
    BY <1>2, <2>1
<1>4. PICK x \in t : TRUE
  BY <1>3
<1> DEFINE u == t \ {x}
<1>5. u \in SUBSET t /\ u # t /\ u \in SUBSET T /\ IsFiniteSet(u) /\ IsFiniteSet(S \cup t)
  BY <1>2, <1>4, FS_Subset, FS_Union
<1>6. SumOver(f, S \cup u) = SumOver(f, S) + SumOver(f, u)
  BY <1>1, <1>5
<1>7. SumOver(f, t) = f[x] + SumOver(f, u)
  BY <1>2, <1>4, SumRemove
<1>8. SumOver(f, S \cup t) = f[x] + SumOver(f, S \cup u)
  <2>1. (S \cup t) \ {x} = S \cup u
    BY <1>4
  <2>2. x \in S \cup t /\ \A y \in S \cup t : f[y] \in Int
    OBVIOUS
  <2> QED
    BY <1>5, <2>1, <2>2, SumRemove
<1>9. SumOver(f, u) \in Int /\ f[x] \in Int
  BY <1>5, SumType
<1> HIDE DEF u
<1>10. SumOver(f, S \cup t) = SumOver(f, S) + SumOver(f, t)
  BY <1>2, <1>6, <1>7, <1>8, <1>9
<1> QED
  BY <1>10

LEMMA SumPart ==
  ASSUME NEW f, NEW S, IsFiniteSet(S), \A x \in S : f[x] \in Nat, NEW T \in SUBSET S
  PROVE  SumOver(f, T) <= SumOver(f, S)
<1>1. IsFiniteSet(T) /\ IsFiniteSet(S \ T)
  BY FS_Subset
<1>2. SumOver(f, T) \in Nat /\ SumOver(f, S \ T) \in Nat
  BY <1>1, SumNatural
<1>3. T \cup (S \ T) = S /\ T \cap (S \ T) = {}
  OBVIOUS
<1>4. SumOver(f, S) = SumOver(f, T) + SumOver(f, S \ T)
  BY <1>1, <1>3, SumUnion
<1> QED
  BY <1>2, <1>4

LEMMA SumSelected ==
  ASSUME NEW f, NEW g, NEW S, IsFiniteSet(S), NEW T \in SUBSET S,
         \A x \in T : f[x] \in Int /\ g[x] = f[x],
         \A x \in S \ T : g[x] = 0
  PROVE  SumOver(g, S) = SumOver(f, T)
<1>1. IsFiniteSet(T) /\ IsFiniteSet(S \ T)
  BY FS_Subset
<1>2. SumOver(g, T) = SumOver(f, T) /\ SumOver(g, T) \in Int /\ SumOver(g, S \ T) = 0
  BY <1>1, SumAgree, SumZero, SumType
<1>3. T \cup (S \ T) = S /\ T \cap (S \ T) = {} /\ \A x \in S : g[x] \in Int
  OBVIOUS
<1>4. SumOver(g, S) = SumOver(g, T) + SumOver(g, S \ T)
  BY <1>1, <1>3, SumUnion
<1> QED
  BY <1>2, <1>4

-----------------------------------------------------------------------------
(* Ranks in a finite linear order: before[x] is what comes before x.       *)

Orders(before, S) ==
  /\ \A x, y \in S : x # y => (x \in before[y] <=> y \notin before[x])
  /\ \A x, y \in S : x \in before[y] => \A z \in S : z \in before[x] => z \in before[y]
  /\ \A x \in S : x \notin before[x]

LEMMA LastExists ==
  ASSUME NEW S, IsFiniteSet(S), S # {}, NEW before, Orders(before, S)
  PROVE  \E m \in S : S \cap before[m] = S \ {m}
<1> DEFINE Rests == {S \ before[x] : x \in S}
<1>1. Rests \in SUBSET (SUBSET S) /\ Rests # {}
  OBVIOUS
<1>2. PICK r \in Rests : \A t \in SUBSET r : t \in Rests => t = r
  <2> HIDE DEF Rests
  <2> QED
    BY <1>1, LeastSubset
<1>3. PICK m \in S : r = S \ before[m]
  OBVIOUS
<1>4. ASSUME NEW x \in S, x # m, x \notin before[m] PROVE FALSE
  <2>1. m \in before[x] /\ m \notin before[m]
    BY <1>4 DEF Orders
  <2>2. S \ before[x] \in SUBSET (S \ before[m])
    BY <2>1 DEF Orders
  <2>3. S \ before[x] \in Rests
    OBVIOUS
  <2>4. S \ before[x] = S \ before[m]
    BY <1>2, <1>3, <2>2, <2>3
  <2> QED
    BY <2>1, <2>4
<1>5. m \notin before[m]
  BY DEF Orders
<1> QED
  BY <1>4, <1>5

\* As many elements as n come before fewer than n others.
Leading(before, S, n) == {x \in S : Cardinality(S \cap before[x]) < n}

LEMMA LeadersAreCounted ==
  ASSUME NEW S, IsFiniteSet(S), NEW before, Orders(before, S), NEW n \in 0 .. Cardinality(S)
  PROVE  Cardinality(Leading(before, S, n)) = n
<1> DEFINE Bad == {s \in SUBSET S : \E k \in 0 .. Cardinality(s) :
                      Cardinality(Leading(before, s, k)) # k}
<1> SUFFICES ASSUME Bad # {} PROVE FALSE
  OBVIOUS
<1>1. PICK s \in Bad : \A t \in SUBSET s : t \in Bad => t = s
  <2>1. Bad \in SUBSET (SUBSET S)
    OBVIOUS
  <2> HIDE DEF Bad
  <2> QED
    BY <2>1, LeastSubset
<1>2. PICK k \in 0 .. Cardinality(s) : Cardinality(Leading(before, s, k)) # k
  OBVIOUS
<1>3. IsFiniteSet(s) /\ Cardinality(s) \in Nat /\ s \in SUBSET S
  BY FS_Subset, FS_CardinalityType
<1>4. s # {}
  <2> SUFFICES ASSUME s = {} PROVE FALSE
    OBVIOUS
  <2>1. k = 0 /\ Leading(before, s, k) = {}
    BY FS_EmptySet DEF Leading
  <2> QED
    BY <1>2, <2>1, FS_EmptySet
<1>5. Orders(before, s)
  BY <1>3 DEF Orders
<1>6. PICK m \in s : s \cap before[m] = s \ {m}
  BY <1>3, <1>4, <1>5, LastExists
<1> DEFINE t == s \ {m}
<1>7. IsFiniteSet(t) /\ Cardinality(t) = Cardinality(s) - 1 /\ t \in SUBSET S
  BY <1>3, FS_RemoveElement
<1>8. \A x \in t : s \cap before[x] = t \cap before[x]
  <2> SUFFICES ASSUME NEW x \in t PROVE m \notin before[x]
    OBVIOUS
  <2>1. x \in before[m]
    BY <1>6
  <2> QED
    BY <1>5, <2>1 DEF Orders
<1>9. t \notin Bad
  BY <1>1
<1>10. ASSUME k <= Cardinality(t) PROVE FALSE
  <2>1. Leading(before, s, k) = Leading(before, t, k)
    <3>1. ~(Cardinality(s \cap before[m]) < k)
      BY <1>3, <1>6, <1>7, <1>10
    <3> HIDE DEF t
    <3>2. s = t \cup {m} /\ m \notin t
      BY DEF t
    <3> QED
      BY <1>8, <3>1, <3>2 DEF Leading
  <2>2. k \in 0 .. Cardinality(t)
    BY <1>3, <1>7, <1>10
  <2> QED
    BY <1>2, <1>7, <1>9, <2>1, <2>2
<1>11. ASSUME k = Cardinality(s) PROVE FALSE
  <2>1. ASSUME NEW x \in s PROVE Cardinality(s \cap before[x]) < k
    <3>1. s \cap before[x] \in SUBSET (s \ {x})
      BY <1>5 DEF Orders
    <3>2. IsFiniteSet(s \ {x}) /\ Cardinality(s \ {x}) = Cardinality(s) - 1
      BY <1>3, FS_RemoveElement
    <3>3. IsFiniteSet(s \cap before[x]) /\ Cardinality(s \cap before[x]) <= Cardinality(s) - 1
      BY <3>1, <3>2, FS_Subset
    <3>4. Cardinality(s \cap before[x]) \in Nat
      BY <3>3, FS_CardinalityType
    <3> QED
      BY <1>3, <1>11, <3>3, <3>4
  <2>2. Leading(before, s, k) = s
    BY <2>1 DEF Leading
  <2> QED
    BY <1>2, <1>11, <2>2
<1> QED
  BY <1>3, <1>7, <1>10, <1>11

-----------------------------------------------------------------------------
(* Multiples and counts.                                                   *)

LEMMA SumScale ==
  ASSUME NEW f, NEW g, NEW S, IsFiniteSet(S), NEW c \in Int,
         \A x \in S : f[x] \in Int /\ g[x] = c * f[x]
  PROVE  SumOver(g, S) = c * SumOver(f, S)
<1> DEFINE Bad == {s \in SUBSET S : SumOver(g, s) # c * SumOver(f, s)}
<1> SUFFICES ASSUME Bad # {} PROVE FALSE
  OBVIOUS
<1>1. PICK s \in Bad : \A t \in SUBSET s : t \in Bad => t = s
  <2>1. Bad \in SUBSET (SUBSET S)
    OBVIOUS
  <2> HIDE DEF Bad
  <2> QED
    BY <2>1, LeastSubset
<1>2. IsFiniteSet(s) /\ s \in SUBSET S
  BY FS_Subset
<1>3. s # {}
  <2>1. SumOver(g, {}) = 0 /\ SumOver(f, {}) = 0 /\ c * 0 = 0
    BY SumEmpty
  <2> QED
    BY <2>1
<1>4. PICK x \in s : TRUE
  BY <1>3
<1> DEFINE t == s \ {x}
<1>5. IsFiniteSet(t) /\ t \in SUBSET S
  BY <1>2, FS_RemoveElement
<1>6. SumOver(g, t) = c * SumOver(f, t)
  BY <1>1, <1>5
<1>7. \A y \in s : f[y] \in Int /\ g[y] = c * f[y] /\ g[y] \in Int
  BY <1>2
<1>8. SumOver(f, s) = f[x] + SumOver(f, t) /\ SumOver(g, s) = g[x] + SumOver(g, t)
  BY <1>2, <1>7, SumRemove
<1>9. SumOver(f, t) \in Int
  BY <1>5, <1>7, SumType
<1>10. \A a, b \in Int : c * (a + b) = c * a + c * b
  OBVIOUS
<1> HIDE DEF t
<1>11. c * SumOver(f, s) = c * f[x] + c * SumOver(f, t)
  BY <1>7, <1>8, <1>9, <1>10
<1> QED
  BY <1>6, <1>7, <1>8, <1>11

LEMMA SumCounts ==
  ASSUME NEW S, IsFiniteSet(S), NEW T \in SUBSET S, NEW d \in Int
  PROVE  SumOver([x \in S |-> IF x \in T THEN d ELSE 0], S) = d * Cardinality(T)
<1> DEFINE Bad == {t \in SUBSET T : SumOver([x \in S |-> IF x \in t THEN d ELSE 0], S)
                                       # d * Cardinality(t)}
<1>0. IsFiniteSet(T)
  BY FS_Subset
<1> SUFFICES ASSUME Bad # {} PROVE FALSE
  OBVIOUS
<1>1. PICK s \in Bad : \A t \in SUBSET s : t \in Bad => t = s
  <2>1. Bad \in SUBSET (SUBSET T)
    OBVIOUS
  <2> HIDE DEF Bad
  <2> QED
    BY <1>0, <2>1, LeastSubset
<1>2. IsFiniteSet(s) /\ s \in SUBSET S
  BY <1>0, FS_Subset
<1>3. s # {}
  <2> SUFFICES ASSUME s = {} PROVE FALSE
    OBVIOUS
  <2>1. PICK f : f = [x \in S |-> IF x \in s THEN d ELSE 0]
    OBVIOUS
  <2>2. SumOver(f, S) = 0
    BY <2>1, SumZero
  <2> QED
    BY <2>1, <2>2, FS_EmptySet
<1>4. PICK x \in s : TRUE
  BY <1>3
<1>5. PICK t : t = s \ {x}
  OBVIOUS
<1>6. IsFiniteSet(t) /\ t \in SUBSET T /\ Cardinality(s) = Cardinality(t) + 1
      /\ Cardinality(t) \in Nat
  <2>1. IsFiniteSet(t) /\ Cardinality(t) = Cardinality(s) - 1
    BY <1>2, <1>4, <1>5, FS_RemoveElement
  <2>2. Cardinality(s) \in Nat /\ Cardinality(t) \in Nat
    BY <1>2, <2>1, FS_CardinalityType
  <2> QED
    BY <1>2, <1>5, <2>1, <2>2
<1>7. PICK f : f = [y \in S |-> IF y \in t THEN d ELSE 0]
  OBVIOUS
<1>8. PICK g : g = [y \in S |-> IF y \in s THEN d ELSE 0]
  OBVIOUS
<1>9. SumOver(f, S) = d * Cardinality(t)
  BY <1>1, <1>5, <1>6, <1>7
<1>10. x \in S /\ f[x] = 0 /\ g[x] = d
  BY <1>2, <1>5, <1>7, <1>8
<1>11. \A y \in S : f[y] \in Int /\ g[y] \in Int
  BY <1>7, <1>8
<1>12. \A y \in S \ {x} : g[y] = f[y]
  BY <1>5, <1>7, <1>8
<1>13. SumOver(g, S) = SumOver(f, S) - f[x] + g[x]
  BY <1>10, <1>11, <1>12, SumChange
<1>14. SumOver(f, S) \in Int
  BY <1>11, SumType
<1>15. d * (Cardinality(t) + 1) = d * Cardinality(t) + d
  BY <1>6
<1>16. SumOver(g, S) = d * Cardinality(s)
  BY <1>6, <1>9, <1>10, <1>13, <1>14, <1>15
<1> QED
  BY <1>8, <1>16
=============================================================================
