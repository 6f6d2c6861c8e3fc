------------------------------- MODULE SumFacts -------------------------------
(***************************************************************************)
(* Sums of the values of a function over a finite set, as the fee models   *)
(* use them: SQL's SUM over the rows a query selects.  The library defines *)
(* a sum by recursion over the set; these lemmas state once what the fee   *)
(* proofs need of it: the empty sum, one term split off, one term changed, *)
(* bounds, pointwise sums, and sums over a part of the set.                *)
(***************************************************************************)
EXTENDS Functions, FiniteSetTheorems, TLAPS

\* The element the recursion takes out of a set first, and the recursion itself.
LOCAL First(s) == CHOOSE x \in s : TRUE
LOCAL SumsUp(f, g, S) ==
  g = [s \in SUBSET S |-> IF s = {} THEN 0 ELSE f[First(s)] + g[s \ {First(s)}]]

\* Of the subsets of a finite set that have a property, one is minimal.
LEMMA MinimalSubset ==
  ASSUME NEW S, IsFiniteSet(S), NEW P \in SUBSET SUBSET S, P # {}
  PROVE  \E T \in P : \A U \in SUBSET T : U # T => U \notin P
<1>1. IsWellFoundedOn(StrictSubsetOrdering(S), SUBSET S)
  BY FS_StrictSubsetOrderingWellFounded, FS_FiniteSubsetsOfFinite
<1>2. PICK T \in P : \A U \in P : <<U, T>> \notin StrictSubsetOrdering(S)
  BY <1>1, WFMin
<1>3. ASSUME NEW U \in SUBSET T, U # T PROVE U \notin P
  BY <1>2, <1>3 DEF StrictSubsetOrdering
<1> QED BY <1>3

\* The library's sum is the value of the recursion at the whole set.
LEMMA SumIsRecursion ==
  ASSUME NEW f, NEW S
  PROVE  SumFunctionOnSet(f, S) = (CHOOSE g : SumsUp(f, g, S))[S]
BY DEF SumFunctionOnSet, FoldFunctionOnSet, MapThenFoldSet, SumsUp, First

\* The recursion has exactly one solution on a finite set.
LEMMA RestrictedSum ==
  ASSUME NEW f, NEW S, NEW T \in SUBSET S, NEW g, SumsUp(f, g, S)
  PROVE  SumsUp(f, [s \in SUBSET T |-> g[s]], T)
<1> DEFINE h == [s \in SUBSET T |-> g[s]]
<1>1. ASSUME NEW s \in SUBSET T
      PROVE  h[s] = IF s = {} THEN 0 ELSE f[First(s)] + h[s \ {First(s)}]
  <2>1. s \in SUBSET S /\ s \ {First(s)} \in SUBSET T
    OBVIOUS
  <2>2. g[s] = IF s = {} THEN 0 ELSE f[First(s)] + g[s \ {First(s)}]
    BY <2>1 DEF SumsUp
  <2> QED BY <2>1, <2>2
<1> QED BY <1>1 DEF SumsUp

\* Two functions that satisfy the recursion agree,
LEMMA SumUnique ==
  ASSUME NEW f, NEW S, IsFiniteSet(S), NEW g, NEW h, SumsUp(f, g, S), SumsUp(f, h, S)
  PROVE  g = h
<1> DEFINE P == {T \in SUBSET S : g[T] # h[T]}
<1>1. P = {}
  <2> SUFFICES ASSUME P # {} PROVE FALSE
    OBVIOUS
  <2>1. PICK T \in P : \A U \in SUBSET T : U # T => U \notin P
    <3>1. P \in SUBSET SUBSET S
      OBVIOUS
    <3> HIDE DEF P
    <3> QED BY <3>1, MinimalSubset
  <2>2. /\ g[T] = IF T = {} THEN 0 ELSE f[First(T)] + g[T \ {First(T)}]
        /\ h[T] = IF T = {} THEN 0 ELSE f[First(T)] + h[T \ {First(T)}]
    BY DEF SumsUp
  <2>3. T # {} => First(T) \in T
    BY DEF First
  <2>4. T # {} => g[T \ {First(T)}] = h[T \ {First(T)}]
    BY <2>1, <2>3
  <2> QED BY <2>2, <2>4
<1>2. DOMAIN g = SUBSET S /\ DOMAIN h = SUBSET S
  BY DEF SumsUp
<1>3. g = [s \in SUBSET S |-> g[s]] /\ h = [s \in SUBSET S |-> h[s]]
  BY DEF SumsUp
<1> QED BY <1>1, <1>2, <1>3

\* and one does.
LEMMA SumExists ==
  ASSUME NEW f, NEW S, IsFiniteSet(S)
  PROVE  \E g : SumsUp(f, g, S)
<1> DEFINE P == {T \in SUBSET S : ~\E g : SumsUp(f, g, T)}
<1> SUFFICES ASSUME P # {} PROVE FALSE
  OBVIOUS
<1>1. PICK T \in P : \A U \in SUBSET T : U # T => U \notin P
  <2>1. P \in SUBSET SUBSET S
    OBVIOUS
  <2> HIDE DEF P
  <2> QED BY <2>1, MinimalSubset
<1> DEFINE sol(U) == CHOOSE g : SumsUp(f, g, U)
           val(U) == sol(U)[U]
           rest(U) == U \ {First(U)}
           h == [s \in SUBSET T |-> IF s = {} THEN 0 ELSE f[First(s)] + val(rest(s))]
<1>2. ASSUME NEW U \in SUBSET T, U # T PROVE SumsUp(f, sol(U), U)
  BY <1>1, <1>2
<1>3. ASSUME NEW U \in SUBSET T, U # {} PROVE rest(U) \in SUBSET T /\ rest(U) # T /\ rest(U) # U
  BY <1>3 DEF First
<1>4. ASSUME NEW U \in SUBSET T, U # T
      PROVE  val(U) = IF U = {} THEN 0 ELSE f[First(U)] + val(rest(U))
  <2>1. SumsUp(f, sol(U), U)
    BY <1>2, <1>4
  <2>2. sol(U)[U] = IF U = {} THEN 0 ELSE f[First(U)] + sol(U)[rest(U)]
    BY <2>1 DEF SumsUp
  <2>3. ASSUME U # {} PROVE sol(U)[rest(U)] = val(rest(U))
    <3> DEFINE cut == [s \in SUBSET rest(U) |-> sol(U)[s]]
    <3>1. SumsUp(f, cut, rest(U))
      BY <2>1, RestrictedSum
    <3>2. SumsUp(f, sol(rest(U)), rest(U))
      BY <1>2, <1>3, <2>3
    <3>3. IsFiniteSet(rest(U))
      BY FS_Subset
    <3>4. cut = sol(rest(U))
      BY <3>1, <3>2, <3>3, SumUnique
    <3> QED BY <3>4
  <2> QED BY <2>2, <2>3
<1>5. ASSUME NEW s \in SUBSET T
      PROVE  h[s] = IF s = {} THEN 0 ELSE f[First(s)] + h[rest(s)]
  <2>1. CASE s = {}
    BY <2>1
  <2>2. CASE s # {}
    <3>1. h[rest(s)] = val(rest(s))
      BY <1>3, <1>4, <2>2
    <3> QED BY <2>2, <3>1
  <2> QED BY <2>1, <2>2
<1> HIDE DEF rest, val
<1>6. SumsUp(f, h, T)
  <2>1. h = [s \in SUBSET T |->
               IF s = {} THEN 0 ELSE f[First(s)] + h[s \ {First(s)}]]
    BY <1>5 DEF rest
  <2> QED BY <2>1 DEF SumsUp
<1>7. T \in P
  OBVIOUS
<1> QED BY <1>6, <1>7

-----------------------------------------------------------------------------
\* The sum over no row is zero, and over any others it is one row's value plus the rest.
LEMMA SumRecursion ==
  ASSUME NEW f, NEW S, IsFiniteSet(S)
  PROVE  SumFunctionOnSet(f, S) =
           IF S = {} THEN 0 ELSE f[First(S)] + SumFunctionOnSet(f, S \ {First(S)})
<1> DEFINE sol(U) == CHOOSE g : SumsUp(f, g, U)
           rest == S \ {First(S)}
           cut == [s \in SUBSET rest |-> sol(S)[s]]
<1>1. SumsUp(f, sol(S), S)
  BY SumExists
<1>2. sol(S)[S] = IF S = {} THEN 0 ELSE f[First(S)] + sol(S)[rest]
  BY <1>1 DEF SumsUp
<1>3. SumsUp(f, cut, rest)
  BY <1>1, RestrictedSum
<1>4. IsFiniteSet(rest)
  BY FS_Subset
<1>5. SumsUp(f, sol(rest), rest)
  BY <1>4, SumExists
<1>6. cut = sol(rest)
  BY <1>3, <1>4, <1>5, SumUnique
<1>7. sol(S)[rest] = sol(rest)[rest]
  BY <1>6
<1> QED BY <1>2, <1>7, SumIsRecursion

\* Nothing sums to zero.
LEMMA SumOverNone == ASSUME NEW f PROVE SumFunctionOnSet(f, {}) = 0
BY SumRecursion, FS_EmptySet

\* A sum of integers is one.
LEMMA SumInt ==
  ASSUME NEW f, NEW S, IsFiniteSet(S), \A x \in S : f[x] \in Int
  PROVE  SumFunctionOnSet(f, S) \in Int
<1> DEFINE P == {T \in SUBSET S : SumFunctionOnSet(f, T) \notin Int}
<1> SUFFICES ASSUME P # {} PROVE FALSE
  OBVIOUS
<1>1. PICK T \in P : \A U \in SUBSET T : U # T => U \notin P
  <2>1. P \in SUBSET SUBSET S
    OBVIOUS
  <2> HIDE DEF P
  <2> QED BY <2>1, MinimalSubset
<1>2. IsFiniteSet(T)
  BY FS_Subset
<1>3. T # {} => First(T) \in T
  BY DEF First
<1>4. T # {} => SumFunctionOnSet(f, T \ {First(T)}) \in Int
  BY <1>1, <1>3
<1> QED BY <1>2, <1>3, <1>4, SumRecursion

\* Any one row may be split off: the order of the rows is nothing to the sum.
LEMMA SumSplit ==
  ASSUME NEW f, NEW S, IsFiniteSet(S), \A x \in S : f[x] \in Int, NEW y \in S
  PROVE  SumFunctionOnSet(f, S) = f[y] + SumFunctionOnSet(f, S \ {y})
<1> DEFINE sum(T) == SumFunctionOnSet(f, T)
           P == {T \in SUBSET S : \E z \in T : sum(T) # f[z] + sum(T \ {z})}
<1> SUFFICES ASSUME P # {} PROVE FALSE
  OBVIOUS
<1>1. PICK T \in P : \A U \in SUBSET T : U # T => U \notin P
  <2>1. P \in SUBSET SUBSET S
    OBVIOUS
  <2> HIDE DEF P
  <2> QED BY <2>1, MinimalSubset
<1>2. PICK z \in T : sum(T) # f[z] + sum(T \ {z})
  OBVIOUS
<1> DEFINE x == First(T)
<1>3. x \in T
  BY DEF First
<1>4. \A U \in SUBSET S : IsFiniteSet(U) /\ sum(U) \in Int
  BY FS_Subset, SumInt
<1>5. sum(T) = f[x] + sum(T \ {x})
  BY <1>4, SumRecursion
<1>6. x # z
  BY <1>2, <1>5
<1>7. sum(T \ {x}) = f[z] + sum((T \ {x}) \ {z})
  BY <1>1, <1>3, <1>6
<1>8. sum(T \ {z}) = f[x] + sum((T \ {z}) \ {x})
  BY <1>1, <1>3, <1>6
<1>9. (T \ {z}) \ {x} = (T \ {x}) \ {z}
  OBVIOUS
<1>10. f[x] \in Int /\ f[z] \in Int /\ sum((T \ {x}) \ {z}) \in Int
  BY <1>3, <1>4
<1>11. /\ sum(T) = f[x] + (f[z] + sum((T \ {x}) \ {z}))
       /\ sum(T \ {z}) = f[x] + sum((T \ {x}) \ {z})
  BY <1>5, <1>7, <1>8, <1>9
<1>12. \A a, b, c \in Int : a + (b + c) = b + (a + c)
  OBVIOUS
<1>13. sum(T) = f[z] + sum(T \ {z})
  BY <1>10, <1>11, <1>12
<1> QED BY <1>2, <1>13

\* Two functions that agree on the rows have one sum over them.
LEMMA SumSame ==
  ASSUME NEW S, IsFiniteSet(S), NEW f, NEW g,
         \A x \in S : f[x] \in Int /\ g[x] = f[x]
  PROVE  SumFunctionOnSet(g, S) = SumFunctionOnSet(f, S)
<1> DEFINE P == {T \in SUBSET S : ~(SumFunctionOnSet(g, T) = SumFunctionOnSet(f, T))}
<1> SUFFICES ASSUME P # {} PROVE FALSE
  OBVIOUS
<1>1. PICK T \in P : \A U \in SUBSET T : U # T => U \notin P
  <2>1. P \in SUBSET SUBSET S
    OBVIOUS
  <2> HIDE DEF P
  <2> QED BY <2>1, MinimalSubset
<1>2. T # {}
  BY SumOverNone
<1>3. PICK x \in T : TRUE
  BY <1>2
<1>4. SumFunctionOnSet(g, (T \ {x})) = SumFunctionOnSet(f, (T \ {x}))
  BY <1>1
<1>5. \A U \in SUBSET S : IsFiniteSet(U)
  BY FS_Subset
<1>6. /\ SumFunctionOnSet(f, T) = f[x] + SumFunctionOnSet(f, T \ {x})
      /\ SumFunctionOnSet(g, T) = g[x] + SumFunctionOnSet(g, T \ {x})
  BY <1>5, SumSplit
<1> QED BY <1>4, <1>6

\* A sum of sums is the sum of both.
LEMMA SumPlus ==
  ASSUME NEW S, IsFiniteSet(S), NEW f, NEW g, NEW h,
         \A x \in S : f[x] \in Int /\ g[x] \in Int /\ h[x] = f[x] + g[x]
  PROVE  SumFunctionOnSet(h, S) = SumFunctionOnSet(f, S) + SumFunctionOnSet(g, S)
<1> DEFINE P == {T \in SUBSET S : ~(SumFunctionOnSet(h, T) = SumFunctionOnSet(f, T) + SumFunctionOnSet(g, T))}
<1> SUFFICES ASSUME P # {} PROVE FALSE
  OBVIOUS
<1>1. PICK T \in P : \A U \in SUBSET T : U # T => U \notin P
  <2>1. P \in SUBSET SUBSET S
    OBVIOUS
  <2> HIDE DEF P
  <2> QED BY <2>1, MinimalSubset
<1>2. T # {}
  <2>1. /\ SumFunctionOnSet(f, {}) = 0 /\ SumFunctionOnSet(g, {}) = 0
        /\ SumFunctionOnSet(h, {}) = 0
    BY SumOverNone
  <2>2. SumFunctionOnSet(h, {}) = SumFunctionOnSet(f, {}) + SumFunctionOnSet(g, {})
    BY <2>1
  <2> QED BY <2>2
<1>3. PICK x \in T : TRUE
  BY <1>2
<1>4. SumFunctionOnSet(h, (T \ {x})) = SumFunctionOnSet(f, (T \ {x})) + SumFunctionOnSet(g, (T \ {x}))
  BY <1>1
<1>5. \A U \in SUBSET S : IsFiniteSet(U)
  BY FS_Subset
<1>6. /\ SumFunctionOnSet(f, T) = f[x] + SumFunctionOnSet(f, T \ {x})
      /\ SumFunctionOnSet(g, T) = g[x] + SumFunctionOnSet(g, T \ {x})
      /\ SumFunctionOnSet(h, T) = h[x] + SumFunctionOnSet(h, T \ {x})
  BY <1>5, SumSplit
<1>7. /\ SumFunctionOnSet(f, T \ {x}) \in Int
      /\ SumFunctionOnSet(g, T \ {x}) \in Int
  BY <1>5, SumInt
<1>8. f[x] \in Int /\ g[x] \in Int /\ h[x] = f[x] + g[x]
  OBVIOUS
<1>9. \A a, b, c, d \in Int : (a + b) + (c + d) = (a + c) + (b + d)
  OBVIOUS
<1>10. SumFunctionOnSet(h, T) = SumFunctionOnSet(f, T) + SumFunctionOnSet(g, T)
  BY <1>4, <1>6, <1>7, <1>8, <1>9
<1> QED BY <1>10

\* Row by row no more, hence no more in the sum.
LEMMA SumLeq ==
  ASSUME NEW S, IsFiniteSet(S), NEW f, NEW g,
         \A x \in S : f[x] \in Int /\ g[x] \in Int /\ f[x] <= g[x]
  PROVE  SumFunctionOnSet(f, S) <= SumFunctionOnSet(g, S)
<1> DEFINE P == {T \in SUBSET S : ~(SumFunctionOnSet(f, T) <= SumFunctionOnSet(g, T))}
<1> SUFFICES ASSUME P # {} PROVE FALSE
  OBVIOUS
<1>1. PICK T \in P : \A U \in SUBSET T : U # T => U \notin P
  <2>1. P \in SUBSET SUBSET S
    OBVIOUS
  <2> HIDE DEF P
  <2> QED BY <2>1, MinimalSubset
<1>2. T # {}
  BY SumOverNone
<1>3. PICK x \in T : TRUE
  BY <1>2
<1>4. SumFunctionOnSet(f, (T \ {x})) <= SumFunctionOnSet(g, (T \ {x}))
  BY <1>1
<1>5. \A U \in SUBSET S : IsFiniteSet(U)
  BY FS_Subset
<1>6. /\ SumFunctionOnSet(f, T) = f[x] + SumFunctionOnSet(f, T \ {x})
      /\ SumFunctionOnSet(g, T) = g[x] + SumFunctionOnSet(g, T \ {x})
  BY <1>5, SumSplit
<1>7. /\ SumFunctionOnSet(f, T \ {x}) \in Int
      /\ SumFunctionOnSet(g, T \ {x}) \in Int
  BY <1>5, SumInt
<1>8. f[x] \in Int /\ g[x] \in Int /\ f[x] <= g[x]
  OBVIOUS
<1>9. \A a, b, c, d \in Int : a <= c /\ b <= d => a + b <= c + d
  OBVIOUS
<1>10. SumFunctionOnSet(f, T) <= SumFunctionOnSet(g, T)
  BY <1>4, <1>6, <1>7, <1>8, <1>9
<1> QED BY <1>10

\* Rows that weigh nothing sum to nothing.
LEMMA SumZero ==
  ASSUME NEW S, IsFiniteSet(S), NEW f, \A x \in S : f[x] = 0
  PROVE  SumFunctionOnSet(f, S) = 0
<1> DEFINE P == {T \in SUBSET S : ~(SumFunctionOnSet(f, T) = 0)}
<1> SUFFICES ASSUME P # {} PROVE FALSE
  OBVIOUS
<1>1. PICK T \in P : \A U \in SUBSET T : U # T => U \notin P
  <2>1. P \in SUBSET SUBSET S
    OBVIOUS
  <2> HIDE DEF P
  <2> QED BY <2>1, MinimalSubset
<1>2. T # {}
  BY SumOverNone
<1>3. PICK x \in T : TRUE
  BY <1>2
<1>4. SumFunctionOnSet(f, (T \ {x})) = 0
  BY <1>1
<1>5. \A U \in SUBSET S : IsFiniteSet(U)
  BY FS_Subset
<1>6. SumFunctionOnSet(f, T) = f[x] + SumFunctionOnSet(f, T \ {x})
  BY <1>5, SumSplit
<1> QED BY <1>4, <1>6

\* The rows that weigh nothing may be left out of the sum.
LEMMA SumPart ==
  ASSUME NEW S, IsFiniteSet(S), NEW f, \A x \in S : f[x] \in Int,
         NEW T \in SUBSET S, \A x \in S \ T : f[x] = 0
  PROVE  SumFunctionOnSet(f, S) = SumFunctionOnSet(f, T)
<1> DEFINE P == {U \in SUBSET S : T \subseteq U
                  /\ SumFunctionOnSet(f, U) # SumFunctionOnSet(f, T)}
<1> SUFFICES ASSUME P # {} PROVE FALSE
  OBVIOUS
<1>1. PICK U \in P : \A V \in SUBSET U : V # U => V \notin P
  <2>1. P \in SUBSET SUBSET S
    OBVIOUS
  <2> HIDE DEF P
  <2> QED BY <2>1, MinimalSubset
<1>2. PICK x \in U : x \notin T
  OBVIOUS
<1>3. SumFunctionOnSet(f, U \ {x}) = SumFunctionOnSet(f, T)
  BY <1>1, <1>2
<1>4. IsFiniteSet(U) /\ IsFiniteSet(T)
  BY FS_Subset
<1>5. SumFunctionOnSet(f, U) = f[x] + SumFunctionOnSet(f, U \ {x})
  BY <1>4, SumSplit
<1>6. f[x] = 0 /\ SumFunctionOnSet(f, T) \in Int
  BY <1>2, <1>4, SumInt
<1> QED BY <1>3, <1>5, <1>6

\* One row changed changes the sum by as much.
LEMMA SumChange ==
  ASSUME NEW S, IsFiniteSet(S), NEW y \in S, NEW f, NEW g,
         \A x \in S : f[x] \in Int /\ g[x] \in Int,
         \A x \in S \ {y} : g[x] = f[x]
  PROVE  SumFunctionOnSet(g, S) = SumFunctionOnSet(f, S) + (g[y] - f[y])
<1>1. IsFiniteSet(S \ {y})
  BY FS_Subset
<1>2. SumFunctionOnSet(g, S \ {y}) = SumFunctionOnSet(f, S \ {y})
  BY <1>1, SumSame
<1>3. /\ SumFunctionOnSet(f, S) = f[y] + SumFunctionOnSet(f, S \ {y})
      /\ SumFunctionOnSet(g, S) = g[y] + SumFunctionOnSet(g, S \ {y})
  BY SumSplit
<1>4. f[y] \in Int /\ g[y] \in Int /\ SumFunctionOnSet(f, S \ {y}) \in Int
  BY <1>1, SumInt
<1>5. \A a, b, c \in Int : b + c = (a + c) + (b - a)
  OBVIOUS
<1> QED BY <1>2, <1>3, <1>4, <1>5

\* The sum over two sets with no row in common is the sum of their sums.
LEMMA SumDisjoint ==
  ASSUME NEW S, IsFiniteSet(S), NEW f, \A x \in S : f[x] \in Int,
         NEW T \in SUBSET S, NEW U \in SUBSET S, T \cup U = S, T \cap U = {}
  PROVE  SumFunctionOnSet(f, S) = SumFunctionOnSet(f, T) + SumFunctionOnSet(f, U)
<1> DEFINE ft == [x \in S |-> IF x \in T THEN f[x] ELSE 0]
           fu == [x \in S |-> IF x \in U THEN f[x] ELSE 0]
<1>1. \A x \in S : ft[x] \in Int /\ fu[x] \in Int /\ f[x] = ft[x] + fu[x]
  OBVIOUS
<1>2. /\ \A x \in T : f[x] \in Int /\ ft[x] = f[x]
      /\ \A x \in U : f[x] \in Int /\ fu[x] = f[x]
      /\ \A x \in S \ T : ft[x] = 0
      /\ \A x \in S \ U : fu[x] = 0
  OBVIOUS
<1> HIDE DEF ft, fu
<1>3. IsFiniteSet(T) /\ IsFiniteSet(U)
  BY FS_Subset
<1>4. SumFunctionOnSet(f, S) = SumFunctionOnSet(ft, S) + SumFunctionOnSet(fu, S)
  BY <1>1, SumPlus
<1>5. /\ SumFunctionOnSet(ft, S) = SumFunctionOnSet(ft, T)
      /\ SumFunctionOnSet(fu, S) = SumFunctionOnSet(fu, U)
  BY <1>1, <1>2, SumPart
<1>6. /\ SumFunctionOnSet(ft, T) = SumFunctionOnSet(f, T)
      /\ SumFunctionOnSet(fu, U) = SumFunctionOnSet(f, U)
  BY <1>2, <1>3, SumSame
<1> QED BY <1>4, <1>5, <1>6

\* Rows that are never negative: the sum is not, and no row exceeds it.
LEMMA SumNat ==
  ASSUME NEW S, IsFiniteSet(S), NEW f, \A x \in S : f[x] \in Nat
  PROVE  /\ SumFunctionOnSet(f, S) \in Nat
         /\ \A y \in S : f[y] <= SumFunctionOnSet(f, S)
<1> DEFINE z == [x \in S |-> 0]
<1>1. ASSUME NEW T \in SUBSET S PROVE SumFunctionOnSet(f, T) \in Nat
  <2>1. IsFiniteSet(T)
    BY FS_Subset
  <2>2. SumFunctionOnSet(z, T) = 0
    BY <2>1, SumZero
  <2>3. \A x \in T : z[x] \in Int /\ f[x] \in Int /\ z[x] <= f[x]
    OBVIOUS
  <2>4. SumFunctionOnSet(z, T) <= SumFunctionOnSet(f, T)
    BY <2>1, <2>3, SumLeq
  <2>5. SumFunctionOnSet(f, T) \in Int
    BY <2>1, SumInt
  <2> QED BY <2>2, <2>4, <2>5
<1>2. ASSUME NEW y \in S PROVE f[y] <= SumFunctionOnSet(f, S)
  <2>1. SumFunctionOnSet(f, S) = f[y] + SumFunctionOnSet(f, S \ {y})
    BY SumSplit
  <2>2. SumFunctionOnSet(f, S \ {y}) \in Nat
    BY <1>1
  <2> QED BY <2>1, <2>2
<1> QED BY <1>1, <1>2

\* The function summed is what its definition says of each row.
LEMMA SumOfFunction ==
  ASSUME NEW f, NEW S, DOMAIN f = S
  PROVE  SumFunction(f) = SumFunctionOnSet(f, S)
BY DEF SumFunction

\* A sum over the rows a condition selects is a sum over the table in which the
\* other rows weigh nothing.
LEMMA SumWhere ==
  ASSUME NEW S, IsFiniteSet(S), NEW f, DOMAIN f \subseteq S, NEW g,
         \A x \in S : g[x] \in Int /\ g[x] = IF x \in DOMAIN f THEN f[x] ELSE 0
  PROVE  SumFunction(f) = SumFunctionOnSet(g, S)
<1> DEFINE T == DOMAIN f
<1>1. IsFiniteSet(T) /\ T \in SUBSET S
  BY FS_Subset
<1>2. \A x \in T : g[x] \in Int /\ f[x] = g[x]
  BY <1>1
<1>3. \A x \in S : g[x] \in Int /\ (x \notin T => g[x] = 0)
  OBVIOUS
<1> HIDE DEF T
<1>4. SumFunctionOnSet(f, T) = SumFunctionOnSet(g, T)
  BY <1>1, <1>2, SumSame
<1>5. SumFunctionOnSet(g, S) = SumFunctionOnSet(g, T)
  BY <1>1, <1>3, SumPart
<1>6. DOMAIN f = T
  BY DEF T
<1> QED BY <1>4, <1>5, <1>6, SumOfFunction

\* One row that weighs as much as some others together, with the other sign.
LEMMA SumOffset ==
  ASSUME NEW S, IsFiniteSet(S), NEW w \in S, NEW T \in SUBSET (S \ {w}), NEW d, NEW t,
         \A x \in S : d[x] \in Int,
         \A x \in T : t[x] = d[x],
         \A x \in (S \ {w}) \ T : d[x] = 0,
         d[w] = 0 - SumFunctionOnSet(t, T)
  PROVE  SumFunctionOnSet(d, S) = 0
<1>1. IsFiniteSet(S \ {w}) /\ IsFiniteSet(T)
  BY FS_Subset
<1>2. SumFunctionOnSet(d, S) = d[w] + SumFunctionOnSet(d, S \ {w})
  BY SumSplit
<1>3. SumFunctionOnSet(d, S \ {w}) = SumFunctionOnSet(d, T)
  BY <1>1, SumPart
<1>4. \A x \in T : d[x] \in Int /\ t[x] = d[x]
  OBVIOUS
<1>5. SumFunctionOnSet(t, T) = SumFunctionOnSet(d, T)
  BY <1>1, <1>4, SumSame
<1>6. SumFunctionOnSet(d, T) \in Int
  BY <1>1, <1>4, SumInt
<1> QED BY <1>2, <1>3, <1>5, <1>6
=============================================================================
