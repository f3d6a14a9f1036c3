-------------------------------- MODULE Sums --------------------------------
(***************************************************************************)
(* Facts about finite sets, least elements, the sums of a function over a  *)
(* finite set, sequences and quotients, which the proofs of the components *)
(* cite.  The library's induction theorems have an operator for the        *)
(* property to be shown; here the counterexamples form a set, and a least  *)
(* one of them is refuted.                                                 *)
(***************************************************************************)
EXTENDS Integers, Sequences, FiniteSets, FiniteSetsExt, Functions,
        FiniteSetTheorems, TLAPS

(***************************************************************************)
(* Least elements.                                                         *)
(***************************************************************************)
\* Of some subsets of a finite set, one has no other of them below it.
LEMMA LeastSubset ==
    ASSUME NEW S, IsFiniteSet(S), NEW Bad, Bad \subseteq SUBSET S, Bad # {}
    PROVE  \E T \in Bad : \A U \in Bad : U \subseteq T => U = T
<1> DEFINE R == StrictSubsetOrdering(S)
<1>1. IsWellFoundedOn(R, SUBSET S)
  BY FS_StrictSubsetOrderingWellFounded, FS_FiniteSubsetsOfFinite
<1>2. PICK T \in Bad : \A U \in Bad : ~(<<U, T>> \in R)
  <2> HIDE DEF R
  <2> QED
    BY <1>1, WFMin
<1> QED
  BY <1>2 DEF StrictSubsetOrdering

\* A finite set of numbers has a greatest one.
LEMMA FiniteGreatest ==
    ASSUME NEW S, IsFiniteSet(S), S \subseteq Nat, S # {}
    PROVE  \E n \in S : \A m \in S : m <= n
<1> DEFINE Greatest(T, n) == n \in T /\ \A m \in T : m <= n
<1>1. PICK Bad : Bad = {T \in SUBSET S : T # {} /\ ~ \E n : Greatest(T, n)}
  OBVIOUS
<1>2. Bad \subseteq SUBSET S
  BY <1>1
<1>3. SUFFICES ASSUME Bad # {} PROVE FALSE
  <2>1. S \notin Bad
    BY <1>3
  <2> QED
    BY <1>1, <2>1
<1>4. PICK T \in Bad : \A U \in Bad : U \subseteq T => U = T
  <2> HIDE DEF Greatest
  <2> QED
    BY ONLY IsFiniteSet(S), <1>2, <1>3, LeastSubset
<1>5. T \subseteq S /\ T # {} /\ \A n : ~Greatest(T, n)
  BY <1>1
<1>6. PICK x \in T : TRUE
  BY <1>5
<1>7. PICK U : U = T \ {x}
  OBVIOUS
<1>8. U # {} /\ U \subseteq S /\ x \in Nat
  <2>1. x \in Nat
    BY <1>5
  <2>2. CASE U = {}
    <3>1. \A m \in T : m = x
      BY <1>7, <2>2
    <3>2. Greatest(T, x)
      BY <1>6, <2>1, <3>1
    <3> QED
      BY <1>5, <3>2
  <2> QED
    BY <1>5, <1>7, <2>1, <2>2
<1>9. PICK n : Greatest(U, n)
  <2>1. U \notin Bad
    BY <1>4, <1>6, <1>7
  <2> HIDE DEF Greatest
  <2> QED
    BY <1>1, <1>8, <2>1
<1>10. n \in U /\ n \in T /\ n \in Nat /\ \A m \in T : m = x \/ (m \in Nat /\ m <= n)
  BY <1>5, <1>7, <1>9
<1>11. x <= n => Greatest(T, n)
  BY <1>10
<1>12. ~(x <= n) => Greatest(T, x)
  BY <1>6, <1>8, <1>10
<1> QED
  BY <1>5, <1>11, <1>12

\* Natural numbers have a least one among them.
LEMMA LeastNatural ==
    ASSUME NEW Bad, Bad \subseteq Nat, Bad # {}
    PROVE  \E n \in Bad : \A m \in Bad : n <= m
<1>1. PICK k \in Bad : TRUE
  OBVIOUS
<1>2. k \in Nat /\ IsFiniteSet(0..k)
  <2>1. k \in Nat
    OBVIOUS
  <2> QED
    BY <2>1, FS_Interval
<1> DEFINE Down == {I \in SUBSET (0..k) : \E m \in Bad : m <= k /\ I = 0..m}
<1>3. Down \subseteq SUBSET (0..k) /\ Down # {}
  <2>1. 0..k \in Down
    BY <1>1, <1>2
  <2> QED
    BY <2>1
<1>4. PICK I \in Down : \A J \in Down : J \subseteq I => J = I
  <2> DEFINE W == 0..k
  <2>1. IsFiniteSet(W) /\ Down \subseteq SUBSET W /\ Down # {}
    BY <1>2, <1>3
  <2> HIDE DEF Down, W
  <2> QED
    BY <2>1, LeastSubset
<1>5. PICK n \in Bad : n <= k /\ I = 0..n
  BY <1>4
<1>6. ASSUME NEW m \in Bad, m < n PROVE FALSE
  <2>1. 0..m \in Down
    BY <1>2, <1>5, <1>6
  <2>2. 0..m \subseteq I /\ n \in I /\ n \notin 0..m
    BY <1>5, <1>6
  <2> QED
    BY <2>1, <2>2, <1>4
<1> QED
  BY <1>5, <1>6

(***************************************************************************)
(* The recursion behind SumFunctionOnSet.                                  *)
(***************************************************************************)
Chosen(S) == CHOOSE x \in S : TRUE

Recursion(f, S, g) ==
    g = [T \in SUBSET S |-> IF T = {} THEN 0 ELSE f[Chosen(T)] + g[T \ {Chosen(T)}]]

LEMMA SumUnfolds ==
    ASSUME NEW f, NEW S
    PROVE  SumFunctionOnSet(f, S) = (CHOOSE g : Recursion(f, S, g))[S]
  BY DEF SumFunctionOnSet, FoldFunctionOnSet, MapThenFoldSet, Recursion, Chosen

LEMMA ChosenIsElement == \A S : S # {} => Chosen(S) \in S
  BY DEF Chosen

LEMMA RecursionAt ==
    ASSUME NEW f, NEW S, NEW g, Recursion(f, S, g), NEW T \in SUBSET S
    PROVE  g[T] = IF T = {} THEN 0 ELSE f[Chosen(T)] + g[T \ {Chosen(T)}]
  BY DEF Recursion

LEMMA RecursionAgrees ==
    ASSUME NEW f, NEW S, IsFiniteSet(S), NEW T \in SUBSET S,
           NEW g, Recursion(f, S, g), NEW h, Recursion(f, T, h)
    PROVE  \A U \in SUBSET T : g[U] = h[U]
<1> DEFINE Bad == {U \in SUBSET T : g[U] # h[U]}
<1>1. SUFFICES ASSUME Bad # {} PROVE FALSE
  OBVIOUS
<1>2. Bad \subseteq SUBSET S
  OBVIOUS
<1>3. PICK U \in Bad : \A V \in Bad : V \subseteq U => V = U
  <2> HIDE DEF Bad
  <2> QED
    BY <1>1, <1>2, LeastSubset
<1>4. U \in SUBSET S /\ U \in SUBSET T
  OBVIOUS
<1>5. U # {}
  BY <1>4, RecursionAt
<1>6. Chosen(U) \in U
  BY <1>5, ChosenIsElement
<1> DEFINE V == U \ {Chosen(U)}
<1>7. V \in SUBSET T /\ V \subseteq U /\ V # U
  BY <1>6
<1>8. g[V] = h[V]
  BY <1>3, <1>7
<1>9. g[U] = f[Chosen(U)] + g[V] /\ h[U] = f[Chosen(U)] + h[V]
  BY <1>4, <1>5, RecursionAt
<1> QED
  BY <1>3, <1>8, <1>9

LEMMA RecursionExists ==
    ASSUME NEW f, NEW S, IsFiniteSet(S)
    PROVE  \E g : Recursion(f, S, g)
<1> DEFINE Bad == {T \in SUBSET S : ~ \E g : Recursion(f, T, g)}
<1>1. SUFFICES ASSUME Bad # {} PROVE FALSE
  OBVIOUS
<1>2. PICK T \in Bad : \A U \in Bad : U \subseteq T => U = T
  <2>1. Bad \subseteq SUBSET S
    OBVIOUS
  <2> HIDE DEF Bad
  <2> QED
    BY <1>1, <2>1, LeastSubset
<1>3. T \in SUBSET S /\ ~ \E g : Recursion(f, T, g)
  OBVIOUS
<1> DEFINE G(X) == CHOOSE h : Recursion(f, X, h)
           V(X) == X \ {Chosen(X)}
           g == [X \in SUBSET T |-> IF X = {} THEN 0 ELSE f[Chosen(X)] + G(V(X))[V(X)]]
<1>4. ASSUME NEW U \in SUBSET T, U # T PROVE Recursion(f, U, G(U)) /\ IsFiniteSet(U)
  <2>1. U \notin Bad /\ U \in SUBSET S
    BY <1>2, <1>3, <1>4
  <2>2. \E h : Recursion(f, U, h)
    BY <2>1
  <2> QED
    BY <2>1, <2>2, FS_Subset
<1>5. ASSUME NEW U \in SUBSET T, U # T PROVE g[U] = G(U)[U]
  <2>1. Recursion(f, U, G(U)) /\ IsFiniteSet(U)
    BY <1>4, <1>5
  <2>2. G(U)[U] = IF U = {} THEN 0 ELSE f[Chosen(U)] + G(U)[V(U)]
    <3> HIDE DEF G
    <3> QED
      BY <2>1, RecursionAt
  <2>3. CASE U = {}
    BY <2>2, <2>3
  <2>4. CASE U # {}
    <3>1. Chosen(U) \in U
      BY <2>4, ChosenIsElement
    <3>2. V(U) \in SUBSET U /\ V(U) \in SUBSET T /\ V(U) # T
      BY <3>1, <1>5
    <3>3. Recursion(f, V(U), G(V(U)))
      <4> HIDE DEF G, V
      <4> QED BY <3>2, <1>4
    <3>4. G(U)[V(U)] = G(V(U))[V(U)]
      <4>1. V(U) \in SUBSET V(U)
        OBVIOUS
      <4> HIDE DEF G, V
      <4> QED BY <2>1, <3>2, <3>3, <4>1, RecursionAgrees
    <3>5. g[U] = f[Chosen(U)] + G(V(U))[V(U)]
      <4> HIDE DEF G, V
      <4> QED BY <2>4
    <3> HIDE DEF G, V, g
    <3> QED BY <2>2, <2>4, <3>4, <3>5
  <2> QED
    BY <2>3, <2>4
<1>6. ASSUME NEW U \in SUBSET T, U # {} PROVE g[U] = f[Chosen(U)] + g[V(U)]
  <2>1. Chosen(U) \in U
    BY <1>6, ChosenIsElement
  <2>2. V(U) \in SUBSET T /\ V(U) # T
    BY <2>1
  <2>3. g[V(U)] = G(V(U))[V(U)]
    <3> HIDE DEF G, V, g
    <3> QED BY <2>2, <1>5
  <2>4. g[U] = f[Chosen(U)] + G(V(U))[V(U)]
    <3> HIDE DEF G, V
    <3> QED BY <1>6
  <2> HIDE DEF G, V, g
  <2> QED BY <2>3, <2>4
<1>7. Recursion(f, T, g)
  <2> DEFINE h == [X \in SUBSET T |-> IF X = {} THEN 0 ELSE f[Chosen(X)] + g[V(X)]]
  <2>1. ASSUME NEW X \in SUBSET T PROVE g[X] = h[X]
    <3>1. CASE X = {}
      BY <3>1
    <3>2. CASE X # {}
      <4>1. g[X] = f[Chosen(X)] + g[V(X)]
        BY <1>6, <3>2
      <4>2. h[X] = f[Chosen(X)] + g[V(X)]
        <5> HIDE DEF V, g
        <5> QED BY <3>2
      <4> HIDE DEF h, g, V
      <4> QED BY <4>1, <4>2
    <3> QED BY <3>1, <3>2
  <2>2. g = h
    <3>1. \A X \in SUBSET T : g[X] = h[X]
      <4> HIDE DEF g, h
      <4> QED BY <2>1
    <3>2. g = [X \in SUBSET T |-> g[X]]
      <4> HIDE DEF G, V
      <4> QED OBVIOUS
    <3>3. h = [X \in SUBSET T |-> h[X]]
      <4> HIDE DEF G, V, g
      <4> QED OBVIOUS
    <3> HIDE DEF g, h
    <3> QED BY <3>1, <3>2, <3>3
  <2>3. g = [X \in SUBSET T |-> IF X = {} THEN 0 ELSE f[Chosen(X)] + g[X \ {Chosen(X)}]]
    <3> HIDE DEF g
    <3> QED BY <2>2
  <2> HIDE DEF g
  <2> QED BY <2>3 DEF Recursion
<1> QED
  BY <1>3, <1>7

\* What is behind the CHOOSE: the sum over a finite set is that of its chosen
\* element and the rest.
LEMMA SumChosen ==
    ASSUME NEW f, NEW S, IsFiniteSet(S)
    PROVE  SumFunctionOnSet(f, S) =
             IF S = {} THEN 0 ELSE f[Chosen(S)] + SumFunctionOnSet(f, S \ {Chosen(S)})
<1> DEFINE G(X) == CHOOSE h : Recursion(f, X, h)
<1>1. ASSUME NEW T \in SUBSET S
      PROVE  IsFiniteSet(T) /\ Recursion(f, T, G(T)) /\ SumFunctionOnSet(f, T) = G(T)[T]
  <2>1. IsFiniteSet(T)
    BY FS_Subset
  <2> QED
    BY <2>1, RecursionExists, SumUnfolds
<1>2. G(S)[S] = IF S = {} THEN 0 ELSE f[Chosen(S)] + G(S)[S \ {Chosen(S)}]
  <2> HIDE DEF G
  <2> QED
    BY <1>1, RecursionAt
<1>3. ASSUME NEW T \in SUBSET S PROVE G(S)[T] = G(T)[T]
  <2> HIDE DEF G
  <2> QED
    BY <1>1, RecursionAgrees
<1> DEFINE V == S \ {Chosen(S)}
<1>4. SumFunctionOnSet(f, S) = G(S)[S] /\ SumFunctionOnSet(f, V) = G(S)[V]
  <2> HIDE DEF G
  <2> QED
    BY <1>1, <1>3
<1> HIDE DEF G
<1> QED
  BY <1>2, <1>4

LEMMA SumEmpty == \A f : SumFunctionOnSet(f, {}) = 0
<1> TAKE f
<1>1. IsFiniteSet({})
  BY FS_EmptySet
<1> QED
  BY <1>1, SumChosen

(***************************************************************************)
(* Sums of integers.                                                       *)
(***************************************************************************)
Integral(f, S) == \A x \in S : f[x] \in Int

\* A sum stays where its terms are, if zero is there and adding leads nowhere
\* else.
LEMMA SumStays ==
    ASSUME NEW S, IsFiniteSet(S), NEW f, NEW R, 0 \in R, \A a, b \in R : a + b \in R,
           \A x \in S : f[x] \in R
    PROVE  SumFunctionOnSet(f, S) \in R
<1> DEFINE Bad == {T \in SUBSET S : SumFunctionOnSet(f, T) \notin R}
<1>1. SUFFICES ASSUME Bad # {} PROVE FALSE
  OBVIOUS
<1>2. PICK T \in Bad : \A U \in Bad : U \subseteq T => U = T
  <2>1. Bad \subseteq SUBSET S
    OBVIOUS
  <2> HIDE DEF Bad
  <2> QED
    BY <1>1, <2>1, LeastSubset
<1>3. T \in SUBSET S /\ IsFiniteSet(T) /\ SumFunctionOnSet(f, T) \notin R
  BY FS_Subset
<1>4. T # {}
  BY <1>3, SumEmpty
<1> DEFINE c == Chosen(T)
           U == T \ {c}
<1>5. c \in T /\ U \in SUBSET S /\ U \subseteq T /\ U # T
  BY <1>3, <1>4, ChosenIsElement
<1>6. SumFunctionOnSet(f, U) \in R
  BY <1>2, <1>5
<1>7. SumFunctionOnSet(f, T) = f[c] + SumFunctionOnSet(f, U)
  BY <1>3, <1>4, SumChosen
<1>8. f[c] \in R
  BY <1>3, <1>5
<1> HIDE DEF c, U
<1> QED
  BY <1>3, <1>6, <1>7, <1>8

LEMMA SumType ==
    ASSUME NEW S, IsFiniteSet(S), NEW f, Integral(f, S)
    PROVE  SumFunctionOnSet(f, S) \in Int
<1>1. 0 \in Int /\ \A a, b \in Int : a + b \in Int
  OBVIOUS
<1> QED
  BY <1>1, SumStays, Zenon DEF Integral

\* Any element may be taken out of a sum.
LEMMA SumTakesOut ==
    ASSUME NEW S, IsFiniteSet(S), NEW f, Integral(f, S), NEW x \in S
    PROVE  SumFunctionOnSet(f, S) = f[x] + SumFunctionOnSet(f, S \ {x})
<1> DEFINE Sum(X) == SumFunctionOnSet(f, X)
           Bad == {T \in SUBSET S : \E y \in T : Sum(T) # f[y] + Sum(T \ {y})}
<1>1. SUFFICES Bad = {}
  OBVIOUS
<1>2. SUFFICES ASSUME Bad # {} PROVE FALSE
  OBVIOUS
<1>3. PICK T \in Bad : \A U \in Bad : U \subseteq T => U = T
  <2>1. Bad \subseteq SUBSET S
    OBVIOUS
  <2> HIDE DEF Bad
  <2> QED
    BY <1>2, <2>1, LeastSubset
<1>4. PICK y \in T : Sum(T) # f[y] + Sum(T \ {y})
  OBVIOUS
<1>5. ASSUME NEW U \in SUBSET S PROVE IsFiniteSet(U) /\ Sum(U) \in Int
  <2>1. IsFiniteSet(U)
    BY FS_Subset
  <2>2. Integral(f, U)
    BY DEF Integral
  <2> QED
    BY <2>1, <2>2, SumType
<1>6. ASSUME NEW U \in SUBSET T, U # T, NEW z \in U PROVE Sum(U) = f[z] + Sum(U \ {z})
  BY <1>3, <1>6
<1> DEFINE c == Chosen(T)
<1>7. T \in SUBSET S /\ c \in T
  BY <1>4, ChosenIsElement
<1>8. Sum(T) = f[c] + Sum(T \ {c})
  BY <1>5, <1>7, SumChosen
<1>9. c # y
  BY <1>4, <1>8
<1> HIDE DEF c
<1>10. Sum(T \ {c}) = f[y] + Sum((T \ {c}) \ {y})
  <2> HIDE DEF Sum
  <2> QED
    BY <1>6, <1>7, <1>9
<1>11. Sum(T \ {y}) = f[c] + Sum((T \ {y}) \ {c})
  <2> HIDE DEF Sum
  <2> QED
    BY <1>6, <1>7, <1>9
<1>12. (T \ {c}) \ {y} = (T \ {y}) \ {c} /\ (T \ {c}) \ {y} \in SUBSET S
  BY <1>7
<1>13. Sum((T \ {c}) \ {y}) \in Int /\ f[c] \in Int /\ f[y] \in Int
  BY <1>5, <1>7, <1>12 DEF Integral
<1> DEFINE rest == Sum((T \ {c}) \ {y})
<1>14. Sum(T \ {c}) = f[y] + rest /\ Sum(T \ {y}) = f[c] + rest /\ rest \in Int
  <2> HIDE DEF Sum, Bad
  <2> QED
    BY <1>10, <1>11, <1>12, <1>13
<1> HIDE DEF Sum, rest, Bad
<1> QED
  BY <1>4, <1>8, <1>13, <1>14

\* A sum depends on the values at the elements only.
LEMMA SumSame ==
    ASSUME NEW S, IsFiniteSet(S), NEW f, NEW g, \A x \in S : f[x] = g[x]
    PROVE  SumFunctionOnSet(f, S) = SumFunctionOnSet(g, S)
<1> DEFINE Bad == {T \in SUBSET S : SumFunctionOnSet(f, T) # SumFunctionOnSet(g, T)}
<1>1. SUFFICES ASSUME Bad # {} PROVE FALSE
  OBVIOUS
<1>2. PICK T \in Bad : \A U \in Bad : U \subseteq T => U = T
  <2>1. Bad \subseteq SUBSET S
    OBVIOUS
  <2> HIDE DEF Bad
  <2> QED
    BY <1>1, <2>1, LeastSubset
<1>3. T \in SUBSET S /\ IsFiniteSet(T) /\ SumFunctionOnSet(f, T) # SumFunctionOnSet(g, T)
  BY FS_Subset
<1>4. T # {}
  BY <1>3, SumEmpty
<1> DEFINE c == Chosen(T)
           U == T \ {c}
<1>5. c \in T /\ U \in SUBSET S /\ U \subseteq T /\ U # T
  BY <1>3, <1>4, ChosenIsElement
<1>6. SumFunctionOnSet(f, U) = SumFunctionOnSet(g, U)
  BY <1>2, <1>5
<1>7. /\ SumFunctionOnSet(f, T) = f[c] + SumFunctionOnSet(f, U)
      /\ SumFunctionOnSet(g, T) = g[c] + SumFunctionOnSet(g, U)
  BY <1>3, <1>4, SumChosen
<1>8. f[c] = g[c]
  BY <1>3, <1>5
<1> HIDE DEF c, U
<1> QED
  BY <1>3, <1>6, <1>7, <1>8

\* A function that differs at one element differs by as much in its sum.
LEMMA SumAt ==
    ASSUME NEW S, IsFiniteSet(S), NEW f, Integral(f, S), NEW g, Integral(g, S),
           NEW x \in S, \A y \in S \ {x} : f[y] = g[y]
    PROVE  SumFunctionOnSet(g, S) = SumFunctionOnSet(f, S) - f[x] + g[x]
<1>1. SumFunctionOnSet(f, S \ {x}) = SumFunctionOnSet(g, S \ {x})
  <2>1. IsFiniteSet(S \ {x})
    BY FS_RemoveElement
  <2> QED
    BY <2>1, SumSame
<1>2. /\ SumFunctionOnSet(f, S) = f[x] + SumFunctionOnSet(f, S \ {x})
      /\ SumFunctionOnSet(g, S) = g[x] + SumFunctionOnSet(g, S \ {x})
  BY SumTakesOut
<1>3. SumFunctionOnSet(g, S \ {x}) \in Int
  <2>1. IsFiniteSet(S \ {x}) /\ Integral(g, S \ {x})
    BY FS_RemoveElement DEF Integral
  <2> QED
    BY <2>1, SumType
<1>4. f[x] \in Int /\ g[x] \in Int
  BY DEF Integral
<1> QED
  BY <1>1, <1>2, <1>3, <1>4

\* The sum of nothing but zeros.
LEMMA SumZero ==
    ASSUME NEW S, IsFiniteSet(S), NEW f, \A x \in S : f[x] = 0
    PROVE  SumFunctionOnSet(f, S) = 0
<1> DEFINE Bad == {T \in SUBSET S : SumFunctionOnSet(f, T) # 0}
<1>1. SUFFICES ASSUME Bad # {} PROVE FALSE
  OBVIOUS
<1>2. PICK T \in Bad : \A U \in Bad : U \subseteq T => U = T
  <2>1. Bad \subseteq SUBSET S
    OBVIOUS
  <2> HIDE DEF Bad
  <2> QED
    BY <1>1, <2>1, LeastSubset
<1>3. T \in SUBSET S /\ IsFiniteSet(T) /\ SumFunctionOnSet(f, T) # 0
  BY FS_Subset
<1>4. T # {}
  BY <1>3, SumEmpty
<1> DEFINE c == Chosen(T)
           U == T \ {c}
<1>5. c \in T /\ U \in SUBSET S /\ U \subseteq T /\ U # T
  BY <1>3, <1>4, ChosenIsElement
<1>6. SumFunctionOnSet(f, U) = 0
  BY <1>2, <1>5
<1>7. SumFunctionOnSet(f, T) = f[c] + SumFunctionOnSet(f, U)
  BY <1>3, <1>4, SumChosen
<1>8. f[c] = 0
  BY <1>3, <1>5
<1> HIDE DEF c, U
<1> QED
  BY <1>3, <1>6, <1>7, <1>8

\* An element more adds its value to the sum.
LEMMA SumGrows ==
    ASSUME NEW S, IsFiniteSet(S), NEW f, NEW g, NEW x, x \notin S,
           NEW U, U = S \cup {x}, Integral(g, U), \A y \in S : f[y] = g[y]
    PROVE  SumFunctionOnSet(g, U) = SumFunctionOnSet(f, S) + g[x]
<1>1. IsFiniteSet(U) /\ x \in U
  BY FS_AddElement
<1>2. SumFunctionOnSet(g, U) = g[x] + SumFunctionOnSet(g, U \ {x})
  BY <1>1, SumTakesOut
<1>3. U \ {x} = S
  OBVIOUS
<1>4. SumFunctionOnSet(g, S) = SumFunctionOnSet(f, S)
  BY SumSame
<1>5. SumFunctionOnSet(g, S) \in Int /\ g[x] \in Int
  BY <1>1, SumType DEF Integral
<1> DEFINE more == SumFunctionOnSet(g, U)
<1>6. more = g[x] + SumFunctionOnSet(g, S)
  BY <1>2, <1>3
<1>7. more = SumFunctionOnSet(f, S) + g[x]
  <2> HIDE DEF more
  <2> QED
    BY <1>4, <1>5, <1>6
<1> QED
  BY <1>7

\* The sum over one element.
LEMMA SumOne == \A f, x : f[x] \in Int => SumFunctionOnSet(f, {x}) = f[x]
<1> TAKE f, x
<1> HAVE f[x] \in Int
<1>1. IsFiniteSet({x}) /\ Integral(f, {x})
  BY FS_Singleton DEF Integral
<1>2. SumFunctionOnSet(f, {x}) = f[x] + SumFunctionOnSet(f, {x} \ {x})
  BY <1>1, SumTakesOut
<1>3. {x} \ {x} = {}
  OBVIOUS
<1> QED
  BY <1>2, <1>3, SumEmpty

\* The values of a function on a finite set are finitely many.
LEMMA FiniteImage ==
    ASSUME NEW S, IsFiniteSet(S), NEW f
    PROVE  IsFiniteSet({f[x] : x \in S})
<1> DEFINE T == {f[x] : x \in S}
           g == [x \in S |-> f[x]]
<1>1. g \in Surjection(S, T)
  BY DEF Surjection
<1> HIDE DEF T, g
<1>2. IsFiniteSet(T)
  BY <1>1, FS_Surjection
<1> QED
  BY <1>2 DEF T

\* Natural numbers have a natural sum, and what is not positive has a sum
\* that is not.
LEMMA SumNatural ==
    ASSUME NEW S, IsFiniteSet(S), NEW f, \A x \in S : f[x] \in Nat
    PROVE  SumFunctionOnSet(f, S) \in Nat
<1>1. 0 \in Nat /\ \A a, b \in Nat : a + b \in Nat
  OBVIOUS
<1> QED
  BY <1>1, SumStays, Zenon

LEMMA SumOfLosses ==
    ASSUME NEW S, IsFiniteSet(S), NEW f, \A x \in S : f[x] \in Int /\ f[x] <= 0
    PROVE  SumFunctionOnSet(f, S) \in Int /\ SumFunctionOnSet(f, S) <= 0
<1> DEFINE R == {n \in Int : n <= 0}
<1>1. 0 \in R /\ (\A a, b \in R : a + b \in R) /\ \A x \in S : f[x] \in R
  OBVIOUS
<1>2. SumFunctionOnSet(f, S) \in R
  <2> HIDE DEF R
  <2> QED
    BY <1>1, SumStays, Zenon
<1> QED
  BY <1>2

(* An interval that is one longer adds one value.                          *)
LEMMA SumOfInterval ==
    ASSUME NEW a \in Int, NEW b \in Int, a <= b, NEW f, \A i \in a..b : f[i] \in Int
    PROVE  SumFunctionOnSet(f, a..b) = SumFunctionOnSet(f, a..(b - 1)) + f[b]
<1> DEFINE S == a..(b - 1)
           U == a..b
<1>1. IsFiniteSet(S)
  BY FS_Interval
<1>2. b \notin S /\ U = S \cup {b}
  OBVIOUS
<1>3. Integral(f, U)
  BY DEF Integral
<1> HIDE DEF S, U
<1>4. SumFunctionOnSet(f, U) = SumFunctionOnSet(f, S) + f[b]
  BY <1>1, <1>2, <1>3, SumGrows
<1> QED
  BY <1>4 DEF S, U

\* The same values at the next places of an interval have the same sum.
LEMMA SumShifts ==
    ASSUME NEW a \in Int, NEW b \in Int, NEW f, NEW g, \A i \in a..b : f[i] \in Int /\ g[i + 1] = f[i]
    PROVE  SumFunctionOnSet(g, (a + 1)..(b + 1)) = SumFunctionOnSet(f, a..b)
<1> DEFINE Old(n) == SumFunctionOnSet(f, a..(a + n - 1))
           New(n) == SumFunctionOnSet(g, (a + 1)..(a + n))
           Bad == {n \in Nat : n <= b - a + 1 /\ New(n) # Old(n)}
<1>1. \A n \in Nat : n <= b - a + 1 /\ n \notin Bad => New(n) = Old(n)
  OBVIOUS
<1>2. \A n \in Bad : n \in Nat /\ n <= b - a + 1 /\ New(n) # Old(n)
  OBVIOUS
<1>3. ASSUME Bad # {} PROVE FALSE
  <2>1. PICK n \in Bad : \A m \in Bad : n <= m
    <3>1. Bad \subseteq Nat
      OBVIOUS
    <3> HIDE DEF Bad
    <3> QED
      BY <1>3, <3>1, LeastNatural
  <2>2. n \in Nat /\ n <= b - a + 1 /\ New(n) # Old(n)
    BY <1>2
  <2>3. n # 0
    <3>1. New(0) = Old(0)
      <4>1. a..(a + 0 - 1) = {} /\ (a + 1)..(a + 0) = {}
        OBVIOUS
      <4> QED
        BY <4>1, SumEmpty
    <3> QED
      BY <2>2, <3>1
  <2>4. New(n - 1) = Old(n - 1)
    <3>1. n - 1 \in Nat /\ n - 1 <= b - a + 1 /\ n - 1 \notin Bad
      <4> HIDE DEF Bad
      <4> QED
        BY <2>1, <2>2, <2>3
    <3> HIDE DEF Bad, New, Old
    <3> QED
      BY <1>1, <3>1
  <2>5. n \in Nat \ {0} /\ a + n \in Int /\ a + n - 1 \in Int /\ a <= a + n - 1 /\ a + 1 <= a + n
    BY <2>2, <2>3
  <2>6. /\ \A i \in a..(a + n - 1) : f[i] \in Int /\ g[i + 1] = f[i]
        /\ \A i \in (a + 1)..(a + n) : i - 1 \in a..b /\ i = (i - 1) + 1
    <3> HIDE DEF Bad, New, Old
    <3> QED
      BY <2>2, <2>5
  <2>7. \A i \in (a + 1)..(a + n) : g[i] \in Int
    BY <2>6
  <2>8. Old(n) = SumFunctionOnSet(f, a..(a + n - 1 - 1)) + f[a + n - 1]
    <3> DEFINE c == a + n - 1
    <3> HIDE DEF c
    <3>1. SumFunctionOnSet(f, a..c) = SumFunctionOnSet(f, a..(c - 1)) + f[c]
      BY <2>5, <2>6, SumOfInterval DEF c
    <3> QED
      BY <3>1 DEF c
  <2>9. New(n) = SumFunctionOnSet(g, (a + 1)..(a + n - 1)) + g[a + n]
    <3> DEFINE c == a + n
               d == a + 1
    <3> HIDE DEF c, d
    <3>1. SumFunctionOnSet(g, d..c) = SumFunctionOnSet(g, d..(c - 1)) + g[c]
      BY <2>5, <2>7, SumOfInterval DEF c, d
    <3> QED
      BY <3>1 DEF c, d
  <2>10. g[a + n] = f[a + n - 1]
    <3>1. a + n - 1 \in a..(a + n - 1) /\ (a + n - 1) + 1 = a + n
      BY <2>5
    <3> QED
      BY <2>6, <3>1
  <2>11. a + n - 1 - 1 = a + (n - 1) - 1 /\ a + n - 1 = a + (n - 1)
    BY <2>5
  <2> QED
    BY <2>2, <2>4, <2>8, <2>9, <2>10, <2>11
<1>4. CASE b - a + 1 \in Nat
  <2> DEFINE n == b - a + 1
  <2>1. New(n) = Old(n)
    <3> HIDE DEF Bad, New, Old
    <3>1. n <= b - a + 1 /\ n \notin Bad
      BY <1>3, <1>4
    <3> HIDE DEF n
    <3> QED
      BY <1>1, <1>4, <3>1 DEF n
  <2>2. a + n - 1 = b /\ a + n = b + 1
    OBVIOUS
  <2> QED
    BY <2>1, <2>2
<1>5. CASE b - a + 1 < 0
  <2>1. a..b = {} /\ (a + 1)..(b + 1) = {}
    BY <1>5
  <2> QED
    BY <2>1, SumEmpty
<1> QED
  BY <1>4, <1>5
\* What appending, replacing and cutting do to a sequence.
LEMMA AppendFacts ==
    ASSUME NEW S, NEW s \in Seq(S), NEW x \in S
    PROVE  /\ Append(s, x) \in Seq(S) /\ Len(Append(s, x)) = Len(s) + 1 /\ Len(s) \in Nat
           /\ Append(s, x)[Len(s) + 1] = x
           /\ \A i \in DOMAIN s : i \in DOMAIN Append(s, x) /\ Append(s, x)[i] = s[i]
           /\ \A i \in DOMAIN Append(s, x) : i \in DOMAIN s \/ i = Len(s) + 1
<1> QED
  OBVIOUS

LEMMA ReplaceFacts ==
    ASSUME NEW S, NEW s \in Seq(S), NEW i \in DOMAIN s, NEW x \in S
    PROVE  /\ [s EXCEPT ![i] = x] \in Seq(S) /\ Len([s EXCEPT ![i] = x]) = Len(s)
           /\ DOMAIN [s EXCEPT ![i] = x] = DOMAIN s
           /\ [s EXCEPT ![i] = x][i] = x
           /\ \A j \in DOMAIN s : j # i => [s EXCEPT ![i] = x][j] = s[j]
<1> QED
  OBVIOUS

LEMMA TailFrom ==
    ASSUME NEW S, NEW s \in Seq(S), NEW k \in Nat, k <= Len(s)
    PROVE  /\ SubSeq(s, k + 1, Len(s)) \in Seq(S)
           /\ Len(SubSeq(s, k + 1, Len(s))) = Len(s) - k
           /\ \A i \in 1..(Len(s) - k) : SubSeq(s, k + 1, Len(s))[i] = s[k + i]
<1> QED
  OBVIOUS

(***************************************************************************)
(* Greatest elements, quotients and images.                                *)
(***************************************************************************)
\* A set of natural numbers with a bound has a greatest element.
LEMMA GreatestNatural ==
    ASSUME NEW S, S \subseteq Nat, S # {}, NEW b \in Nat, \A s \in S : s <= b
    PROVE  \E n \in S : \A m \in S : m <= n
<1> DEFINE Gaps == {g \in 0..b : b - g \in S}
<1>1. Gaps \subseteq Nat /\ Gaps # {}
  <2>1. PICK s \in S : TRUE
    OBVIOUS
  <2>2. s \in Nat /\ s <= b
    BY <2>1
  <2>3. b - s \in 0..b /\ b - (b - s) = s
    BY <2>2
  <2>4. b - s \in Gaps
    BY <2>1, <2>3
  <2>5. \A g \in 0..b : g \in Nat
    OBVIOUS
  <2>6. Gaps \subseteq Nat
    BY <2>5
  <2> HIDE DEF Gaps
  <2> QED
    BY <2>4, <2>6
<1>2. PICK g \in Gaps : \A h \in Gaps : g <= h
  <2> HIDE DEF Gaps
  <2> QED
    BY <1>1, LeastNatural
<1>3. ASSUME NEW m \in S PROVE m <= b - g
  <2>1. m \in Nat /\ m <= b
    OBVIOUS
  <2>2. b - m \in Gaps
    BY <2>1
  <2> QED
    BY <1>2, <2>1, <2>2
<1> QED
  BY <1>2, <1>3

\* A number lies between two multiples of another.
LEMMA Quotients ==
    ASSUME NEW t \in Nat, NEW n \in Nat \ {0}
    PROVE  t \div n \in Nat /\ n * (t \div n) \in Nat /\ n * (t \div n) <= t /\ t < n * (t \div n) + n
<1> DEFINE q == t \div n
           r == t % n
<1>1. q \in Nat /\ t = n * q + r /\ r \in 0..(n - 1)
  OBVIOUS
<1> HIDE DEF q, r
<1>2. n * q \in Nat
  BY <1>1
<1> DEFINE p == n * q
<1>3. p \in Nat /\ t = p + r
  BY <1>1, <1>2
<1> HIDE DEF p
<1>4. p <= t /\ t < p + n
  BY <1>1, <1>3
<1> QED
  BY <1>1, <1>2, <1>4 DEF p, q

LEMMA Multiples ==
    ASSUME NEW d \in Nat, NEW e \in Nat, d < e, NEW n \in Nat
    PROVE  n * d \in Nat /\ n * e \in Nat /\ n * d + n <= n * e
<1> DEFINE g == e - d - 1
<1>1. g \in Nat /\ e = d + 1 + g
  OBVIOUS
<1> HIDE DEF g
<1>2. n * g \in Nat /\ n * d \in Nat
  BY <1>1
<1>3. n * e = n * d + n + n * g
  BY <1>1
<1> QED
  BY <1>2, <1>3

\* A set whose elements a function tells apart is no larger than its image.
LEMMA Countable ==
    ASSUME NEW S, NEW T, IsFiniteSet(T), NEW f \in [S -> T],
           \A x, y \in S : f[x] = f[y] => x = y
    PROVE  IsFiniteSet(S) /\ Cardinality(S) <= Cardinality(T)
<1>1. f \in Injection(S, T)
  BY DEF Injection, IsInjective
<1> QED
  BY <1>1, FS_Injection

\* Two multiples of n are n apart.
LEMMA Spaced ==
    ASSUME NEW a \in Nat, NEW b \in Nat, NEW n \in Nat \ {0}, a % n = 0, b % n = 0, a < b
    PROVE  a + n <= b
<1> DEFINE d == a \div n
           e == b \div n
<1>1. d \in Nat /\ e \in Nat /\ a = n * d /\ b = n * e
  <2>1. d \in Nat /\ a = n * d + (a % n)
    OBVIOUS
  <2>2. e \in Nat /\ b = n * e + (b % n)
    OBVIOUS
  <2>3. n * d \in Nat /\ n * e \in Nat
    BY <2>1, <2>2, Quotients
  <2> HIDE DEF d, e
  <2> QED
    BY <2>1, <2>2, <2>3
<1> HIDE DEF d, e
<1>2. ASSUME ~(d < e) PROVE FALSE
  <2>1. CASE d = e
    BY <1>1, <2>1
  <2>2. CASE e < d
    <3> DEFINE x == n * d
               y == n * e
    <3>1. x \in Nat /\ y \in Nat /\ y + n <= x
      BY <1>1, <2>2, Multiples
    <3>2. x = a /\ y = b
      BY <1>1
    <3> HIDE DEF x, y
    <3> QED
      BY <3>1, <3>2
  <2> QED
    BY <1>1, <1>2, <2>1, <2>2
<1>3. n * d + n <= n * e
  BY <1>1, <1>2, Multiples
<1> DEFINE x == n * d
           y == n * e
<1>4. x = a /\ y = b /\ x + n <= y
  BY <1>1, <1>3
<1> HIDE DEF x, y
<1> QED
  BY <1>4

LEMMA MultipleIs ==
    ASSUME NEW q \in Nat, NEW n \in Nat \ {0}
    PROVE  n * q \in Nat /\ (n * q) % n = 0 /\ (n * q) \div n = q
<1> DEFINE a == n * q
           e == a \div n
           r == a % n
<1>1. a \in Nat
  OBVIOUS
<1>2. e \in Nat /\ r \in 0..(n - 1) /\ a = n * e + r
  BY <1>1
<1> DEFINE b == n * e
<1>3. b \in Nat /\ a = b + r
  BY <1>2
<1> HIDE DEF e, r
<1>4. ASSUME e < q PROVE FALSE
  <2>1. b + n <= a
    BY <1>2, <1>4, Multiples
  <2> HIDE DEF a, b
  <2> QED
    BY <1>1, <1>2, <1>3, <2>1
<1>5. ASSUME q < e PROVE FALSE
  <2>1. a + n <= b
    BY <1>2, <1>5, Multiples
  <2> HIDE DEF a, b
  <2> QED
    BY <1>1, <1>2, <1>3, <2>1
<1>6. e = q
  BY <1>2, <1>4, <1>5
<1>7. b = a
  BY <1>6
<1>8. r = 0
  <2> HIDE DEF a, b
  <2> QED
    BY <1>1, <1>2, <1>3, <1>7
<1> QED
  BY <1>1, <1>6, <1>8 DEF e, r

\* The next multiple of n after t.
LEMMA NextMultiple ==
    ASSUME NEW t \in Nat, NEW n \in Nat \ {0}
    PROVE  /\ t + (n - (t % n)) \in Nat /\ t < t + (n - (t % n))
           /\ (t + (n - (t % n))) % n = 0
<1> DEFINE q == t \div n
           r == t % n
           b == n * q
           w == t + (n - r)
<1>1. q \in Nat /\ r \in 0..(n - 1) /\ t = b + r /\ b \in Nat
  <2>1. q \in Nat /\ r \in 0..(n - 1) /\ t = n * q + r
    OBVIOUS
  <2> HIDE DEF q, r
  <2>2. n * q \in Nat
    BY <2>1
  <2> QED
    BY <2>1, <2>2
<1>2. n * (q + 1) = b + n
  <2> HIDE DEF q
  <2> QED
    BY <1>1
<1>3. (n * (q + 1)) % n = 0
  <2>1. q + 1 \in Nat
    BY <1>1
  <2> DEFINE p == q + 1
  <2> HIDE DEF p, q
  <2>2. (n * p) % n = 0
    BY <2>1, MultipleIs DEF p
  <2> QED
    BY <2>2 DEF p
<1> HIDE DEF q, r, b
<1>4. w = b + n /\ w \in Nat /\ t < w
  BY <1>1
<1>5. w % n = 0
  BY <1>2, <1>3, <1>4
<1> QED
  BY <1>4, <1>5 DEF r

\* A multiple of n between two instants puts them into different periods.
LEMMA LaterPeriod ==
    ASSUME NEW a \in Nat, NEW b \in Nat, NEW w \in Nat, NEW n \in Nat \ {0},
           w % n = 0, a < w, w <= b
    PROVE  a \div n < b \div n
<1> DEFINE x == a \div n
           y == w \div n
           z == b \div n
           nx == n * x
           ny == n * y
           nz == n * z
<1>1. x \in Nat /\ y \in Nat /\ z \in Nat
  BY Quotients
<1>2. nx \in Nat /\ nx <= a
  BY Quotients
<1>3. nz \in Nat /\ b < nz + n
  BY Quotients
<1>4. ny = w
  <2>1. w = n * y + (w % n)
    OBVIOUS
  <2>2. ny \in Nat
    BY Quotients
  <2> HIDE DEF y
  <2>3. w = ny + (w % n)
    BY <2>1
  <2> HIDE DEF ny
  <2> QED
    BY <2>2, <2>3
<1> HIDE DEF x, y, z
<1>5. ASSUME y <= x PROVE FALSE
  <2>1. ny <= nx
    <3>1. CASE y = x
      BY <1>2, <3>1
    <3>2. CASE y < x
      <4>1. ny + n <= nx /\ ny \in Nat
        BY <1>1, <3>2, Multiples
      <4> HIDE DEF nx, ny
      <4> QED
        BY <1>2, <4>1
    <3> QED
      BY <1>1, <1>5, <3>1, <3>2
  <2> HIDE DEF nx, ny
  <2> QED
    BY <1>2, <1>4, <2>1
<1>6. ASSUME z < y PROVE FALSE
  <2>1. nz + n <= ny
    BY <1>1, <1>6, Multiples
  <2> HIDE DEF nz, ny
  <2> QED
    BY <1>3, <1>4, <2>1
<1>7. x < z
  BY <1>1, <1>5, <1>6
<1> QED
  BY <1>7 DEF x, z

(***************************************************************************)
(* Min and Max of FiniteSetsExt.                                           *)
(***************************************************************************)
LEMMA GreaterOf == ASSUME NEW a \in Int, NEW b \in Int
                   PROVE  Max({a, b}) = IF a <= b THEN b ELSE a
<1> DEFINE m == IF a <= b THEN b ELSE a
           P(x) == x \in {a, b} /\ \A y \in {a, b} : x >= y
<1>1. P(m)
  OBVIOUS
<1>2. \A x : P(x) => x = m
  OBVIOUS
<1>3. Max({a, b}) = CHOOSE x : P(x)
  BY DEF Max
<1> HIDE DEF P, m
<1>4. P(CHOOSE x : P(x))
  BY <1>1
<1>5. Max({a, b}) = m
  BY <1>2, <1>3, <1>4
<1> QED
  BY <1>5 DEF m

LEMMA LesserOf == ASSUME NEW a \in Int, NEW b \in Int
                  PROVE  Min({a, b}) = IF a <= b THEN a ELSE b
<1> DEFINE m == IF a <= b THEN a ELSE b
           P(x) == x \in {a, b} /\ \A y \in {a, b} : x <= y
<1>1. P(m)
  OBVIOUS
<1>2. \A x : P(x) => x = m
  OBVIOUS
<1>3. Min({a, b}) = CHOOSE x : P(x)
  BY DEF Min
<1> HIDE DEF P, m
<1>4. P(CHOOSE x : P(x))
  BY <1>1
<1>5. Min({a, b}) = m
  BY <1>2, <1>3, <1>4
<1> QED
  BY <1>5 DEF m

LEMMA GreatestIs ==
    ASSUME NEW S, S \subseteq Nat, NEW s \in S, \A t \in S : t <= s
    PROVE  Max(S) = s
<1>1. s \in S /\ \A t \in S : s >= t
  OBVIOUS
<1>2. Max(S) \in S /\ \A t \in S : Max(S) >= t
  BY <1>1 DEF Max
<1>3. Max(S) \in Nat /\ s \in Nat
  BY <1>2
<1> QED
  BY <1>1, <1>2, <1>3

LEMMA GreatestExists ==
    ASSUME NEW S, S \subseteq Nat, S # {}, NEW b \in Nat, \A t \in S : t <= b
    PROVE  Max(S) \in S /\ \A t \in S : t <= Max(S)
<1>1. PICK n \in S : \A m \in S : m <= n
  BY GreatestNatural
<1>2. Max(S) = n
  BY <1>1, GreatestIs
<1> QED
  BY <1>1, <1>2
=============================================================================
