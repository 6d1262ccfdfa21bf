------------------------------- MODULE DataLemmas -------------------------------
(***************************************************************************)
(* What the proofs of several modules need to know about numbers, about    *)
(* folds and sums over data of any size, about listings of a set, and      *)
(* about the division of a batch among ranks and micro-batches: sorting,   *)
(* chunks, the largest differencing method and the way back.               *)
(*                                                                         *)
(* What holds of every such fold is proved from a minimal counterexample,  *)
(* which exists because < is well-founded on Nat (LeastOutside).           *)
(***************************************************************************)
EXTENDS SeqlenBalancing, DataProtocol, FiniteSetTheorems, SequenceTheorems,
        WellFoundedInduction, TLAPS

--------------------------------------------------------------------------------
(* Numbers                                                                 *)
\* The larger and the smaller of two integers.
LEMMA MaxMin ==
  ASSUME NEW a \in Int, NEW b \in Int
  PROVE  /\ Max({a, b}) = IF a >= b THEN a ELSE b
         /\ Min({a, b}) = IF a <= b THEN a ELSE b
<1>1. \E x \in {a, b} : \A y \in {a, b} : x >= y
  <2>1. CASE a >= b
    BY <2>1
  <2>2. CASE b >= a
    BY <2>2
  <2> QED
    BY <2>1, <2>2
<1>2. \E x \in {a, b} : \A y \in {a, b} : x =< y
  <2>1. CASE a >= b
    BY <2>1
  <2>2. CASE b >= a
    BY <2>2
  <2> QED
    BY <2>1, <2>2
<1>3. Max({a, b}) \in {a, b} /\ \A y \in {a, b} : Max({a, b}) >= y
  BY <1>1, Zenon DEF Max
<1>4. Min({a, b}) \in {a, b} /\ \A y \in {a, b} : Min({a, b}) =< y
  BY <1>2, Zenon DEF Min
<1> QED
  BY <1>3, <1>4

\* Induction on the natural numbers, for sets: the numbers outside of a set have
\* a least one.
LEMMA LeastOutside ==
  ASSUME NEW S \in SUBSET Nat, 0 \in S, \A n \in S : n + 1 \in S
  PROVE  S = Nat
<1> SUFFICES ASSUME Nat \ S # {}
             PROVE  FALSE
  OBVIOUS
<1> DEFINE less == {p \in Nat \X Nat : p[1] < p[2]}
           T == Nat \ S
<1>1. IsWellFoundedOn(less, Nat)
  BY NatLessThanWellFounded, Zenon DEF OpToRel
<1>2. \A x, y \in Nat : y < x => <<y, x>> \in less
  OBVIOUS
<1>3. T # {} /\ T \subseteq Nat
  OBVIOUS
<1> HIDE DEF less, T
<1>4. PICK x \in T : \A y \in T : ~(<<y, x>> \in less)
  BY <1>1, <1>3, WFMin
<1>5. \A y \in T : ~(y < x)
  BY <1>2, <1>3, <1>4
<1>6. x # 0 /\ x - 1 \in Nat /\ x - 1 < x
  BY <1>3, <1>4 DEF T
<1>7. x - 1 \in S
  BY <1>5, <1>6 DEF T
<1> QED
  BY <1>3, <1>4, <1>6, <1>7 DEF T

\* Element number a of block q of length K.
LEMMA DivMod ==
  ASSUME NEW K \in Nat \ {0}, NEW q \in Nat, NEW a \in 0 .. K - 1
  PROVE  (q * K + a) \div K = q /\ (q * K + a) % K = a
<1> DEFINE x == q * K + a
<1>1. x \in Nat /\ q * K \in Nat
  <2>1. PICK y \in Nat : y = q * K
    OBVIOUS
  <2> QED
    BY <2>1
<1>2. x = K * (x \div K) + (x % K) /\ x % K \in 0 .. K - 1 /\ x \div K \in Int
  BY <1>1
<1> HIDE DEF x
<1>3. PICK d \in Int : d = x \div K
  BY <1>2
<1>4. PICK r \in 0 .. K - 1 : r = x % K
  BY <1>2
<1>5. q * K + a = K * d + r
  BY <1>2, <1>3, <1>4 DEF x
<1>6. K * (q - d) = r - a
  <2>1. K * (q - d) = q * K - K * d
    OBVIOUS
  <2> QED
    BY <1>5, <2>1
<1>7. q - d = 0
  <2>1. PICK y \in Int : y = q - d
    OBVIOUS
  <2>2. K * y = r - a /\ r - a < K /\ r - a > -K
    BY <1>6, <2>1
  <2>3. y >= 1 => K * y >= K
    OBVIOUS
  <2>4. y <= -1 => K * y <= -K
    OBVIOUS
  <2> QED
    BY <2>1, <2>2, <2>3, <2>4
<1>8. d = q /\ r = a
  BY <1>6, <1>7
<1> QED
  BY <1>3, <1>4, <1>8 DEF x

\* A nonempty set of integers that is bounded has a largest element.
LEMMA MaxIs ==
  ASSUME NEW S, S \subseteq Int, S # {}, NEW b \in Int, \A y \in S : y <= b
  PROVE  Max(S) \in S /\ \A y \in S : Max(S) >= y
<1>1. \E x \in S : \A y \in S : x >= y
  <2> SUFFICES ASSUME ~\E x \in S : \A y \in S : x >= y
               PROVE  FALSE
    OBVIOUS
  <2> DEFINE Q == {n \in Nat : \A y \in S : y <= b - n}
  <2>1. 0 \in Q
    OBVIOUS
  <2>2. ASSUME NEW n \in Q  PROVE n + 1 \in Q
    <3>1. b - n \notin S
      OBVIOUS
    <3> QED
      BY <3>1
  <2>3. Q = Nat
    <3>1. Q \in SUBSET Nat
      OBVIOUS
    <3> HIDE DEF Q
    <3> QED
      BY <2>1, <2>2, <3>1, LeastOutside
  <2>4. PICK y \in S : TRUE
    OBVIOUS
  <2>5. PICK n \in Nat : n = b - y + 1
    BY <2>4
  <2>6. y <= b - n
    BY <2>3
  <2> QED
    BY <2>5, <2>6
<1> QED
  BY <1>1, Zenon DEF Max

--------------------------------------------------------------------------------
(* Sums                                                                    *)
Pick(s) == CHOOSE x \in s : TRUE
Rest(s) == s \ {Pick(s)}

\* A function of sets that adds up f, one element after the other.
IsSum(g, f, D) ==
  \A s \in D : g[s] = IF s = {} THEN 0 ELSE f[Pick(s)] + g[Rest(s)]

Adding(f, S) == CHOOSE g : g = [s \in SUBSET S |-> IF s = {} THEN 0 ELSE f[Pick(s)] + g[Rest(s)]]

\* The library's sum is this recursive function.
LEMMA FoldIsAdding ==
  ASSUME NEW f
  PROVE  SumFunction(f) = Adding(f, DOMAIN f)[DOMAIN f]
BY Zenon DEF SumFunction, SumFunctionOnSet, FoldFunctionOnSet, MapThenFoldSet, Adding, Pick, Rest

\* Taking an element out of a finite set leaves a smaller one.
LEMMA RestIsSmaller ==
  ASSUME NEW S, IsFiniteSet(S), NEW s \in SUBSET S, s # {}
  PROVE  /\ Pick(s) \in s /\ Rest(s) \in SUBSET S
         /\ Cardinality(s) \in Nat /\ Cardinality(Rest(s)) \in Nat
         /\ Cardinality(Rest(s)) = Cardinality(s) - 1
<1>1. Pick(s) \in s
  BY Zenon DEF Pick
<1>2. IsFiniteSet(s)
  BY FS_Subset
<1> QED
  BY <1>1, <1>2, FS_RemoveElement, FS_CardinalityType DEF Rest

\* Induction on the subsets of a finite set: a set of subsets with the empty one,
\* and with every one of which it has the rest, has them all.
LEMMA SubsetInduction ==
  ASSUME NEW S, IsFiniteSet(S), NEW U, {} \in U,
         \A s \in SUBSET S : s # {} /\ Rest(s) \in U => s \in U
  PROVE  \A s \in SUBSET S : s \in U
<1> DEFINE Done == {n \in Nat : \A s \in SUBSET S : Cardinality(s) <= n => s \in U}
<1>1. \A s \in SUBSET S : Cardinality(s) \in Nat /\ (Cardinality(s) = 0 <=> s = {})
                          /\ Cardinality(s) <= Cardinality(S)
  BY FS_Subset, FS_CardinalityType, FS_EmptySet
<1>2. 0 \in Done
  BY <1>1
<1>3. ASSUME NEW n \in Done  PROVE n + 1 \in Done
  <2>1. ASSUME NEW s \in SUBSET S, Cardinality(s) <= n + 1  PROVE s \in U
    <3>1. CASE s = {}
      BY <3>1
    <3>2. CASE s # {}
      <4>1. Rest(s) \in SUBSET S /\ Cardinality(Rest(s)) <= n
        BY <2>1, <3>2, RestIsSmaller
      <4>2. Rest(s) \in U
        BY <4>1
      <4> QED
        BY <3>2, <4>2
    <3> QED
      BY <3>1, <3>2
  <2> QED
    BY <2>1
<1>4. Done = Nat
  <2>1. Done \in SUBSET Nat
    OBVIOUS
  <2> HIDE DEF Done
  <2> QED
    BY <1>2, <1>3, <2>1, LeastOutside
<1>5. Cardinality(S) \in Done
  BY <1>1, <1>4
<1> QED
  BY <1>1, <1>5

\* The subsets with up to n elements.
Small(S, n) == {s \in SUBSET S : Cardinality(s) <= n}

\* So there is such a function.
LEMMA SumExists ==
  ASSUME NEW S, IsFiniteSet(S), NEW f, \A x \in S : f[x] \in Int
  PROVE  \E g \in [SUBSET S -> Int] : IsSum(g, f, SUBSET S)
<1> DEFINE Done == {n \in Nat : \E g \in [Small(S, n) -> Int] : IsSum(g, f, Small(S, n))}
<1>0. \A s \in SUBSET S : Cardinality(s) \in Nat /\ Cardinality(s) <= Cardinality(S)
                          /\ (Cardinality(s) = 0 <=> s = {})
  BY FS_Subset, FS_CardinalityType, FS_EmptySet
<1>1. 0 \in Done
  <2>1. Small(S, 0) = {{}}
    BY <1>0 DEF Small
  <2>2. [s \in Small(S, 0) |-> 0] \in [Small(S, 0) -> Int]
    OBVIOUS
  <2>3. IsSum([s \in Small(S, 0) |-> 0], f, Small(S, 0))
    BY <2>1 DEF IsSum
  <2> QED
    BY <2>2, <2>3
<1>2. ASSUME NEW n \in Done  PROVE n + 1 \in Done
  <2>1. PICK g \in [Small(S, n) -> Int] : IsSum(g, f, Small(S, n))
    OBVIOUS
  <2> DEFINE h == [s \in Small(S, n + 1) |->
                     IF s \in Small(S, n) THEN g[s] ELSE f[Pick(s)] + g[Rest(s)]]
  <2>2. \A s \in Small(S, n + 1) : s # {} => Pick(s) \in S /\ Rest(s) \in Small(S, n)
    BY RestIsSmaller DEF Small
  <2>3. \A s \in Small(S, n + 1) : s \notin Small(S, n) => s # {}
    BY <1>0 DEF Small
  <2>4. Small(S, n) \subseteq Small(S, n + 1)
    BY <1>0 DEF Small
  <2>5. h \in [Small(S, n + 1) -> Int]
    BY <2>1, <2>2, <2>3
  <2>6. ASSUME NEW s \in Small(S, n + 1)
        PROVE  h[s] = IF s = {} THEN 0 ELSE f[Pick(s)] + h[Rest(s)]
    <3>1. s # {} => h[Rest(s)] = g[Rest(s)]
      BY <2>2, <2>4
    <3>2. CASE s \in Small(S, n)
      BY <2>1, <3>1, <3>2 DEF IsSum
    <3>3. CASE s \notin Small(S, n)
      BY <2>3, <3>1, <3>3
    <3> QED
      BY <3>2, <3>3
  <2>7. IsSum(h, f, Small(S, n + 1))
    BY <2>6 DEF IsSum
  <2> QED
    BY <2>5, <2>7
<1>3. Done = Nat
  <2>1. Done \in SUBSET Nat
    OBVIOUS
  <2> HIDE DEF Done
  <2> QED
    BY <1>1, <1>2, <2>1, LeastOutside
<1>4. Cardinality(S) \in Done /\ Small(S, Cardinality(S)) = SUBSET S
  BY <1>0, <1>3, FS_CardinalityType DEF Small
<1> QED
  BY <1>4

\* The fold is one.
LEMMA AddingIs ==
  ASSUME NEW S, IsFiniteSet(S), NEW f, \A x \in S : f[x] \in Int
  PROVE  /\ Adding(f, S) \in [SUBSET S -> Int]
         /\ IsSum(Adding(f, S), f, SUBSET S)
<1> DEFINE Eq(g) == g = [s \in SUBSET S |-> IF s = {} THEN 0 ELSE f[Pick(s)] + g[Rest(s)]]
<1>1. PICK g \in [SUBSET S -> Int] : IsSum(g, f, SUBSET S)
  BY SumExists
<1>2. Eq(g)
  BY <1>1 DEF IsSum
<1>3. Eq(Adding(f, S))
  BY <1>2, Zenon DEF Adding
<1> DEFINE h == Adding(f, S)
<1>4. h = [s \in SUBSET S |-> IF s = {} THEN 0 ELSE f[Pick(s)] + h[Rest(s)]]
  BY <1>3
<1> HIDE DEF h
<1>5. IsSum(h, f, SUBSET S) /\ DOMAIN h = SUBSET S /\ h = [s \in DOMAIN h |-> h[s]]
  BY <1>4 DEF IsSum
<1> DEFINE U == {s \in SUBSET S : h[s] \in Int}
<1>6. {} \in U
  BY <1>5 DEF IsSum
<1>7. ASSUME NEW s \in SUBSET S, s # {}, Rest(s) \in U  PROVE s \in U
  <2>1. Pick(s) \in S
    BY <1>7, RestIsSmaller
  <2> QED
    BY <1>5, <1>7, <2>1 DEF IsSum
<1>10. \A s \in SUBSET S : h[s] \in Int
  <2> HIDE DEF U
  <2>1. \A s \in SUBSET S : s \in U
    BY <1>6, <1>7, SubsetInduction
  <2> QED
    BY <2>1 DEF U
<1>11. h \in [SUBSET S -> Int]
  BY <1>5, <1>10
<1> QED
  BY <1>5, <1>11 DEF h

\* A sum is a number.
LEMMA SumType ==
  ASSUME NEW D, IsFiniteSet(D), NEW f \in [D -> Int]
  PROVE  /\ SumFunction(f) = Adding(f, D)[D] /\ SumFunction(f) \in Int
         /\ Adding(f, D) \in [SUBSET D -> Int]
         /\ IsSum(Adding(f, D), f, SUBSET D)
<1>1. \A x \in D : f[x] \in Int
  OBVIOUS
<1>2. DOMAIN f = D
  OBVIOUS
<1>3. SumFunction(f) = Adding(f, D)[D]
  BY <1>2, FoldIsAdding, Zenon
<1>4. Adding(f, D) \in [SUBSET D -> Int] /\ IsSum(Adding(f, D), f, SUBSET D)
  BY <1>1, AddingIs, Zenon
<1> QED
  BY <1>3, <1>4

\* Numbers within a range have a sum within that range, times their number, and
\* none of them is greater than the sum.
LEMMA SumBounds ==
  ASSUME NEW D, IsFiniteSet(D), NEW M \in Nat, NEW f \in [D -> 0 .. M]
  PROVE  /\ SumFunction(f) \in 0 .. Cardinality(D) * M
         /\ \A j \in D : f[j] <= SumFunction(f)
<1> DEFINE h == Adding(f, D)
<1>1. f \in [D -> Int]
  OBVIOUS
<1>2. h \in [SUBSET D -> Int] /\ IsSum(h, f, SUBSET D) /\ SumFunction(f) = h[D]
  BY <1>1, SumType
<1> HIDE DEF h
<1> DEFINE U == {s \in SUBSET D : /\ h[s] \in 0 .. Cardinality(s) * M
                                    /\ \A j \in s : f[j] <= h[s]}
<1>3. {} \in U
  <2>1. h[{}] = 0
    BY <1>2 DEF IsSum
  <2>2. Cardinality({}) = 0 /\ 0 * M = 0
    BY FS_EmptySet
  <2> QED
    BY <2>1, <2>2
<1>4. ASSUME NEW s \in SUBSET D, s # {}, Rest(s) \in U  PROVE s \in U
  <2>1. /\ Pick(s) \in s /\ Rest(s) \in SUBSET D
        /\ Cardinality(s) \in Nat /\ Cardinality(Rest(s)) \in Nat
        /\ Cardinality(Rest(s)) = Cardinality(s) - 1
    BY <1>4, RestIsSmaller
  <2>2. h[s] = f[Pick(s)] + h[Rest(s)]
    BY <1>2, <1>4 DEF IsSum
  <2>3. PICK c \in Nat : c = Cardinality(Rest(s))
    BY <2>1
  <2>4. Cardinality(s) = c + 1 /\ Cardinality(s) * M = c * M + M
    BY <2>1, <2>3
  <2>5. c * M \in Nat
    OBVIOUS
  <2>6. PICK b \in Nat : b = c * M
    BY <2>5
  <2>7. h[Rest(s)] \in 0 .. b /\ f[Pick(s)] \in 0 .. M
    BY <1>4, <2>1, <2>3, <2>6
  <2>8. h[s] \in 0 .. b + M
    BY <2>2, <2>7
  <2>9. \A j \in s : f[j] <= h[s]
    <3> TAKE j \in s
    <3>1. CASE j = Pick(s)
      BY <2>2, <2>7, <3>1
    <3>2. CASE j # Pick(s)
      <4>1. j \in Rest(s)
        BY <3>2 DEF Rest
      <4>2. f[j] <= h[Rest(s)] /\ f[j] \in 0 .. M
        BY <1>4, <4>1
      <4> QED
        BY <2>2, <2>7, <4>2
    <3> QED
      BY <3>1, <3>2
  <2> QED
    BY <2>4, <2>6, <2>8, <2>9
<1>5. D \in U
  <2> HIDE DEF U
  <2>1. \A s \in SUBSET D : s \in U
    BY <1>3, <1>4, SubsetInduction
  <2> QED
    BY <2>1
<1> QED
  BY <1>2, <1>5

\* Sums are linear, in the form that is used below.
LEMMA SumLinear ==
  ASSUME NEW D, IsFiniteSet(D),
         NEW f \in [D -> Int], NEW g \in [D -> Int], NEW e \in [D -> Int],
         NEW c \in Int, \A j \in D : 2 * f[j] = g[j] + c * e[j]
  PROVE  2 * SumFunction(f) = SumFunction(g) + c * SumFunction(e)
<1> DEFINE F == Adding(f, D)
           G == Adding(g, D)
           E == Adding(e, D)
<1>1. /\ F \in [SUBSET D -> Int] /\ IsSum(F, f, SUBSET D) /\ SumFunction(f) = F[D]
      /\ G \in [SUBSET D -> Int] /\ IsSum(G, g, SUBSET D) /\ SumFunction(g) = G[D]
      /\ E \in [SUBSET D -> Int] /\ IsSum(E, e, SUBSET D) /\ SumFunction(e) = E[D]
  BY SumType
<1> HIDE DEF F, G, E
<1> DEFINE U == {s \in SUBSET D : 2 * F[s] = G[s] + c * E[s]}
<1>2. {} \in U
  <2>1. F[{}] = 0 /\ G[{}] = 0 /\ E[{}] = 0
    BY <1>1 DEF IsSum
  <2>2. c * 0 = 0
    OBVIOUS
  <2> QED
    BY <2>1, <2>2
<1>3. ASSUME NEW s \in SUBSET D, s # {}, Rest(s) \in U  PROVE s \in U
  <2>1. Pick(s) \in D /\ Rest(s) \in SUBSET D
    BY <1>3, RestIsSmaller
  <2>2. /\ F[s] = f[Pick(s)] + F[Rest(s)]
        /\ G[s] = g[Pick(s)] + G[Rest(s)]
        /\ E[s] = e[Pick(s)] + E[Rest(s)]
    BY <1>1, <1>3 DEF IsSum
  <2>3. PICK x1 \in Int : x1 = f[Pick(s)]
    BY <2>1
  <2>4. PICK x2 \in Int : x2 = g[Pick(s)]
    BY <2>1
  <2>5. PICK x3 \in Int : x3 = e[Pick(s)]
    BY <2>1
  <2>6. PICK y1 \in Int : y1 = F[Rest(s)]
    BY <1>1, <2>1
  <2>7. PICK y2 \in Int : y2 = G[Rest(s)]
    BY <1>1, <2>1
  <2>8. PICK y3 \in Int : y3 = E[Rest(s)]
    BY <1>1, <2>1
  <2>9. c * (x3 + y3) = c * x3 + c * y3 /\ c * x3 \in Int /\ c * y3 \in Int
    OBVIOUS
  <2>10. 2 * x1 = x2 + c * x3 /\ 2 * y1 = y2 + c * y3
    BY <1>3, <2>1, <2>3, <2>4, <2>5, <2>6, <2>7, <2>8
  <2>11. 2 * (x1 + y1) = (x2 + y2) + c * (x3 + y3)
    BY <2>9, <2>10
  <2> QED
    BY <2>2, <2>3, <2>4, <2>5, <2>6, <2>7, <2>8, <2>11
<1>4. D \in U
  <2> HIDE DEF U
  <2>1. \A s \in SUBSET D : s \in U
    BY <1>2, <1>3, SubsetInduction
  <2> QED
    BY <2>1
<1> QED
  BY <1>1, <1>4

\* It does not matter which element is added last.
LEMMA SumTakesAny ==
  ASSUME NEW D, IsFiniteSet(D), NEW f \in [D -> Int]
  PROVE  \A s \in SUBSET D : \A x \in s : Adding(f, D)[s] = f[x] + Adding(f, D)[s \ {x}]
<1> DEFINE h == Adding(f, D)
           Swaps(s) == \A x \in s : h[s] = f[x] + h[s \ {x}]
           Done == {n \in Nat : \A s \in SUBSET D : Cardinality(s) <= n => Swaps(s)}
<1>1. h \in [SUBSET D -> Int] /\ IsSum(h, f, SUBSET D)
  BY SumType
<1> HIDE DEF h
<1>2. \A s \in SUBSET D : Cardinality(s) \in Nat /\ Cardinality(s) <= Cardinality(D)
                          /\ (Cardinality(s) = 0 <=> s = {})
  BY FS_Subset, FS_CardinalityType, FS_EmptySet
<1>3. 0 \in Done
  BY <1>2
<1>4. ASSUME NEW n \in Done  PROVE n + 1 \in Done
  <2>1. ASSUME NEW s \in SUBSET D, Cardinality(s) <= n + 1, NEW x \in s
        PROVE  h[s] = f[x] + h[s \ {x}]
    <3> DEFINE y == Pick(s)
    <3>1. /\ y \in s /\ Rest(s) \in SUBSET D /\ Rest(s) = s \ {y}
          /\ Cardinality(Rest(s)) <= n
      BY <1>2, <2>1, RestIsSmaller DEF Rest
    <3>2. h[s] = f[y] + h[Rest(s)]
      BY <1>1, <2>1 DEF IsSum
    <3> HIDE DEF y
    <3>3. CASE x = y
      BY <3>1, <3>2, <3>3
    <3>4. CASE x # y
      <4>1. x \in Rest(s)
        BY <3>1, <3>4
      <4>2. h[Rest(s)] = f[x] + h[Rest(s) \ {x}]
        BY <3>1, <4>1
      <4>3. /\ s \ {x} \in SUBSET D /\ y \in s \ {x} /\ IsFiniteSet(s)
            /\ Cardinality(s \ {x}) = Cardinality(s) - 1
        BY <3>1, <3>4, FS_Subset, FS_RemoveElement
      <4>4. Cardinality(s \ {x}) <= n
        BY <1>2, <2>1, <4>3
      <4>5. h[s \ {x}] = f[y] + h[(s \ {x}) \ {y}]
        BY <4>3, <4>4
      <4>6. (s \ {x}) \ {y} = Rest(s) \ {x}
        BY <3>1
      <4>7. PICK z \in Int : z = h[Rest(s) \ {x}]
        BY <1>1, <3>1
      <4>8. PICK a \in Int : a = f[x]
        BY <2>1
      <4>9. PICK b \in Int : b = f[y]
        BY <3>1
      <4>10. h[s] = b + (a + z)
        BY <3>2, <4>2, <4>7, <4>8, <4>9
      <4>11. h[s \ {x}] = b + z
        BY <4>5, <4>6, <4>7, <4>9
      <4>12. b + (a + z) = a + (b + z)
        OBVIOUS
      <4> QED
        BY <4>8, <4>10, <4>11, <4>12
    <3> QED
      BY <3>3, <3>4
  <2> QED
    BY <2>1
<1>5. Done = Nat
  <2>1. Done \in SUBSET Nat
    OBVIOUS
  <2> HIDE DEF Done
  <2> QED
    BY <1>3, <1>4, <2>1, LeastOutside
<1>6. Cardinality(D) \in Done
  BY <1>2, <1>5
<1> QED
  BY <1>2, <1>6 DEF h

\* A sum over part of the data looks at that part only.
LEMMA SumOfPart ==
  ASSUME NEW D, IsFiniteSet(D), NEW f \in [D -> Int], NEW E \in SUBSET D, NEW g \in [E -> Int],
         \A x \in E : g[x] = f[x]
  PROVE  SumFunction(g) = Adding(f, D)[E]
<1> DEFINE F == Adding(f, D)
           G == Adding(g, E)
           U == {s \in SUBSET E : F[s] = G[s]}
<1>1. IsFiniteSet(E)
  BY FS_Subset
<1>2. F \in [SUBSET D -> Int] /\ IsSum(F, f, SUBSET D)
  BY SumType
<1>3. G \in [SUBSET E -> Int] /\ IsSum(G, g, SUBSET E) /\ SumFunction(g) = G[E]
  BY <1>1, SumType
<1> HIDE DEF F, G
<1>4. {} \in U
  BY <1>2, <1>3 DEF IsSum
<1>5. ASSUME NEW s \in SUBSET E, s # {}, Rest(s) \in U  PROVE s \in U
  <2>1. Pick(s) \in E
    BY <1>1, <1>5, RestIsSmaller
  <2> QED
    BY <1>2, <1>3, <1>5, <2>1 DEF IsSum
<1>6. E \in U
  <2> HIDE DEF U
  <2>1. \A s \in SUBSET E : s \in U
    BY <1>1, <1>4, <1>5, SubsetInduction
  <2> QED
    BY <2>1
<1> QED
  BY <1>3, <1>6 DEF F

\* A sum is one of its terms and the sum of the others.
LEMMA SumWithout ==
  ASSUME NEW D, IsFiniteSet(D), NEW f \in [D -> Int], NEW x \in D
  PROVE  SumFunction(f) = f[x] + SumFunction([y \in D \ {x} |-> f[y]])
<1> DEFINE E == D \ {x}
           g == [y \in E |-> f[y]]
<1>1. g \in [E -> Int] /\ E \in SUBSET D /\ \A y \in E : g[y] = f[y]
  OBVIOUS
<1> HIDE DEF g
<1>2. SumFunction(g) = Adding(f, D)[E]
  BY <1>1, SumOfPart
<1>3. SumFunction(f) = Adding(f, D)[D]
  BY SumType
<1>4. Adding(f, D)[D] = f[x] + Adding(f, D)[E]
  BY SumTakesAny
<1> QED
  BY <1>2, <1>3, <1>4 DEF g

\* The sum of nothing.
LEMMA SumOfNothing ==
  ASSUME NEW f, DOMAIN f = {}
  PROVE  SumFunction(f) = 0
<1>1. IsFiniteSet({}) /\ {} \in SUBSET {} /\ \A x \in {} : f[x] \in Int
  BY FS_EmptySet
<1>2. IsSum(Adding(f, {}), f, SUBSET {})
  BY <1>1, AddingIs
<1> QED
  BY <1>2, FoldIsAdding DEF IsSum

\* The numbers up to n are n.
LEMMA UpToIsFinite ==
  ASSUME NEW n \in Nat
  PROVE  IsFiniteSet(1 .. n) /\ Cardinality(1 .. n) = n
<1>1. 1 \in Int /\ n \in Int
  OBVIOUS
<1>2. IsFiniteSet(1 .. n) /\ Cardinality(1 .. n) = IF 1 > n THEN 0 ELSE n - 1 + 1
  BY <1>1, FS_Interval, Zenon
<1>3. (IF 1 > n THEN 0 ELSE n - 1 + 1) = n
  OBVIOUS
<1> QED
  BY <1>2, <1>3

\* A sum over a sequence grows by what is appended.
LEMMA SumAppends ==
  ASSUME NEW n \in Nat, NEW f \in [1 .. n + 1 -> Int], NEW g \in [1 .. n -> Int],
         \A x \in 1 .. n : g[x] = f[x]
  PROVE  SumFunction(f) = SumFunction(g) + f[n + 1] /\ SumFunction(g) \in Int
<1>1. n + 1 \in 1 .. n + 1 /\ (1 .. n + 1) \ {n + 1} = 1 .. n
  OBVIOUS
<1>2. IsFiniteSet(1 .. n + 1) /\ IsFiniteSet(1 .. n)
  BY UpToIsFinite
<1>3. [y \in 1 .. n |-> f[y]] = g
  OBVIOUS
<1>4. SumFunction(f) = f[n + 1] + SumFunction(g)
  <2> DEFINE D == 1 .. n + 1
             x == n + 1
  <2>1. IsFiniteSet(D) /\ x \in D /\ f \in [D -> Int] /\ D \ {x} = 1 .. n
    BY <1>1, <1>2
  <2>2. f[n + 1] = f[x]
    OBVIOUS
  <2> HIDE DEF D, x
  <2>3. SumFunction(f) = f[x] + SumFunction([y \in D \ {x} |-> f[y]])
    BY <2>1, SumWithout
  <2>4. [y \in D \ {x} |-> f[y]] = g
    BY <1>3, <2>1
  <2> QED
    BY <2>2, <2>3, <2>4
<1>5. SumFunction(g) \in Int /\ f[n + 1] \in Int
  BY <1>1, <1>2, SumType
<1> QED
  BY <1>4, <1>5

--------------------------------------------------------------------------------
(* Sorting: what comes out is what went in, in another order.                 *)

TotallyOrders(R, D) ==
  /\ \A x \in D : <<x, x>> \notin R
  /\ \A x, y, z \in D : <<x, y>> \in R /\ <<y, z>> \in R => <<x, z>> \in R
  /\ \A x, y \in D : x # y => <<x, y>> \in R \/ <<y, x>> \in R
NumberBefore(x, R, D) == Cardinality({y \in D : <<y, x>> \in R})

\* Of a total order the elements before x are fewer than the elements before a
\* later one, and an element has each number up to the size of the set before it.
LEMMA RankIs ==
  ASSUME NEW D, IsFiniteSet(D), NEW R, TotallyOrders(R, D)
  PROVE  /\ \A x \in D : NumberBefore(x, R, D) \in 0 .. Cardinality(D) - 1
         /\ \A x, y \in D : <<x, y>> \in R => NumberBefore(x, R, D) < NumberBefore(y, R, D)
         /\ \A x, y \in D : NumberBefore(x, R, D) = NumberBefore(y, R, D) => x = y
         /\ \A p \in 1 .. Cardinality(D) : \E x \in D : NumberBefore(x, R, D) = p - 1
<1> USE DEF TotallyOrders
<1> DEFINE Before(x) == {y \in D : <<y, x>> \in R}
           rank == [x \in D |-> NumberBefore(x, R, D)]
           n == Cardinality(D)
<1>1. n \in Nat
  BY FS_CardinalityType
<1>2. ASSUME NEW x \in D  PROVE IsFiniteSet(Before(x)) /\ rank[x] \in Nat /\ rank[x] = Cardinality(Before(x))
  <2>1. Before(x) \in SUBSET D
    OBVIOUS
  <2>2. IsFiniteSet(Before(x))
    BY <2>1, FS_Subset
  <2>3. rank[x] = Cardinality(Before(x))
    BY DEF NumberBefore
  <2> HIDE DEF rank, Before
  <2> QED
    BY <2>2, <2>3, FS_CardinalityType
<1> HIDE DEF rank
<1>3. ASSUME NEW T, T \in SUBSET D, NEW U, U \in SUBSET T, NEW x \in T, x \notin U
      PROVE  Cardinality(U) < Cardinality(T)
  <2>1. IsFiniteSet(T) /\ IsFiniteSet(U)
    <3>1. U \in SUBSET D
      BY <1>3
    <3> QED
      BY <1>3, <3>1, FS_Subset
  <2>2. Cardinality(U) <= Cardinality(T) /\ (Cardinality(T) = Cardinality(U) => T = U)
    BY <1>3, <2>1, FS_Subset
  <2>3. Cardinality(U) \in Nat /\ Cardinality(T) \in Nat
    BY <2>1, FS_CardinalityType
  <2> QED
    BY <1>3, <2>2, <2>3
<1>4. ASSUME NEW x \in D  PROVE rank[x] \in 0 .. n - 1
  <2>1. Before(x) \in SUBSET D /\ x \notin Before(x) /\ D \in SUBSET D
    OBVIOUS
  <2> HIDE DEF Before
  <2>2. Cardinality(Before(x)) < n
    BY <1>3, <2>1
  <2> QED
    BY <1>1, <1>2, <2>2
<1>5. ASSUME NEW x \in D, NEW y \in D, <<x, y>> \in R  PROVE rank[x] < rank[y]
  <2>1. Before(y) \in SUBSET D /\ Before(x) \in SUBSET Before(y) /\ x \in Before(y) /\ x \notin Before(x)
    BY <1>5
  <2> HIDE DEF Before
  <2>2. Cardinality(Before(x)) < Cardinality(Before(y))
    BY <1>3, <2>1
  <2> QED
    BY <1>2, <2>2
<1>6. ASSUME NEW x \in D, NEW y \in D, rank[x] = rank[y]  PROVE x = y
  <2>1. rank[x] \in Nat /\ rank[y] \in Nat
    BY <1>2
  <2>2. ~(<<x, y>> \in R) /\ ~(<<y, x>> \in R)
    BY <1>5, <1>6, <2>1
  <2> QED
    BY <2>2
<1>7. ASSUME NEW p \in 1 .. n  PROVE \E x \in D : rank[x] = p - 1
  <2> DEFINE f == [x \in D |-> rank[x]]
             T == 0 .. n - 1
  <2>1. f \in [D -> T] /\ \A x, y \in D : f[x] = f[y] => x = y
    BY <1>4, <1>6
  <2>2. f \in Injection(D, T)
    <3> HIDE DEF f, T
    <3> QED
      BY <2>1, Zenon DEF Injection, IsInjective
  <2>3. IsFiniteSet(T) /\ Cardinality(T) = n
    <3>1. 0 \in Int /\ n - 1 \in Int
      BY <1>1
    <3>2. IsFiniteSet(T) /\ Cardinality(T) = IF 0 > n - 1 THEN 0 ELSE (n - 1) - 0 + 1
      BY <3>1, FS_Interval, Zenon
    <3>3. (IF 0 > n - 1 THEN 0 ELSE (n - 1) - 0 + 1) = n
      BY <1>1
    <3> QED
      BY <3>2, <3>3
  <2> HIDE DEF T
  <2>4. f \in Surjection(D, T)
    BY <2>2, <2>3, FS_Injection
  <2>5. \A t \in T : \E x \in D : f[x] = t
    <3> HIDE DEF f
    <3> QED
      BY <2>4, Zenon DEF Surjection
  <2>6. p - 1 \in T
    BY <1>1 DEF T
  <2> QED
    BY <2>5, <2>6
<1>8. \A x \in D : rank[x] = NumberBefore(x, R, D)
  BY DEF rank
<1> QED
  BY <1>4, <1>5, <1>6, <1>7, <1>8

\* Orders of n things.
Rearrangements(n) ==
  {f \in [1 .. n -> 1 .. n] : /\ \A p, q \in 1 .. n : f[p] = f[q] => p = q
                              /\ \A i \in 1 .. n : \E p \in 1 .. n : f[p] = i}
Rearranges(t, s) == \E f \in Rearrangements(Len(s)) : t = [p \in 1 .. Len(s) |-> s[f[p]]]

\* Of a list sorted by a relation that is the order of something.
OrdersPlaces(less, D) ==
  /\ \A i \in D : <<i, i>> \notin less
  /\ \A i, j, k \in D : <<i, j>> \in less => <<i, k>> \in less \/ <<k, j>> \in less
  /\ \A i, j, k \in D : <<i, j>> \in less /\ <<j, k>> \in less => <<i, k>> \in less

\* Sort has the elements of the list in an order in which none comes after one
\* that it is to come before.
LEMMA SortRearranges ==
  ASSUME NEW S, NEW s \in Seq(S), NEW less, OrdersPlaces(less, DOMAIN s)
  PROVE  \E f \in Rearrangements(Len(s)) :
            /\ Sort(s, less) = [p \in 1 .. Len(s) |-> s[f[p]]]
            /\ \A p, q \in 1 .. Len(s) : p < q => <<f[q], f[p]>> \notin less
<1> DEFINE n == Len(s)
           D == DOMAIN s
           Ahead(i) == {j \in D : <<j, i>> \in less \/ (j < i /\ <<i, j>> \notin less)}
           R == {p \in D \X D : p \in less \/ (p[1] < p[2] /\ <<p[2], p[1]>> \notin less)}
           rank == [i \in D |-> Cardinality(Ahead(i))]
           f == [p \in D |-> CHOOSE i \in D : Cardinality(Ahead(i)) = p - 1]
<1>1. n \in Nat /\ D = 1 .. n
  OBVIOUS
<1>2. IsFiniteSet(D) /\ Cardinality(D) = n
  BY <1>1, UpToIsFinite
<1>3. /\ \A i \in D : <<i, i>> \notin less
      /\ \A i, j, k \in D : <<i, j>> \in less => <<i, k>> \in less \/ <<k, j>> \in less
      /\ \A i, j, k \in D : <<i, j>> \in less /\ <<j, k>> \in less => <<i, k>> \in less
  BY <1>1 DEF OrdersPlaces
<1>4. \A i, j \in D : <<i, j>> \in R <=> <<i, j>> \in less \/ (i < j /\ <<j, i>> \notin less)
  OBVIOUS
<1>5. \A i \in D : Ahead(i) = {j \in D : <<j, i>> \in R}
  BY <1>4
<1> HIDE DEF R
<1>6. \A i \in D : rank[i] = NumberBefore(i, R, D)
  BY <1>5 DEF NumberBefore
<1>7. \A i \in D : <<i, i>> \notin R
  <2>1. \A i \in D : ~(i < i)
    BY <1>1
  <2> HIDE DEF D
  <2> QED
    BY <1>3, <1>4, <2>1
<1>8. \A i, j \in D : i # j => <<i, j>> \in R \/ <<j, i>> \in R
  <2>1. \A i, j \in D : i # j => i < j \/ j < i
    BY <1>1
  <2> HIDE DEF D
  <2> QED
    BY <1>4, <2>1
<1>9. ASSUME NEW i \in D, NEW j \in D, NEW k \in D, <<i, j>> \in R, <<j, k>> \in R
      PROVE  <<i, k>> \in R
  <2>1. i < j /\ j < k => i < k
    BY <1>1
  <2> HIDE DEF D
  <2> QED
    BY <1>3, <1>4, <1>9, <2>1
<1> HIDE DEF D, rank
<1>10. /\ \A i \in D : rank[i] \in 0 .. n - 1
       /\ \A i, j \in D : <<i, j>> \in R => rank[i] < rank[j]
       /\ \A i, j \in D : rank[i] = rank[j] => i = j
       /\ \A p \in 1 .. n : \E i \in D : rank[i] = p - 1
  <2>1. /\ \A i \in D : rank[i] \in 0 .. Cardinality(D) - 1
        /\ \A i, j \in D : <<i, j>> \in R => rank[i] < rank[j]
        /\ \A i, j \in D : rank[i] = rank[j] => i = j
        /\ \A p \in 1 .. Cardinality(D) : \E i \in D : rank[i] = p - 1
    <3>1. \A i, j, k \in D : <<i, j>> \in R /\ <<j, k>> \in R => <<i, k>> \in R
      BY <1>9
    <3>2. IsFiniteSet(D)
      BY <1>2
    <3>3. TotallyOrders(R, D)
      BY <1>7, <1>8, <3>1, Zenon DEF TotallyOrders
    <3> QED
      BY <1>6, <3>2, <3>3, RankIs
  <2> QED
    BY <1>2, <2>1
<1>11. ASSUME NEW p \in D  PROVE f[p] \in D /\ rank[f[p]] = p - 1
  <2>1. \E i \in D : Cardinality(Ahead(i)) = p - 1
    <3>1. p \in 1 .. n
      BY <1>1
    <3>2. PICK i \in D : rank[i] = p - 1
      BY <1>10, <3>1
    <3> QED
      BY <3>2 DEF rank
  <2>2. f[p] \in D /\ Cardinality(Ahead(f[p])) = p - 1
    <3>1. f[p] = CHOOSE i \in D : Cardinality(Ahead(i)) = p - 1
      OBVIOUS
    <3> HIDE DEF f, Ahead
    <3> QED
      BY <2>1, <3>1
  <2> HIDE DEF f
  <2> QED
    BY <2>2 DEF rank
<1>12. Sort(s, less) = [p \in D |-> s[f[p]]]
  <2> DEFINE sorted == [p \in D |-> s[f[p]]]
  <2>1. sorted = [p \in D |-> s[CHOOSE i \in D : Cardinality(Ahead(i)) = p - 1]]
    OBVIOUS
  <2>2. Sort(s, less) = SubSeq(sorted, 1, n)
    <3>1. Sort(s, less) = SubSeq([p \in D |-> s[CHOOSE i \in D : Cardinality(Ahead(i)) = p - 1]], 1, n)
      BY Zenon DEF Sort, D
    <3> QED
      BY <2>1, <3>1
  <2>3. sorted \in Seq(S) /\ Len(sorted) = n
    <3>1. \A p \in D : s[f[p]] \in S
      <4> HIDE DEF f
      <4> QED
        BY <1>1, <1>11
    <3> HIDE DEF f, D
    <3> QED
      BY <1>1, <3>1
  <2> HIDE DEF sorted
  <2>4. SubSeq(sorted, 1, n) = sorted
    BY <1>1, <2>3
  <2> QED
    BY <2>2, <2>4 DEF sorted
<1>13. f \in Rearrangements(n)
  <2>1. f \in [D -> D]
    BY <1>11
  <2> HIDE DEF f
  <2>2. ASSUME NEW p \in D, NEW q \in D, f[p] = f[q]  PROVE p = q
    <3>1. p - 1 = q - 1
      BY <1>11, <2>2
    <3> QED
      BY <1>1, <3>1
  <2>3. ASSUME NEW i \in D  PROVE \E p \in D : f[p] = i
    <3>1. PICK p \in D : p - 1 = rank[i]
      <4>1. rank[i] \in 0 .. n - 1
        BY <1>10
      <4>2. rank[i] + 1 \in D /\ (rank[i] + 1) - 1 = rank[i]
        BY <1>1, <4>1
      <4> QED
        BY <4>2
    <3>2. f[p] = i
      BY <1>10, <1>11, <3>1
    <3> QED
      BY <3>2
  <2> QED
    BY <2>1, <2>2, <2>3, <1>1 DEF Rearrangements
<1>14. ASSUME NEW p \in D, NEW q \in D, p < q  PROVE <<f[q], f[p]>> \notin less
  <2> HIDE DEF f
  <2>1. f[p] \in D /\ f[q] \in D /\ rank[f[p]] = p - 1 /\ rank[f[q]] = q - 1
    BY <1>11
  <2>2. <<f[q], f[p]>> \in less => rank[f[q]] < rank[f[p]]
    BY <1>4, <1>10, <2>1
  <2> QED
    BY <1>14, <2>1, <2>2, <1>1
<1> HIDE DEF f
<1> QED
  BY <1>1, <1>12, <1>13, <1>14

--------------------------------------------------------------------------------
(* Lists of the elements of a set, and what rearranges them.                  *)

\* Numbers by which a list is sorted order its places.
LEMMA KeysOrder ==
  ASSUME NEW n \in Nat, NEW key \in [1 .. n -> Int]
  PROVE  /\ OrdersPlaces({p \in (1 .. n) \X (1 .. n) : key[p[1]] < key[p[2]]}, 1 .. n)
         /\ \A i, j \in 1 .. n :
               <<i, j>> \in {p \in (1 .. n) \X (1 .. n) : key[p[1]] < key[p[2]]} <=> key[i] < key[j]
<1> DEFINE D == 1 .. n
           less == {p \in D \X D : key[p[1]] < key[p[2]]}
<1>1. \A i, j \in D : <<i, j>> \in less <=> key[i] < key[j]
  OBVIOUS
<1>2. \A i \in D : key[i] \in Int
  OBVIOUS
<1> HIDE DEF less, D
<1>3. OrdersPlaces(less, D)
  BY <1>1, <1>2 DEF OrdersPlaces
<1> QED
  BY <1>1, <1>3 DEF less, D

\* Sorting by a key puts the elements in another order, with the keys ascending.
LEMMA SortByRearranges ==
  ASSUME NEW S, NEW s \in Seq(S), NEW key, DOMAIN key = DOMAIN s, \A i \in DOMAIN s : key[i] \in Int
  PROVE  \E f \in Rearrangements(Len(s)) :
            /\ SortBy(s, key) = [p \in 1 .. Len(s) |-> s[f[p]]]
            /\ \A p, q \in 1 .. Len(s) : p < q => key[f[p]] <= key[f[q]]
<1> DEFINE n == Len(s)
           less == {p \in (1 .. n) \X (1 .. n) : key[p[1]] < key[p[2]]}
<1>1. n \in Nat /\ DOMAIN s = 1 .. n
  OBVIOUS
<1>2. SortBy(s, key) = Sort(s, less)
  BY <1>1, Zenon DEF SortBy, Pairs
<1>3. OrdersPlaces(less, 1 .. n) /\ \A i, j \in 1 .. n : <<i, j>> \in less <=> key[i] < key[j]
  <2> DEFINE k == [i \in 1 .. n |-> key[i]]
  <2>1. k \in [1 .. n -> Int]
    BY <1>1
  <2>2. {p \in (1 .. n) \X (1 .. n) : k[p[1]] < k[p[2]]} = less
    OBVIOUS
  <2>3. \A i \in 1 .. n : k[i] = key[i]
    OBVIOUS
  <2> HIDE DEF k, less, n
  <2>4. OrdersPlaces(less, 1 .. n) /\ \A i, j \in 1 .. n : <<i, j>> \in less <=> k[i] < k[j]
    BY <1>1, <2>1, <2>2, KeysOrder
  <2> QED
    BY <2>3, <2>4
<1> HIDE DEF less
<1>4. PICK f \in Rearrangements(n) :
            /\ Sort(s, less) = [p \in 1 .. n |-> s[f[p]]]
            /\ \A p, q \in 1 .. n : p < q => <<f[q], f[p]>> \notin less
  BY <1>1, <1>3, SortRearranges
<1>5. f \in [1 .. n -> 1 .. n]
  BY <1>4 DEF Rearrangements
<1>6. ASSUME NEW p \in 1 .. n, NEW q \in 1 .. n, p < q  PROVE key[f[p]] <= key[f[q]]
  <2>1. f[p] \in 1 .. n /\ f[q] \in 1 .. n /\ key[f[p]] \in Int /\ key[f[q]] \in Int
    BY <1>1, <1>5
  <2>2. <<f[q], f[p]>> \notin less
    BY <1>4, <1>6
  <2>3. ~(key[f[q]] < key[f[p]])
    BY <1>3, <2>1, <2>2
  <2> HIDE DEF n
  <2> QED
    BY <2>1, <2>3
<1> QED
  BY <1>2, <1>4, <1>6

(* Lists of the elements of a set, each once                               *)
Lists(s, S) ==
  /\ s \in Seq(S)
  /\ \A p, q \in 1 .. Len(s) : s[p] = s[q] => p = q
  /\ \A x \in S : \E p \in 1 .. Len(s) : s[p] = x

\* A list of a set's elements, in another order, is a list of them.
LEMMA RearrangedLists ==
  ASSUME NEW S, NEW s, Lists(s, S), NEW f \in Rearrangements(Len(s)),
         NEW t, t = [p \in 1 .. Len(s) |-> s[f[p]]]
  PROVE  Lists(t, S) /\ Len(t) = Len(s)
<1>1. PICK n \in Nat : n = Len(s)
  BY DEF Lists
<1>2. s \in Seq(S) /\ f \in [1 .. n -> 1 .. n]
  BY <1>1 DEF Lists, Rearrangements
<1>3. \A p \in 1 .. n : s[f[p]] \in S
  BY <1>1, <1>2
<1>4. t \in Seq(S) /\ Len(t) = n
  BY <1>1, <1>3
<1>5. \A p \in 1 .. n : t[p] = s[f[p]]
  BY <1>1
<1>6. \A p, q \in 1 .. n : f[p] = f[q] => p = q
  BY <1>1 DEF Rearrangements
<1>7. \A i \in 1 .. n : \E p \in 1 .. n : f[p] = i
  BY <1>1 DEF Rearrangements
<1>8. ASSUME NEW p \in 1 .. n, NEW q \in 1 .. n, t[p] = t[q]  PROVE p = q
  BY <1>1, <1>2, <1>5, <1>6, <1>8 DEF Lists
<1>9. ASSUME NEW x \in S  PROVE \E p \in 1 .. n : t[p] = x
  <2>1. PICK i \in 1 .. n : s[i] = x
    BY <1>1 DEF Lists
  <2>2. PICK p \in 1 .. n : f[p] = i
    BY <1>7
  <2> QED
    BY <1>5, <2>1, <2>2
<1> QED
  BY <1>1, <1>4, <1>8, <1>9 DEF Lists

\* A list of n elements is as long as there are elements.
LEMMA ListLength ==
  ASSUME NEW S, NEW s, Lists(s, S)
  PROVE  IsFiniteSet(S) /\ Cardinality(S) = Len(s)
<1> DEFINE n == Len(s)
           f == [p \in 1 .. n |-> s[p]]
<1>1. n \in Nat
  BY DEF Lists
<1>2. \A p \in 1 .. n : s[p] \in S
  BY <1>1 DEF Lists
<1>3. f \in [1 .. n -> S] /\ \A p, q \in 1 .. n : f[p] = f[q] => p = q
  BY <1>2 DEF Lists
<1>4. \A x \in S : \E p \in 1 .. n : f[p] = x
  BY DEF Lists
<1>5. IsFiniteSet(1 .. n) /\ Cardinality(1 .. n) = n
  BY <1>1, UpToIsFinite
<1> HIDE DEF f, n
<1>6. f \in Bijection(1 .. n, S)
  BY <1>3, <1>4, Zenon DEF Bijection, Injection, Surjection, IsInjective
<1>7. ExistsBijection(1 .. n, S)
  BY <1>6, Zenon DEF ExistsBijection
<1>8. IsFiniteSet(S) /\ Cardinality(S) = Cardinality(1 .. n)
  BY <1>5, <1>7, FS_Bijection
<1> QED
  BY <1>5, <1>8 DEF n

\* So is the sorted list.
LEMMA SortedLists ==
  ASSUME NEW S, NEW s, Lists(s, S), NEW key, DOMAIN key = DOMAIN s, \A i \in DOMAIN s : key[i] \in Int
  PROVE  Lists(SortBy(s, key), S) /\ Len(SortBy(s, key)) = Len(s)
<1>1. s \in Seq(S)
  BY DEF Lists
<1>2. PICK f \in Rearrangements(Len(s)) : SortBy(s, key) = [p \in 1 .. Len(s) |-> s[f[p]]]
  BY <1>1, SortByRearranges
<1> QED
  BY <1>2, RearrangedLists

\* a has every other element of s from the first on, b those between them.
Halves(s, S, a, b, h, m) ==
  /\ Len(s) = h + m /\ (h = m \/ h = m + 1)
  /\ a \in Seq(S) /\ Len(a) = h
  /\ b \in Seq(S) /\ Len(b) = m
  /\ \A p \in 1 .. h : a[p] = s[2 * p - 1]
  /\ \A p \in 1 .. m : b[p] = s[2 * p]

\* Every other place from the first, and every other from the second.
LEMMA OddPlaces ==
  ASSUME NEW S, NEW s \in Seq(S)
  PROVE  \E h \in Nat : \E m \in Nat : Halves(s, S, EveryOther(s, 1), EveryOther(s, 2), h, m)
<1>1. PICK n \in Nat : n = Len(s)
  OBVIOUS
<1>2. PICK h \in Nat : h = (n - 1) \div 2 + 1
  OBVIOUS
<1>3. PICK m \in Nat : m = (n - 2) \div 2 + 1
  OBVIOUS
<1>4. n = h + m /\ (h = m \/ h = m + 1)
  BY <1>2, <1>3
<1>5. EveryOther(s, 1) = [p \in 1 .. h |-> s[2 * p - 1]]
  <2>1. EveryOther(s, 1) = [p \in 1 .. h |-> s[2 * p - 2 + 1]]
    BY <1>1, <1>2 DEF EveryOther
  <2>2. \A p \in 1 .. h : 2 * p - 2 + 1 = 2 * p - 1
    OBVIOUS
  <2> QED
    BY <2>1, <2>2
<1>6. EveryOther(s, 2) = [p \in 1 .. m |-> s[2 * p]]
  <2>1. EveryOther(s, 2) = [p \in 1 .. m |-> s[2 * p - 2 + 2]]
    BY <1>1, <1>3 DEF EveryOther
  <2>2. \A p \in 1 .. m : 2 * p - 2 + 2 = 2 * p
    OBVIOUS
  <2> QED
    BY <2>1, <2>2
<1>7. \A p \in 1 .. h : 2 * p - 1 \in 1 .. n
  BY <1>4
<1>8. \A p \in 1 .. m : 2 * p \in 1 .. n
  BY <1>4
<1>9. (\A p \in 1 .. h : s[2 * p - 1] \in S) /\ (\A p \in 1 .. m : s[2 * p] \in S)
  BY <1>1, <1>7, <1>8
<1>10. EveryOther(s, 1) \in Seq(S) /\ Len(EveryOther(s, 1)) = h
  BY <1>5, <1>9
<1>11. EveryOther(s, 2) \in Seq(S) /\ Len(EveryOther(s, 2)) = m
  BY <1>6, <1>9
<1>12. \A p \in 1 .. h : EveryOther(s, 1)[p] = s[2 * p - 1]
  BY <1>5
<1>13. \A p \in 1 .. m : EveryOther(s, 2)[p] = s[2 * p]
  BY <1>6
<1>14. Len(s) = h + m
  BY <1>1, <1>4
<1> QED
  BY <1>4, <1>10, <1>11, <1>12, <1>13, <1>14, Zenon DEF Halves

\* What the concatenation of two sequences is.
LEMMA ConcatIs ==
  ASSUME NEW S, NEW a \in Seq(S), NEW b \in Seq(S)
  PROVE  /\ a \o b \in Seq(S) /\ Len(a \o b) = Len(a) + Len(b)
         /\ \A p \in 1 .. Len(a) : (a \o b)[p] = a[p]
         /\ \A p \in 1 .. Len(b) : (a \o b)[Len(a) + p] = b[p]
OBVIOUS

\* What the reversed sequence is.
LEMMA ReverseIs ==
  ASSUME NEW S, NEW s \in Seq(S)
  PROVE  /\ Reverse(s) \in Seq(S) /\ Len(Reverse(s)) = Len(s)
         /\ \A p \in 1 .. Len(s) : Reverse(s)[p] = s[Len(s) - p + 1]
<1>1. PICK n \in Nat : n = Len(s)
  OBVIOUS
<1>2. Reverse(s) = [p \in 1 .. n |-> s[n - p + 1]]
  BY <1>1, Zenon DEF Reverse
<1>3. \A p \in 1 .. n : n - p + 1 \in 1 .. n
  OBVIOUS
<1>4. \A p \in 1 .. n : s[n - p + 1] \in S
  BY <1>1, <1>3
<1> QED
  BY <1>1, <1>2, <1>4

\* The odd places, and then the even ones from the end.
LEMMA EndsRearrange ==
  ASSUME NEW S, NEW s \in Seq(S)
  PROVE  Rearranges(EveryOther(s, 1) \o Reverse(EveryOther(s, 2)), s)
<1> DEFINE a == EveryOther(s, 1)
           b == EveryOther(s, 2)
<1>a. PICK h \in Nat : \E m \in Nat : Halves(s, S, a, b, h, m)
  BY OddPlaces, Zenon
<1>b. PICK m \in Nat : Halves(s, S, a, b, h, m)
  BY <1>a
<1> HIDE DEF a, b
<1>1. /\ Len(s) = h + m /\ (h = m \/ h = m + 1)
      /\ a \in Seq(S) /\ Len(a) = h
      /\ b \in Seq(S) /\ Len(b) = m
      /\ \A p \in 1 .. h : a[p] = s[2 * p - 1]
      /\ \A p \in 1 .. m : b[p] = s[2 * p]
  BY <1>b DEF Halves
<1> DEFINE n == h + m
           r == Reverse(b)
           f == [p \in 1 .. n |-> IF p <= h THEN 2 * p - 1 ELSE 2 * (n - p + 1)]
<1>2. r \in Seq(S) /\ Len(r) = m /\ \A p \in 1 .. m : r[p] = b[m - p + 1]
  BY <1>1, ReverseIs
<1> HIDE DEF r
<1>3. /\ a \o r \in Seq(S) /\ Len(a \o r) = n
      /\ \A p \in 1 .. h : (a \o r)[p] = a[p]
      /\ \A p \in 1 .. m : (a \o r)[h + p] = r[p]
  <2>1. /\ a \o r \in Seq(S) /\ Len(a \o r) = Len(a) + Len(r)
        /\ \A p \in 1 .. Len(a) : (a \o r)[p] = a[p]
        /\ \A p \in 1 .. Len(r) : (a \o r)[Len(a) + p] = r[p]
    <3>1. a \in Seq(S) /\ r \in Seq(S)
      BY <1>1, <1>2
    <3> HIDE DEF n, f
    <3> QED
      BY <3>1, ConcatIs
  <2>2. Len(a) = h /\ Len(r) = m
    BY <1>1, <1>2
  <2> QED
    BY <2>1, <2>2, Zenon
<1> DEFINE c == a \o r
<1>9. c \in Seq(S) /\ Len(c) = n /\ (\A p \in 1 .. h : c[p] = a[p]) /\ \A p \in 1 .. m : c[h + p] = r[p]
  BY <1>3, Zenon
<1> HIDE DEF c
<1>4. ASSUME NEW p \in 1 .. n  PROVE f[p] \in 1 .. n /\ c[p] = s[f[p]]
  <2>1. CASE p <= h
    <3>1. p \in 1 .. h /\ f[p] = 2 * p - 1
      BY <2>1
    <3>2. 2 * p - 1 \in 1 .. n /\ c[p] = s[2 * p - 1]
      BY <1>1, <1>9, <3>1
    <3> QED
      BY <3>1, <3>2
  <2>2. CASE p > h
    <3>1. p - h \in 1 .. m /\ c[p] = r[p - h]
      <4>1. p - h \in 1 .. m /\ h + (p - h) = p
        BY <2>2
      <4> QED
        BY <1>9, <4>1
    <3>2. m - (p - h) + 1 \in 1 .. m /\ m - (p - h) + 1 = n - p + 1
      BY <3>1
    <3>3. c[p] = s[2 * (n - p + 1)]
      BY <1>1, <1>2, <3>1, <3>2
    <3>4. 2 * (n - p + 1) \in 1 .. n
      BY <1>1, <3>2
    <3>5. f[p] = 2 * (n - p + 1)
      BY <2>2
    <3> QED
      BY <3>3, <3>4, <3>5
  <2> HIDE DEF f
  <2> QED
    BY <2>1, <2>2
<1>5. \A p, q \in 1 .. n : f[p] = f[q] => p = q
  OBVIOUS
<1>6. ASSUME NEW i \in 1 .. n  PROVE \E p \in 1 .. n : f[p] = i
  <2>1. PICK k \in Nat : i = 2 * k \/ i = 2 * k + 1
    <3>1. i \div 2 \in Nat /\ (i = 2 * (i \div 2) \/ i = 2 * (i \div 2) + 1)
      OBVIOUS
    <3> QED
      BY <3>1
  <2>2. CASE i = 2 * k
    <3>1. k \in 1 .. m /\ n - k + 1 \in 1 .. n /\ ~(n - k + 1 <= h)
      <4>1. h = m \/ h = m + 1
        BY <1>1
      <4> HIDE DEF f
      <4> QED
        BY <2>2, <4>1
    <3>2. f[n - k + 1] = 2 * (n - (n - k + 1) + 1)
      BY <3>1
    <3>3. 2 * (n - (n - k + 1) + 1) = i
      BY <2>2
    <3> HIDE DEF f, n
    <3> QED
      BY <3>1, <3>2, <3>3
  <2>3. CASE i = 2 * k + 1
    <3>1. k + 1 \in 1 .. h /\ k + 1 \in 1 .. n
      BY <1>1, <2>3
    <3>2. f[k + 1] = 2 * (k + 1) - 1
      BY <3>1
    <3>3. 2 * (k + 1) - 1 = i
      BY <2>3
    <3> HIDE DEF f, n
    <3> QED
      BY <3>1, <3>2, <3>3
  <2> QED
    BY <2>1, <2>2, <2>3
<1>7. f \in Rearrangements(n)
  <2>1. f \in [1 .. n -> 1 .. n]
    BY <1>4
  <2> HIDE DEF f, n
  <2> QED
    BY <1>5, <1>6, <2>1 DEF Rearrangements
<1>8. c = [p \in 1 .. n |-> s[f[p]]]
  <2>1. c = [p \in 1 .. n |-> c[p]]
    <3>1. n \in Nat
      OBVIOUS
    <3> HIDE DEF n, f
    <3> QED
      BY <1>9, <3>1
  <2> HIDE DEF f, n
  <2> QED
    BY <1>4, <2>1
<1> HIDE DEF f
<1> QED
  BY <1>1, <1>7, <1>8 DEF Rearranges, a, b, r, c

\* The odd places from the end, and then the even ones.
LEMMA MiddleRearranges ==
  ASSUME NEW S, NEW s \in Seq(S)
  PROVE  Rearranges(Reverse(EveryOther(s, 1)) \o EveryOther(s, 2), s)
<1> DEFINE a == EveryOther(s, 1)
           b == EveryOther(s, 2)
<1>a. PICK h \in Nat : \E m \in Nat : Halves(s, S, a, b, h, m)
  BY OddPlaces, Zenon
<1>b. PICK m \in Nat : Halves(s, S, a, b, h, m)
  BY <1>a
<1> HIDE DEF a, b
<1>1. /\ Len(s) = h + m /\ (h = m \/ h = m + 1)
      /\ a \in Seq(S) /\ Len(a) = h
      /\ b \in Seq(S) /\ Len(b) = m
      /\ \A p \in 1 .. h : a[p] = s[2 * p - 1]
      /\ \A p \in 1 .. m : b[p] = s[2 * p]
  BY <1>b DEF Halves
<1> DEFINE n == h + m
           r == Reverse(a)
           f == [p \in 1 .. n |-> IF p <= h THEN 2 * (h - p + 1) - 1 ELSE 2 * (p - h)]
<1>2. r \in Seq(S) /\ Len(r) = h /\ \A p \in 1 .. h : r[p] = a[h - p + 1]
  BY <1>1, ReverseIs
<1> HIDE DEF r
<1>3. /\ r \o b \in Seq(S) /\ Len(r \o b) = n
      /\ \A p \in 1 .. h : (r \o b)[p] = r[p]
      /\ \A p \in 1 .. m : (r \o b)[h + p] = b[p]
  <2>1. /\ r \o b \in Seq(S) /\ Len(r \o b) = Len(r) + Len(b)
        /\ \A p \in 1 .. Len(r) : (r \o b)[p] = r[p]
        /\ \A p \in 1 .. Len(b) : (r \o b)[Len(r) + p] = b[p]
    <3>1. r \in Seq(S) /\ b \in Seq(S)
      BY <1>1, <1>2
    <3> HIDE DEF n, f
    <3> QED
      BY <3>1, ConcatIs
  <2>2. Len(r) = h /\ Len(b) = m
    BY <1>1, <1>2
  <2> QED
    BY <2>1, <2>2, Zenon
<1> DEFINE c == r \o b
<1>9. c \in Seq(S) /\ Len(c) = n /\ (\A p \in 1 .. h : c[p] = r[p]) /\ \A p \in 1 .. m : c[h + p] = b[p]
  BY <1>3, Zenon
<1> HIDE DEF c
<1>4. ASSUME NEW p \in 1 .. n  PROVE f[p] \in 1 .. n /\ c[p] = s[f[p]]
  <2>1. CASE p <= h
    <3>1. p \in 1 .. h /\ h - p + 1 \in 1 .. h /\ c[p] = r[p]
      BY <1>9, <2>1
    <3>4. f[p] = 2 * (h - p + 1) - 1
      BY <2>1
    <3>2. r[p] = s[2 * (h - p + 1) - 1]
      BY <1>1, <1>2, <3>1
    <3>3. 2 * (h - p + 1) - 1 \in 1 .. n
      BY <1>1, <3>1
    <3> QED
      BY <3>1, <3>2, <3>3, <3>4
  <2>2. CASE p > h
    <3>1. p - h \in 1 .. m /\ c[p] = b[p - h]
      <4>1. p - h \in 1 .. m /\ h + (p - h) = p
        BY <2>2
      <4> QED
        BY <1>9, <4>1
    <3>4. f[p] = 2 * (p - h)
      BY <2>2
    <3>2. b[p - h] = s[2 * (p - h)] /\ 2 * (p - h) \in 1 .. n
      BY <1>1, <3>1
    <3> QED
      BY <3>1, <3>2, <3>4
  <2> HIDE DEF f
  <2> QED
    BY <2>1, <2>2
<1>5. \A p, q \in 1 .. n : f[p] = f[q] => p = q
  OBVIOUS
<1>6. ASSUME NEW i \in 1 .. n  PROVE \E p \in 1 .. n : f[p] = i
  <2>1. PICK k \in Nat : i = 2 * k \/ i = 2 * k + 1
    <3>1. i \div 2 \in Nat /\ (i = 2 * (i \div 2) \/ i = 2 * (i \div 2) + 1)
      OBVIOUS
    <3> QED
      BY <3>1
  <2>2. CASE i = 2 * k
    <3>1. k \in 1 .. m /\ k + h \in 1 .. n /\ ~(k + h <= h)
      <4>1. h = m \/ h = m + 1
        BY <1>1
      <4> HIDE DEF f
      <4> QED
        BY <2>2, <4>1
    <3>2. f[k + h] = 2 * ((k + h) - h)
      BY <3>1
    <3>3. 2 * ((k + h) - h) = i
      BY <2>2
    <3> HIDE DEF f, n
    <3> QED
      BY <3>1, <3>2, <3>3
  <2>3. CASE i = 2 * k + 1
    <3>1. h - k \in 1 .. h /\ h - k \in 1 .. n
      BY <1>1, <2>3
    <3>2. f[h - k] = 2 * (h - (h - k) + 1) - 1
      BY <3>1
    <3>3. 2 * (h - (h - k) + 1) - 1 = i
      BY <2>3
    <3> HIDE DEF f, n
    <3> QED
      BY <3>1, <3>2, <3>3
  <2> QED
    BY <2>1, <2>2, <2>3
<1>7. f \in Rearrangements(n)
  <2>1. f \in [1 .. n -> 1 .. n]
    BY <1>4
  <2> HIDE DEF f, n
  <2> QED
    BY <1>5, <1>6, <2>1 DEF Rearrangements
<1>8. c = [p \in 1 .. n |-> s[f[p]]]
  <2>1. c = [p \in 1 .. n |-> c[p]]
    <3>1. n \in Nat
      OBVIOUS
    <3> HIDE DEF n, f
    <3> QED
      BY <1>9, <3>1
  <2> HIDE DEF f, n
  <2> QED
    BY <1>4, <2>1
<1> HIDE DEF f
<1> QED
  BY <1>1, <1>7, <1>8 DEF Rearranges, a, b, r, c

--------------------------------------------------------------------------------
(* Lists put together.                                                        *)

\* FlattenSeq appends the lists one after the other.
Flattens(g, f, N, S) ==
  /\ g \in [0 .. N -> Seq(S)]
  /\ g[0] = <<>>
  /\ \A i \in 1 .. N : g[i] = g[i - 1] \o f[i]

\* FlattenSeq puts its sequences together one by one.
LEMMA FlattenIs ==
  ASSUME NEW S, NEW N \in Nat \ {0}, NEW f \in [1 .. N -> Seq(S)]
  PROVE  \E g : Flattens(g, f, N, S) /\ FlattenSeq(f) = g[N]
<1> DEFINE Loop(g, k) == g = [i \in 1 .. k |-> IF i = 1 THEN f[i] ELSE g[i - 1] \o f[i]]
           flatten == CHOOSE g : Loop(g, N)
           Q == {k \in Nat : \E g : Loop(g, k)}
<1>1. FlattenSeq(f) = flatten[N]
  <2>1. Len(f) = N /\ N # 0
    OBVIOUS
  <2>2. FlattenSeq(f) = IF Len(f) = 0 THEN f ELSE
             (CHOOSE g : g = [i \in 1 .. Len(f) |-> IF i = 1 THEN f[i] ELSE g[i - 1] \o f[i]])[Len(f)]
    BY Zenon DEF FlattenSeq
  <2> QED
    BY <2>1, <2>2
<1>2. 0 \in Q
  <2>1. Loop([i \in 1 .. 0 |-> <<>>], 0)
    OBVIOUS
  <2> HIDE DEF Loop
  <2> QED
    BY <2>1
<1>3. ASSUME NEW k \in Q  PROVE k + 1 \in Q
  <2>1. PICK g : Loop(g, k)
    OBVIOUS
  <2> DEFINE h == [i \in 1 .. k + 1 |-> IF i <= k THEN g[i]
                                       ELSE IF i = 1 THEN f[i] ELSE g[k] \o f[i]]
  <2>2. \A i \in 1 .. k : g[i] = IF i = 1 THEN f[i] ELSE g[i - 1] \o f[i]
    BY <2>1
  <2>3. ASSUME NEW i \in 1 .. k + 1  PROVE h[i] = IF i = 1 THEN f[i] ELSE h[i - 1] \o f[i]
    <3>1. CASE i <= k
      <4>1. h[i] = g[i] /\ (i # 1 => h[i - 1] = g[i - 1])
        BY <3>1
      <4>2. i \in 1 .. k
        BY <3>1
      <4> HIDE DEF h
      <4> QED
        BY <2>2, <4>1, <4>2
    <3>2. CASE i = k + 1
      <4>1. h[i] = (IF i = 1 THEN f[i] ELSE g[k] \o f[i]) /\ i - 1 = k
        BY <3>2
      <4>2. i # 1 => h[k] = g[k]
        BY <3>2
      <4> HIDE DEF h
      <4> QED
        BY <4>1, <4>2
    <3> QED
      BY <3>1, <3>2
  <2>4. Loop(h, k + 1)
    <3>1. h = [i \in 1 .. k + 1 |-> h[i]]
      OBVIOUS
    <3> HIDE DEF h
    <3> QED
      BY <2>3, <3>1
  <2>5. \E g_1 : Loop(g_1, k + 1)
    <3> HIDE DEF h, Loop
    <3> QED
      BY <2>4
  <2>6. k + 1 \in Nat
    OBVIOUS
  <2> HIDE DEF Loop
  <2> QED
    BY <2>5, <2>6
<1>4. Loop(flatten, N)
  <2>1. Q \in SUBSET Nat
    OBVIOUS
  <2>2. N \in Q
    <3> HIDE DEF Q
    <3> QED
      BY <1>2, <1>3, <2>1, LeastOutside
  <2>3. \E g : Loop(g, N)
    BY <2>2
  <2> HIDE DEF Loop
  <2> QED
    BY <2>3, Zenon
<1> HIDE DEF flatten, Q
<1>5. \A i \in 1 .. N : flatten[i] = IF i = 1 THEN f[i] ELSE flatten[i - 1] \o f[i]
  BY <1>4
<1> HIDE DEF Loop
<1> DEFINE h == [i \in 0 .. N |-> IF i = 0 THEN <<>> ELSE flatten[i]]
           P == {k \in Nat : k <= N => h[k] \in Seq(S)}
<1>6. h[0] = <<>> /\ (\A i \in 1 .. N : h[i] = flatten[i])
  OBVIOUS
<1>7. ASSUME NEW i \in 1 .. N  PROVE h[i] = h[i - 1] \o f[i]
  <2>1. f[i] \in Seq(S)
    OBVIOUS
  <2>2. CASE i = 1
    <3>1. h[i] = f[i] /\ i - 1 = 0
      BY <1>5, <1>6, <2>2
    <3> HIDE DEF h
    <3> QED
      BY <1>6, <2>1, <3>1
  <2>3. CASE i # 1
    <3>1. i - 1 \in 1 .. N
      BY <2>3
    <3> HIDE DEF h
    <3> QED
      BY <1>5, <1>6, <2>3, <3>1
  <2> QED
    BY <2>2, <2>3
<1>8. 0 \in P
  <2>1. h[0] \in Seq(S)
    BY <1>6
  <2> HIDE DEF h
  <2> QED
    BY <2>1
<1>9. ASSUME NEW k \in P  PROVE k + 1 \in P
  <2> SUFFICES ASSUME k + 1 <= N  PROVE h[k + 1] \in Seq(S)
    OBVIOUS
  <2>1. k + 1 \in 1 .. N /\ (k + 1) - 1 = k /\ h[k] \in Seq(S)
    OBVIOUS
  <2>2. f[k + 1] \in Seq(S)
    BY <2>1
  <2>3. h[k + 1] = h[k] \o f[k + 1]
    BY <1>7, <2>1
  <2> HIDE DEF h
  <2>4. h[k] \o f[k + 1] \in Seq(S)
    BY <2>1, <2>2, ConcatIs
  <2> QED
    BY <2>3, <2>4
<1>10. \A k \in 0 .. N : h[k] \in Seq(S)
  <2>1. P \in SUBSET Nat
    OBVIOUS
  <2>2. P = Nat
    <3> HIDE DEF P
    <3> QED
      BY <1>8, <1>9, <2>1, LeastOutside
  <2> HIDE DEF h
  <2> QED
    BY <2>2
<1>11. Flattens(h, f, N, S)
  <2>1. h \in [0 .. N -> Seq(S)]
    <3>1. h = [i \in 0 .. N |-> h[i]]
      OBVIOUS
    <3> HIDE DEF h
    <3> QED
      BY <1>10, <3>1
  <2> HIDE DEF h
  <2> QED
    BY <1>6, <1>7, <2>1 DEF Flattens
<1>12. h[N] = flatten[N]
  BY <1>6
<1> HIDE DEF h
<1> QED
  BY <1>1, <1>11, <1>12

\* Disjoint lists one after the other list the union of what they list.
LEMMA ConcatLists ==
  ASSUME NEW A, NEW B, A \cap B = {}, NEW a, Lists(a, A), NEW b, Lists(b, B)
  PROVE  Lists(a \o b, A \cup B)
<1> DEFINE S == A \cup B
           c == a \o b
<1>1. PICK h \in Nat, m \in Nat : h = Len(a) /\ m = Len(b)
  BY DEF Lists
<1>2. a \in Seq(S) /\ b \in Seq(S)
  <2>1. a \in Seq(A) /\ b \in Seq(B)
    BY DEF Lists
  <2> QED
    BY <2>1
<1> HIDE DEF S
<1>3. /\ a \o b \in Seq(S) /\ Len(a \o b) = Len(a) + Len(b)
      /\ \A p \in 1 .. Len(a) : (a \o b)[p] = a[p]
      /\ \A p \in 1 .. Len(b) : (a \o b)[Len(a) + p] = b[p]
  BY <1>2, ConcatIs
<1>4. /\ c \in Seq(S) /\ Len(c) = h + m
      /\ \A p \in 1 .. h : c[p] = a[p]
      /\ \A p \in 1 .. m : c[h + p] = b[p]
  BY <1>1, <1>3, Zenon
<1> HIDE DEF c
<1>5. ASSUME NEW p \in 1 .. h + m
      PROVE  (p \in 1 .. h /\ c[p] = a[p]) \/ (p - h \in 1 .. m /\ c[p] = b[p - h])
  <2>1. CASE p <= h
    BY <1>4, <2>1
  <2>2. CASE p > h
    <3>1. p - h \in 1 .. m /\ h + (p - h) = p
      BY <2>2
    <3> QED
      BY <1>4, <3>1
  <2> QED
    BY <2>1, <2>2
<1>6. (\A p \in 1 .. h : a[p] \in A) /\ (\A p \in 1 .. m : b[p] \in B)
  <2>1. a \in Seq(A) /\ b \in Seq(B)
    BY DEF Lists
  <2> QED
    BY <1>1, <2>1
<1>7. ASSUME NEW p \in 1 .. h + m, NEW q \in 1 .. h + m, c[p] = c[q]  PROVE p = q
  <2>1. \A i, j \in 1 .. h : a[i] = a[j] => i = j
    BY <1>1 DEF Lists
  <2>2. \A i, j \in 1 .. m : b[i] = b[j] => i = j
    BY <1>1 DEF Lists
  <2>3. CASE p \in 1 .. h /\ c[p] = a[p] /\ q \in 1 .. h /\ c[q] = a[q]
    BY <1>7, <2>1, <2>3
  <2>4. CASE p - h \in 1 .. m /\ c[p] = b[p - h] /\ q - h \in 1 .. m /\ c[q] = b[q - h]
    <3>1. p - h = q - h
      BY <1>7, <2>2, <2>4
    <3> QED
      BY <3>1
  <2>5. CASE p \in 1 .. h /\ c[p] = a[p] /\ q - h \in 1 .. m /\ c[q] = b[q - h]
    BY <1>6, <1>7, <2>5
  <2>6. CASE p - h \in 1 .. m /\ c[p] = b[p - h] /\ q \in 1 .. h /\ c[q] = a[q]
    BY <1>6, <1>7, <2>6
  <2> QED
    BY <1>5, <2>3, <2>4, <2>5, <2>6
<1>8. ASSUME NEW x \in S  PROVE \E p \in 1 .. h + m : c[p] = x
  <2>1. CASE x \in A
    <3>1. PICK p \in 1 .. h : a[p] = x
      BY <1>1, <2>1 DEF Lists
    <3>2. p \in 1 .. h + m
      OBVIOUS
    <3> QED
      BY <1>4, <3>1, <3>2
  <2>2. CASE x \in B
    <3>1. PICK p \in 1 .. m : b[p] = x
      BY <1>1, <2>2 DEF Lists
    <3>2. h + p \in 1 .. h + m
      OBVIOUS
    <3> QED
      BY <1>4, <3>1, <3>2
  <2> QED
    BY <2>1, <2>2 DEF S
<1> QED
  BY <1>4, <1>7, <1>8 DEF Lists, S, c

\* Lists of disjoint sets, put together, list the union of the sets.
LEMMA FlattenLists ==
  ASSUME NEW S, NEW N \in Nat \ {0}, NEW T, NEW f,
         DOMAIN f = 1 .. N, f = [i \in 1 .. N |-> f[i]],
         \A i \in 1 .. N : Lists(f[i], T[i]),
         \A i, j \in 1 .. N : i # j => T[i] \cap T[j] = {},
         UNION {T[i] : i \in 1 .. N} = S
  PROVE  Lists(FlattenSeq(f), S)
<1> DEFINE U(k) == UNION {T[i] : i \in 1 .. k}
<1>1. f \in [1 .. N -> Seq(S)]
  <2>1. ASSUME NEW i \in 1 .. N  PROVE f[i] \in Seq(S)
    <3>1. f[i] \in Seq(T[i]) /\ T[i] \subseteq S
      BY DEF Lists
    <3> QED
      BY <3>1
  <2> QED
    BY <2>1
<1>2. PICK g : Flattens(g, f, N, S) /\ FlattenSeq(f) = g[N]
  BY <1>1, FlattenIs
<1> DEFINE P == {k \in Nat : k <= N => Lists(g[k], U(k))}
<1>3. 0 \in P
  <2>1. g[0] = <<>> /\ U(0) = {}
    BY <1>2 DEF Flattens
  <2>2. Lists(<<>>, {})
    BY DEF Lists
  <2> HIDE DEF U
  <2> QED
    BY <2>1, <2>2
<1>4. ASSUME NEW k \in P  PROVE k + 1 \in P
  <2> SUFFICES ASSUME k + 1 <= N  PROVE Lists(g[k + 1], U(k + 1))
    OBVIOUS
  <2>1. k + 1 \in 1 .. N /\ (k + 1) - 1 = k /\ Lists(g[k], U(k))
    OBVIOUS
  <2>2. g[k + 1] = g[k] \o f[k + 1] /\ Lists(f[k + 1], T[k + 1])
    BY <1>2, <2>1 DEF Flattens
  <2>3. U(k) \cap T[k + 1] = {}
    <3>1. \A i \in 1 .. k : i \in 1 .. N /\ i # k + 1
      BY <2>1
    <3> QED
      BY <2>1, <3>1
  <2>4. U(k + 1) = U(k) \cup T[k + 1]
    <3>1. 1 .. k + 1 = (1 .. k) \cup {k + 1}
      BY <2>1
    <3> QED
      BY <3>1
  <2> HIDE DEF U
  <2> QED
    BY <2>1, <2>2, <2>3, <2>4, ConcatLists
<1>5. Lists(g[N], U(N))
  <2>1. P \in SUBSET Nat
    OBVIOUS
  <2>2. P = Nat
    <3> HIDE DEF P
    <3> QED
      BY <1>3, <1>4, <2>1, LeastOutside
  <2> HIDE DEF U
  <2> QED
    BY <2>2
<1> QED
  BY <1>2, <1>5

--------------------------------------------------------------------------------
(* Rows picked by index; batches cut into chunks, sent and collected.         *)

\* What is taken out of a list at the places of two lists of places.
LEMMA IndicesOfConcat ==
  ASSUME NEW V, NEW rows \in Seq(V), NEW a \in Seq(1 .. Len(rows)), NEW b \in Seq(1 .. Len(rows))
  PROVE  /\ AtIndices(rows, a \o b) = AtIndices(rows, a) \o AtIndices(rows, b)
         /\ AtIndices(rows, a) \in Seq(V)
<1>1. PICK h \in Nat, m \in Nat : h = Len(a) /\ m = Len(b)
  OBVIOUS
<1>2. PICK n \in Nat : n = Len(rows)
  OBVIOUS
<1>3. a \in Seq(1 .. n) /\ b \in Seq(1 .. n)
  BY <1>2
<1>4. /\ a \o b \in Seq(1 .. n) /\ Len(a \o b) = h + m
      /\ \A p \in 1 .. h : (a \o b)[p] = a[p]
      /\ \A p \in 1 .. m : (a \o b)[h + p] = b[p]
  <2>1. /\ a \o b \in Seq(1 .. n) /\ Len(a \o b) = Len(a) + Len(b)
        /\ \A p \in 1 .. Len(a) : (a \o b)[p] = a[p]
        /\ \A p \in 1 .. Len(b) : (a \o b)[Len(a) + p] = b[p]
    BY <1>3, ConcatIs
  <2> QED
    BY <1>1, <2>1
<1> DEFINE c == a \o b
           x == AtIndices(rows, a)
           y == AtIndices(rows, b)
           z == AtIndices(rows, c)
<1>5. \A i \in 1 .. n : rows[i] \in V
  BY <1>2
<1>6. x = [p \in 1 .. h |-> rows[a[p]]] /\ x \in Seq(V) /\ Len(x) = h
  <2>1. x = [p \in 1 .. h |-> rows[a[p]]]
    BY <1>1, <1>3 DEF AtIndices
  <2>2. \A p \in 1 .. h : a[p] \in 1 .. n
    BY <1>1, <1>3
  <2> QED
    BY <1>5, <2>1, <2>2
<1>7. y = [p \in 1 .. m |-> rows[b[p]]] /\ y \in Seq(V) /\ Len(y) = m
  <2>1. y = [p \in 1 .. m |-> rows[b[p]]]
    BY <1>1, <1>3 DEF AtIndices
  <2>2. \A p \in 1 .. m : b[p] \in 1 .. n
    BY <1>1, <1>3
  <2> QED
    BY <1>5, <2>1, <2>2
<1>8. z = [p \in 1 .. h + m |-> rows[c[p]]]
  BY <1>4 DEF AtIndices
<1> HIDE DEF x, y, z
<1>9. /\ x \o y \in Seq(V) /\ Len(x \o y) = h + m
      /\ \A p \in 1 .. h : (x \o y)[p] = x[p]
      /\ \A p \in 1 .. m : (x \o y)[h + p] = y[p]
  <2>1. /\ x \o y \in Seq(V) /\ Len(x \o y) = Len(x) + Len(y)
        /\ \A p \in 1 .. Len(x) : (x \o y)[p] = x[p]
        /\ \A p \in 1 .. Len(y) : (x \o y)[Len(x) + p] = y[p]
    BY <1>6, <1>7, ConcatIs
  <2> QED
    BY <1>6, <1>7, <2>1
<1>10. c = a \o b
  OBVIOUS
<1> HIDE DEF c
<1> DEFINE w == x \o y
<1>14. /\ w \in Seq(V) /\ Len(w) = h + m
       /\ \A p \in 1 .. h : w[p] = x[p]
       /\ \A p \in 1 .. m : w[h + p] = y[p]
  BY <1>9
<1> HIDE DEF w
<1>11. w = [p \in 1 .. h + m |-> w[p]]
  BY <1>14
<1>12. ASSUME NEW p \in 1 .. h + m  PROVE w[p] = rows[c[p]]
  <2>1. CASE p <= h
    <3>1. p \in 1 .. h
      BY <2>1
    <3>2. w[p] = x[p] /\ c[p] = a[p]
      BY <1>4, <1>14, <1>10, <3>1
    <3> QED
      BY <1>6, <3>1, <3>2
  <2>2. CASE p > h
    <3>1. PICK q \in 1 .. m : p = h + q
      <4>1. p - h \in 1 .. m /\ p = h + (p - h)
        BY <2>2
      <4> QED
        BY <4>1
    <3>2. w[p] = y[q] /\ c[p] = b[q]
      BY <1>4, <1>14, <1>10, <3>1
    <3> QED
      BY <1>7, <3>2
  <2> QED
    BY <2>1, <2>2
<1>13. w = z
  BY <1>8, <1>11, <1>12
<1>15. AtIndices(rows, a \o b) = z
  BY <1>10 DEF z
<1>16. AtIndices(rows, a) \o AtIndices(rows, b) = w
  BY DEF w, x, y
<1>17. AtIndices(rows, a) \in Seq(V)
  BY <1>6 DEF x
<1> QED
  BY <1>13, <1>15, <1>16, <1>17

\* Taking rows out part by part, and all at once.
LEMMA FlattenIndices ==
  ASSUME NEW V, NEW rows \in Seq(V), NEW N \in Nat \ {0}, NEW f \in [1 .. N -> Seq(1 .. Len(rows))]
  PROVE  FlattenSeq([i \in 1 .. N |-> AtIndices(rows, f[i])]) = AtIndices(rows, FlattenSeq(f))
<1> DEFINE e == [i \in 1 .. N |-> AtIndices(rows, f[i])]
           D == 1 .. Len(rows)
<1>1. ASSUME NEW i \in 1 .. N  PROVE f[i] \in Seq(D) /\ AtIndices(rows, f[i]) \in Seq(V)
  <2>1. f[i] \in Seq(D)
    OBVIOUS
  <2> QED
    BY <2>1, IndicesOfConcat
<1>2. e \in [1 .. N -> Seq(V)] /\ \A i \in 1 .. N : e[i] = AtIndices(rows, f[i])
  BY <1>1
<1> HIDE DEF e
<1>3. PICK g : Flattens(g, f, N, D) /\ FlattenSeq(f) = g[N]
  BY FlattenIs
<1>4. PICK h : Flattens(h, e, N, V) /\ FlattenSeq(e) = h[N]
  BY <1>2, FlattenIs
<1> DEFINE P == {k \in Nat : k <= N => h[k] = AtIndices(rows, g[k])}
<1>5. 0 \in P
  <2>1. g[0] = <<>> /\ h[0] = <<>>
    BY <1>3, <1>4 DEF Flattens
  <2>2. AtIndices(rows, <<>>) = <<>>
    BY DEF AtIndices
  <2> QED
    BY <2>1, <2>2
<1>6. ASSUME NEW k \in P  PROVE k + 1 \in P
  <2> SUFFICES ASSUME k + 1 <= N  PROVE h[k + 1] = AtIndices(rows, g[k + 1])
    OBVIOUS
  <2>0. k \in Nat /\ k <= N /\ (k <= N => h[k] = AtIndices(rows, g[k]))
    OBVIOUS
  <2> HIDE DEF P
  <2>1. k + 1 \in 1 .. N /\ (k + 1) - 1 = k /\ h[k] = AtIndices(rows, g[k]) /\ k \in 0 .. N
    BY <2>0
  <2>2. g[k + 1] = g[k] \o f[k + 1] /\ g[k] \in Seq(D)
    <3> HIDE DEF D
    <3> QED
      BY <1>3, <2>1 DEF Flattens
  <2>3. h[k + 1] = h[k] \o e[k + 1]
    BY <1>4, <2>1 DEF Flattens
  <2>4. f[k + 1] \in Seq(D) /\ e[k + 1] = AtIndices(rows, f[k + 1])
    BY <1>1, <1>2, <2>1
  <2>5. AtIndices(rows, g[k] \o f[k + 1]) = AtIndices(rows, g[k]) \o AtIndices(rows, f[k + 1])
    <3>1. \A i, j \in Seq(1 .. Len(rows)) : AtIndices(rows, i \o j) = AtIndices(rows, i) \o AtIndices(rows, j)
      BY IndicesOfConcat
    <3> QED
      BY <2>2, <2>4, <3>1
  <2> QED
    BY <2>1, <2>2, <2>3, <2>4, <2>5
<1>7. h[N] = AtIndices(rows, g[N])
  <2>1. P \in SUBSET Nat
    OBVIOUS
  <2>2. N \in P
    <3> HIDE DEF P
    <3> QED
      BY <1>5, <1>6, <2>1, LeastOutside
  <2>3. N <= N => h[N] = AtIndices(rows, g[N])
    BY <2>2, Zenon
  <2> HIDE DEF P
  <2> QED
    BY <2>3
<1> QED
  BY <1>3, <1>4, <1>7 DEF e

\* Two pieces of a list that meet.
LEMMA Pieces ==
  ASSUME NEW V, NEW rows \in Seq(V), NEW a \in 0 .. Len(rows), NEW b \in a .. Len(rows)
  PROVE  /\ SubSeq(rows, 1, a) \o SubSeq(rows, a + 1, b) = SubSeq(rows, 1, b)
         /\ SubSeq(rows, a + 1, b) \in Seq(V)
<1>1. PICK n \in Nat : n = Len(rows)
  OBVIOUS
<1>2. a \in Nat /\ b \in Nat /\ a <= b /\ b <= n
  BY <1>1
<1> DEFINE x == SubSeq(rows, 1, a)
           y == SubSeq(rows, a + 1, b)
           z == SubSeq(rows, 1, b)
<1>3. x \in Seq(V) /\ Len(x) = a /\ \A p \in 1 .. a : x[p] = rows[p]
  BY <1>1, <1>2
<1>4. y \in Seq(V) /\ Len(y) = b - a /\ \A p \in 1 .. b - a : y[p] = rows[a + p]
  BY <1>1, <1>2
<1>5. z \in Seq(V) /\ Len(z) = b /\ \A p \in 1 .. b : z[p] = rows[p]
  BY <1>1, <1>2
<1> HIDE DEF x, y, z
<1> DEFINE w == x \o y
<1>6. /\ w \in Seq(V) /\ Len(w) = b
      /\ \A p \in 1 .. a : w[p] = x[p]
      /\ \A p \in 1 .. b - a : w[a + p] = y[p]
  <2>1. /\ x \o y \in Seq(V) /\ Len(x \o y) = Len(x) + Len(y)
        /\ \A p \in 1 .. Len(x) : (x \o y)[p] = x[p]
        /\ \A p \in 1 .. Len(y) : (x \o y)[Len(x) + p] = y[p]
    <3>1. x \in Seq(V) /\ y \in Seq(V)
      BY <1>3, <1>4
    <3> HIDE DEF w
    <3> QED
      BY <3>1, ConcatIs
  <2>2. a + (b - a) = b
    BY <1>2
  <2> QED
    BY <1>3, <1>4, <2>1, <2>2
<1> HIDE DEF w
<1>7. ASSUME NEW p \in 1 .. b  PROVE w[p] = rows[p]
  <2>1. CASE p <= a
    BY <1>2, <1>3, <1>6, <2>1
  <2>2. CASE p > a
    <3>1. PICK q \in 1 .. b - a : p = a + q
      <4>1. p - a \in 1 .. b - a /\ p = a + (p - a)
        BY <1>2, <2>2
      <4> QED
        BY <4>1
    <3> QED
      BY <1>4, <1>6, <3>1
  <2> QED
    BY <1>2, <2>1, <2>2
<1>8. w = z
  BY <1>2, <1>5, <1>6, <1>7
<1> QED
  BY <1>4, <1>8 DEF w, x, y, z

\* Places at which a list of n elements is cut into N pieces.
Cuts(at, N, n) ==
  /\ at \in [0 .. N -> 0 .. n]
  /\ at[0] = 0 /\ at[N] = n
  /\ \A i \in 1 .. N : at[i - 1] <= at[i]

CutAt(f, rows, at, N) == f = [i \in 1 .. N |-> SubSeq(rows, at[i - 1] + 1, at[i])]

\* A list that is cut into pieces, put together again.
LEMMA CutAndJoined ==
  ASSUME NEW V, NEW rows \in Seq(V), NEW N \in Nat \ {0}, NEW at, Cuts(at, N, Len(rows)),
         NEW f, CutAt(f, rows, at, N)
  PROVE  FlattenSeq(f) = rows
<1>1. PICK n \in Nat : n = Len(rows)
  OBVIOUS
<1>0. at \in [0 .. N -> 0 .. n] /\ at[0] = 0 /\ at[N] = n /\ \A i \in 1 .. N : at[i - 1] <= at[i]
  BY <1>1 DEF Cuts
<1>2. ASSUME NEW i \in 1 .. N
      PROVE  /\ at[i - 1] \in 0 .. n /\ at[i] \in at[i - 1] .. n
             /\ SubSeq(rows, 1, at[i - 1]) \o SubSeq(rows, at[i - 1] + 1, at[i]) = SubSeq(rows, 1, at[i])
             /\ SubSeq(rows, at[i - 1] + 1, at[i]) \in Seq(V)
  <2>1. i - 1 \in 0 .. N /\ i \in 0 .. N
    OBVIOUS
  <2>2. at[i - 1] \in 0 .. n /\ at[i] \in 0 .. n /\ at[i - 1] <= at[i]
    BY <1>0, <2>1
  <2>3. at[i - 1] \in 0 .. Len(rows) /\ at[i] \in at[i - 1] .. Len(rows)
    BY <1>1, <2>2
  <2> QED
    BY <1>1, <2>3, Pieces
<1>3. f \in [1 .. N -> Seq(V)] /\ \A i \in 1 .. N : f[i] = SubSeq(rows, at[i - 1] + 1, at[i])
  BY <1>2 DEF CutAt
<1>4. PICK g : Flattens(g, f, N, V) /\ FlattenSeq(f) = g[N]
  BY <1>3, FlattenIs
<1> DEFINE P == {k \in Nat : k <= N => g[k] = SubSeq(rows, 1, at[k])}
<1>5. 0 \in P
  <2>1. g[0] = <<>>
    BY <1>4 DEF Flattens
  <2>2. SubSeq(rows, 1, 0) = <<>>
    OBVIOUS
  <2> QED
    BY <1>0, <2>1, <2>2
<1>6. ASSUME NEW k \in P  PROVE k + 1 \in P
  <2> SUFFICES ASSUME k + 1 <= N  PROVE g[k + 1] = SubSeq(rows, 1, at[k + 1])
    OBVIOUS
  <2>0. k \in Nat /\ k <= N /\ (k <= N => g[k] = SubSeq(rows, 1, at[k]))
    OBVIOUS
  <2> HIDE DEF P
  <2>1. k + 1 \in 1 .. N /\ (k + 1) - 1 = k /\ g[k] = SubSeq(rows, 1, at[k])
    BY <2>0
  <2>2. g[k + 1] = g[k] \o f[k + 1]
    BY <1>4, <2>1 DEF Flattens
  <2>3. f[k + 1] = SubSeq(rows, at[k] + 1, at[k + 1])
    BY <1>3, <2>1
  <2>4. SubSeq(rows, 1, at[k]) \o SubSeq(rows, at[k] + 1, at[k + 1]) = SubSeq(rows, 1, at[k + 1])
    BY <1>2, <2>1
  <2> QED
    BY <2>1, <2>2, <2>3, <2>4
<1>7. g[N] = SubSeq(rows, 1, n)
  <2>1. P \in SUBSET Nat
    OBVIOUS
  <2>2. N \in P
    <3> HIDE DEF P
    <3> QED
      BY <1>5, <1>6, <2>1, LeastOutside
  <2>3. N <= N => g[N] = SubSeq(rows, 1, at[N])
    BY <2>2, Zenon
  <2> HIDE DEF P
  <2> QED
    BY <1>0, <2>3
<1>8. SubSeq(rows, 1, n) = rows
  BY <1>1
<1> QED
  BY <1>4, <1>7, <1>8

\* A number of equal parts.
EqualParts(n, parts, each) == n = parts * each
Divided(n, parts) == \E each \in Nat : n = each * parts

\* A number that leaves no remainder is divided into equal parts.
LEMMA DividedIs ==
  ASSUME NEW n \in Nat, NEW d \in Nat \ {0}
  PROVE  /\ n % d = 0 => Divided(n, d)
         /\ Divided(n, d) => \E each \in Nat : EqualParts(n, d, each) /\ (n > 0 => each > 0)
<1>1. \A x, y \in Nat : x * y = y * x
  OBVIOUS
<1>2. ASSUME n % d = 0  PROVE Divided(n, d)
  <2>1. n = d * (n \div d) + (n % d) /\ n \div d \in Nat
    OBVIOUS
  <2>2. PICK q \in Nat : n = d * q
    BY <1>2, <2>1
  <2>3. n = q * d
    BY <1>1, <2>2
  <2> QED
    BY <2>3 DEF Divided
<1>3. ASSUME Divided(n, d)
      PROVE  \E each \in Nat : EqualParts(n, d, each) /\ (n > 0 => each > 0)
  <2>1. PICK each \in Nat : n = each * d
    BY <1>3, Zenon DEF Divided
  <2>2. n = d * each
    BY <1>1, <2>1
  <2>3. n > 0 => each > 0
    <3> SUFFICES ASSUME ~(each > 0)  PROVE n = 0
      OBVIOUS
    <3>1. each = 0 /\ d * 0 = 0
      OBVIOUS
    <3> QED
      BY <2>2, <3>1
  <2> QED
    BY <2>2, <2>3, Zenon DEF EqualParts
<1> QED
  BY <1>2, <1>3

\* The chunks of a batch.
ChunksAre(chunks, rows, c, size, V) ==
  /\ DOMAIN chunks = 1 .. c
  /\ \A d \in 1 .. c : /\ chunks[d] = SubSeq(rows, (d - 1) * size + 1, d * size)
                       /\ chunks[d] \in Seq(V) /\ Len(chunks[d]) = size

\* The chunks of a batch that divides are the batch.
LEMMA ChunksJoined ==
  ASSUME NEW V, NEW c \in Nat \ {0}, NEW size \in Nat, NEW rows \in Seq(V),
         EqualParts(Len(rows), c, size)
  PROVE  Concat(Chunk(rows, c)) = rows /\ ChunksAre(Chunk(rows, c), rows, c, size, V)
<1> USE DEF EqualParts, ChunksAre
<1>1. PICK n \in Nat : n = Len(rows)
  OBVIOUS
<1>2. n \div c = size
  <2>1. c * size = size * c + 0 /\ 0 \in 0 .. c - 1
    OBVIOUS
  <2> QED
    BY <1>1, <2>1, DivMod
<1>3. Chunk(rows, c) = [d \in 1 .. c |-> SubSeq(rows, (d - 1) * size + 1, d * size)]
  BY <1>1, <1>2 DEF Chunk
<1> DEFINE at == [d \in 0 .. c |-> d * size]
<1>4. ASSUME NEW d \in 0 .. c  PROVE d * size \in 0 .. n
  <2>1. PICK e \in Nat : e = c - d
    OBVIOUS
  <2>2. e * size \in Nat /\ d * size \in Nat
    <3>1. \A x, y \in Nat : x * y \in Nat
      OBVIOUS
    <3> QED
      BY <3>1
  <2>3. c * size = d * size + e * size
    <3>1. c = d + e
      BY <2>1
    <3>2. \A x, y, z \in Nat : (x + y) * z = x * z + y * z
      OBVIOUS
    <3> QED
      BY <3>1, <3>2
  <2> QED
    BY <1>1, <2>2, <2>3
<1>5. ASSUME NEW d \in 1 .. c
      PROVE  (d - 1) * size \in 0 .. n /\ d * size \in 0 .. n /\ d * size = (d - 1) * size + size
  <2>1. d - 1 \in 0 .. c /\ d \in 0 .. c
    OBVIOUS
  <2>2. d * size = (d - 1) * size + size
    <3>1. \A x, y \in Int : x * y = (x - 1) * y + y
      OBVIOUS
    <3> QED
      BY <3>1
  <2> QED
    BY <1>4, <2>1, <2>2
<1>6. /\ at \in [0 .. c -> 0 .. n] /\ at[0] = 0 /\ at[c] = n
      /\ \A d \in 1 .. c : at[d - 1] = (d - 1) * size /\ at[d] = d * size
  <2>1. at \in [0 .. c -> 0 .. n]
    BY <1>4
  <2>2. at[0] = 0 /\ at[c] = n
    BY <1>1
  <2> QED
    BY <2>1, <2>2
<1> HIDE DEF at
<1>7. Chunk(rows, c) = [d \in 1 .. c |-> SubSeq(rows, at[d - 1] + 1, at[d])]
  BY <1>3, <1>6
<1>8. \A d \in 1 .. c : at[d - 1] <= at[d]
  <2>1. ASSUME NEW d \in 1 .. c  PROVE at[d - 1] <= at[d]
    <3>1. PICK x \in Nat : x = (d - 1) * size
      BY <1>5
    <3> QED
      BY <1>5, <1>6, <3>1
  <2> QED
    BY <2>1
<1>9. FlattenSeq(Chunk(rows, c)) = rows
  <2>1. Cuts(at, c, Len(rows))
    BY <1>1, <1>6, <1>8 DEF Cuts
  <2> DEFINE f == Chunk(rows, c)
  <2>2. CutAt(f, rows, at, c)
    BY <1>7 DEF CutAt
  <2> HIDE DEF f
  <2>3. FlattenSeq(f) = rows
    BY <2>1, <2>2, CutAndJoined
  <2> QED
    BY <2>3 DEF f
<1>10. ASSUME NEW d \in 1 .. c
       PROVE  SubSeq(rows, (d - 1) * size + 1, d * size) \in Seq(V)
              /\ Len(SubSeq(rows, (d - 1) * size + 1, d * size)) = size
  <2>1. PICK x \in Nat : x = (d - 1) * size /\ d * size = x + size /\ x + size <= n
    BY <1>5
  <2> QED
    BY <1>1, <2>1
<1> QED
  BY <1>3, <1>9, <1>10 DEF Concat

\* What was dispatched and comes back from the first worker of each rank is the
\* batch.
LEMMA CollectedDispatch ==
  ASSUME NEW V, NEW mesh, mesh.dp \in Nat \ {0}, mesh.sp \in Nat \ {0},
         NEW size \in Nat, NEW rows \in Seq(V), EqualParts(Len(rows), mesh.dp, size)
  PROVE  CollectNd(mesh, DispatchNd(mesh, rows)) = rows
<1> USE DEF EqualParts, ChunksAre
<1>1. PICK dp \in Nat \ {0}, sp \in Nat \ {0} : dp = mesh.dp /\ sp = mesh.sp
  OBVIOUS
<1>2. PICK N \in Nat \ {0} : N = dp * sp
  <2>1. \A x, y \in Nat \ {0} : x * y \in Nat \ {0}
    OBVIOUS
  <2> QED
    BY <2>1
<1>3. PICK n \in Nat : n = Len(rows) /\ n = dp * size
  BY <1>1
<1> DEFINE chunks == Chunk(rows, dp)
           rank(w) == ((w - 1) \div sp) + 1
           f == [w \in 1 .. N |-> IF (w - 1) % sp = 0 THEN chunks[rank(w)] ELSE <<>>]
           at == [w \in 0 .. N |-> IF w = 0 THEN 0 ELSE rank(w) * size]
<1>4. \A d \in 1 .. dp : chunks[d] = SubSeq(rows, (d - 1) * size + 1, d * size)
  <2> HIDE DEF f, at, rank
  <2>1. Len(rows) = dp * size
    BY <1>3
  <2> QED
    BY <2>1, ChunksJoined
<1> HIDE DEF chunks
<1>5. ASSUME NEW w \in 1 .. N
      PROVE  \E q \in 0 .. dp - 1 : \E a \in 0 .. sp - 1 :
                w = q * sp + a + 1 /\ (w - 1) % sp = a /\ rank(w) = q + 1
  <2>0. PICK v \in Nat : v = w - 1
    <3> HIDE DEF f, at, rank
    <3> QED
      OBVIOUS
  <2>a. /\ v \div sp \in Nat /\ v % sp \in 0 .. sp - 1
        /\ v = sp * (v \div sp) + (v % sp)
    <3> HIDE DEF f, at, rank
    <3>1. \A x \in Nat : \A y \in Nat \ {0} :
             /\ x \div y \in Nat /\ x % y \in 0 .. y - 1
             /\ x = y * (x \div y) + (x % y)
      OBVIOUS
    <3> QED
      BY <3>1, Zenon
  <2>1. PICK q \in Nat : q = (w - 1) \div sp
    BY <2>0, <2>a, Zenon
  <2>2. PICK a \in 0 .. sp - 1 : a = (w - 1) % sp
    BY <2>0, <2>a, Zenon
  <2>3. w - 1 = sp * ((w - 1) \div sp) + ((w - 1) % sp)
    BY <2>0, <2>a, Zenon
  <2>4. PICK x \in Nat : x = q * sp
    <3>1. \A y, z \in Nat : y * z \in Nat
      OBVIOUS
    <3> QED
      BY <3>1
  <2>5. w = x + a + 1
    <3>1. sp * q = q * sp
      OBVIOUS
    <3> QED
      BY <2>1, <2>2, <2>3, <2>4, <3>1
  <2>6. q < dp
    <3> SUFFICES ASSUME q >= dp  PROVE FALSE
      OBVIOUS
    <3>1. q * sp >= dp * sp
      <4>1. PICK e \in Nat : q = dp + e
        <5>1. q - dp \in Nat /\ q = dp + (q - dp)
          OBVIOUS
        <5> QED
          BY <5>1
      <4>2. (dp + e) * sp = dp * sp + e * sp /\ e * sp \in Nat /\ dp * sp \in Nat
        <5>1. \A i, j, k \in Nat : (i + j) * k = i * k + j * k /\ i * k \in Nat
          OBVIOUS
        <5> QED
          BY <5>1
      <4> QED
        BY <4>1, <4>2
    <3> QED
      BY <1>2, <2>4, <2>5, <3>1
  <2>7. w = q * sp + a + 1 /\ (w - 1) % sp = a /\ rank(w) = q + 1 /\ q \in 0 .. dp - 1
    BY <2>1, <2>2, <2>4, <2>5, <2>6
  <2> HIDE DEF rank, at
  <2> QED
    BY <2>7
<1>6. ASSUME NEW q \in 0 .. dp  PROVE q * size \in 0 .. n
  <2>1. PICK e \in Nat : dp = q + e
    <3>1. dp - q \in Nat /\ dp = q + (dp - q)
      OBVIOUS
    <3> QED
      BY <3>1
  <2>2. (q + e) * size = q * size + e * size /\ e * size \in Nat /\ q * size \in Nat
    <3>1. \A i, j, k \in Nat : (i + j) * k = i * k + j * k /\ i * k \in Nat
      OBVIOUS
    <3> QED
      BY <3>1
  <2> QED
    BY <1>3, <2>1, <2>2
<1>7. \A w \in 1 .. N : at[w] = rank(w) * size /\ at[0] = 0
  OBVIOUS
<1>8. at \in [0 .. N -> 0 .. n]
  <2>1. ASSUME NEW w \in 1 .. N  PROVE rank(w) * size \in 0 .. n
    <3>1. rank(w) \in 0 .. dp
      BY <1>5
    <3> HIDE DEF rank
    <3> QED
      BY <1>6, <3>1
  <2> HIDE DEF rank
  <2> QED
    BY <2>1
<1> HIDE DEF at
<1>9. ASSUME NEW w \in 1 .. N
      PROVE  at[w - 1] <= at[w] /\ f[w] = SubSeq(rows, at[w - 1] + 1, at[w])
  <2>1. PICK q \in 0 .. dp - 1 : \E a \in 0 .. sp - 1 :
                w = q * sp + a + 1 /\ (w - 1) % sp = a /\ rank(w) = q + 1
    BY <1>5
  <2>2. PICK a \in 0 .. sp - 1 : w = q * sp + a + 1 /\ (w - 1) % sp = a /\ rank(w) = q + 1
    BY <2>1
  <2>3. PICK x \in Nat : x = q * sp
    <3>1. \A y, z \in Nat : y * z \in Nat
      OBVIOUS
    <3> QED
      BY <3>1
  <2>4. at[w] = (q + 1) * size
    BY <1>7, <2>2
  <2>5. PICK s \in Nat : s = q * size /\ s + size <= n /\ (q + 1) * size = s + size /\ s <= n
    <3>1. q \in 0 .. dp /\ q + 1 \in 0 .. dp
      OBVIOUS
    <3>0. PICK t \in Nat : t = q * size
      BY <1>6, <3>1
    <3>2. (q + 1) * size = q * size + size
      <4>1. \A i, j \in Nat : (i + 1) * j = i * j + j
        OBVIOUS
      <4> QED
        BY <4>1
    <3>3. (q + 1) * size \in 0 .. n /\ q * size \in 0 .. n
      BY <1>6, <3>1
    <3>4. t + size <= n /\ t <= n
      BY <3>0, <3>2, <3>3
    <3> QED
      BY <3>0, <3>2, <3>4
  <2>6. CASE a = 0
    <3>1. f[w] = SubSeq(rows, s + 1, s + size)
      <4>1. f[w] = chunks[rank(w)]
        BY <2>2, <2>6
      <4>2. chunks[q + 1] = SubSeq(rows, ((q + 1) - 1) * size + 1, (q + 1) * size)
        BY <1>4
      <4>3. (q + 1) - 1 = q
        OBVIOUS
      <4> QED
        BY <2>2, <2>5, <4>1, <4>2, <4>3
    <3>2. at[w - 1] = s
      <4>1. CASE q = 0
        <5>1. x = 0 /\ s = 0
          BY <2>3, <2>5, <4>1
        <5>2. w - 1 = 0
          BY <2>2, <2>3, <2>6, <5>1
        <5> QED
          BY <1>7, <5>1, <5>2
      <4>2. CASE q # 0
        <5>1. PICK r \in Nat : q = r + 1
          <6>1. q - 1 \in Nat /\ q = (q - 1) + 1
            BY <4>2
          <6> QED
            BY <6>1
        <5>2. PICK y \in Nat : y = r * sp
          <6>1. \A i, j \in Nat : i * j \in Nat
            OBVIOUS
          <6> QED
            BY <6>1
        <5>3. x = y + sp
          <6>1. \A i, j \in Nat : (i + 1) * j = i * j + j
            OBVIOUS
          <6> QED
            BY <2>3, <5>1, <5>2, <6>1
        <5>4. w - 1 \in 1 .. N /\ (w - 1) - 1 = r * sp + (sp - 1)
          BY <2>2, <2>3, <2>6, <5>2, <5>3
        <5>5. sp - 1 \in 0 .. sp - 1
          OBVIOUS
        <5>6. rank(w - 1) = r + 1
          <6>1. (r * sp + (sp - 1)) \div sp = r
            BY <5>5, DivMod
          <6> QED
            BY <5>4, <6>1
        <5> QED
          BY <1>7, <2>5, <5>1, <5>4, <5>6
      <4> QED
        BY <4>1, <4>2
    <3> QED
      BY <2>4, <2>5, <3>1, <3>2
  <2>7. CASE a # 0
    <3>1. f[w] = <<>>
      BY <2>2, <2>7
    <3>2. w - 1 \in 1 .. N /\ (w - 1) - 1 = q * sp + (a - 1) /\ a - 1 \in 0 .. sp - 1
      BY <2>2, <2>3, <2>7
    <3>3. rank(w - 1) = q + 1
      <4>1. (q * sp + (a - 1)) \div sp = q
        <5>1. PICK b \in 0 .. sp - 1 : b = a - 1
          BY <3>2
        <5>2. q \in Nat
          OBVIOUS
        <5>3. (q * sp + b) \div sp = q
          BY <5>2, DivMod
        <5> QED
          BY <5>1, <5>3
      <4> QED
        BY <3>2, <4>1
    <3>4. at[w - 1] = s + size /\ at[w] = s + size
      BY <1>7, <2>4, <2>5, <3>2, <3>3
    <3>6. PICK t \in Nat : t = s + size
      OBVIOUS
    <3>5. SubSeq(rows, t + 1, t) = <<>>
      OBVIOUS
    <3> HIDE DEF f, rank
    <3> QED
      BY <3>1, <3>4, <3>5, <3>6
  <2> QED
    BY <2>6, <2>7
<1>10. at[N] = n
  <2>1. N \in 1 .. N /\ N - 1 = (dp - 1) * sp + (sp - 1) /\ sp - 1 \in 0 .. sp - 1 /\ dp - 1 \in Nat
    <3>1. \A i, j \in Nat : i * j = (i - 1) * j + j
      OBVIOUS
    <3>2. N = (dp - 1) * sp + sp
      BY <1>2, <3>1
    <3>3. PICK y \in Int : y = (dp - 1) * sp
      <4>1. \A i, j \in Int : i * j \in Int
        OBVIOUS
      <4>2. dp - 1 \in Int /\ sp \in Int
        OBVIOUS
      <4> QED
        BY <4>1, <4>2
    <3>4. N = y + sp
      BY <3>2, <3>3
    <3>5. N - 1 = y + (sp - 1)
      BY <3>4
    <3> HIDE DEF f, rank
    <3>6. N \in 1 .. N /\ sp - 1 \in 0 .. sp - 1 /\ dp - 1 \in Nat
      OBVIOUS
    <3>7. N - 1 = (dp - 1) * sp + (sp - 1)
      BY <3>3, <3>5, Zenon
    <3> QED
      BY <3>6, <3>7
  <2>2. ((dp - 1) * sp + (sp - 1)) \div sp = dp - 1
    BY <2>1, DivMod
  <2>3. rank(N) = dp
    BY <2>1, <2>2
  <2> QED
    BY <1>3, <1>7, <2>1, <2>3
<1>11. at[0] = 0
  <2>1. 1 \in 1 .. N
    OBVIOUS
  <2> QED
    BY <1>7, <2>1
<1>12. f = [w \in 1 .. N |-> SubSeq(rows, at[w - 1] + 1, at[w])]
  <2>1. f = [w \in 1 .. N |-> f[w]]
    OBVIOUS
  <2> HIDE DEF f
  <2> QED
    BY <1>9, <2>1
<1>13. FlattenSeq(f) = rows
  <2> HIDE DEF f
  <2>1. Cuts(at, N, Len(rows))
    BY <1>3, <1>8, <1>9, <1>10, <1>11 DEF Cuts
  <2>2. CutAt(f, rows, at, N)
    BY <1>12 DEF CutAt
  <2> QED
    BY <2>1, <2>2, CutAndJoined
<1>14. CollectNd(mesh, DispatchNd(mesh, rows)) = FlattenSeq(f)
  <2>1. MeshWorkers(mesh) = 1 .. N
    BY <1>1, <1>2 DEF MeshWorkers
  <2>2. DispatchNd(mesh, rows) = [w \in 1 .. N |-> chunks[rank(w)]]
    BY <1>1, <2>1 DEF DispatchNd, DpRank, chunks
  <2>3. CollectNd(mesh, DispatchNd(mesh, rows)) =
          FlattenSeq([w \in 1 .. N |-> IF (w - 1) % sp = 0 THEN DispatchNd(mesh, rows)[w] ELSE <<>>])
    BY <1>1, <2>1 DEF CollectNd, Concat, IsCollect
  <2> QED
    BY <2>2, <2>3
<1> QED
  BY <1>13, <1>14

--------------------------------------------------------------------------------
(* The parts and states of the largest differencing method.                   *)

\* Parts of the items 1 .. n: every item weighs something, so that a part of sum
\* 0 is one without items.
Parts(n) == [sum : Nat, items : Seq(1 .. n)]
ItemsOf(p) == {p.items[q] : q \in 1 .. Len(p.items)}
IsPart(p, n) ==
  /\ p \in Parts(n)
  /\ Lists(p.items, ItemsOf(p))
  /\ p.sum = 0 <=> ItemsOf(p) = {}

\* The items of a part, and when it has none.
LEMMA PartHas ==
  ASSUME NEW n \in Nat, NEW p, IsPart(p, n)
  PROVE  /\ p.sum \in Nat /\ Len(p.items) \in Nat /\ ItemsOf(p) \subseteq 1 .. n
         /\ p.items = <<>> <=> ItemsOf(p) = {}
         /\ ItemsOf(p) # {} => p.items[1] \in ItemsOf(p)
<1>1. p.sum \in Nat /\ p.items \in Seq(1 .. n)
  BY DEF IsPart, Parts
<1>2. PICK m \in Nat : m = Len(p.items)
  BY <1>1
<1>3. ItemsOf(p) = {p.items[q] : q \in 1 .. m}
  BY <1>2 DEF ItemsOf
<1>4. \A q \in 1 .. m : p.items[q] \in 1 .. n
  BY <1>1, <1>2
<1>5. ItemsOf(p) \subseteq 1 .. n
  BY <1>3, <1>4
<1>6. p.items = <<>> <=> m = 0
  BY <1>1, <1>2
<1>7. m = 0 => ItemsOf(p) = {}
  BY <1>3
<1>8. m # 0 => p.items[1] \in ItemsOf(p)
  <2> SUFFICES ASSUME m # 0  PROVE p.items[1] \in ItemsOf(p)
    OBVIOUS
  <2>1. 1 \in 1 .. m
    OBVIOUS
  <2> QED
    BY <1>3, <2>1
<1> QED
  BY <1>1, <1>2, <1>5, <1>6, <1>7, <1>8

\* What two parts without a common item are together.
LEMMA UnionHas ==
  ASSUME NEW n \in Nat, NEW a, IsPart(a, n), NEW b, IsPart(b, n), ItemsOf(a) \cap ItemsOf(b) = {}
  PROVE  /\ IsPart(Union2(a, b), n)
         /\ ItemsOf(Union2(a, b)) = ItemsOf(a) \cup ItemsOf(b)
<1> DEFINE c == a.items \o b.items
           x == a.sum + b.sum
           A == ItemsOf(a)
           B == ItemsOf(b)
<1>1. Union2(a, b) = [sum |-> x, items |-> c]
  BY DEF Union2
<1>2. a.sum \in Nat /\ b.sum \in Nat /\ (a.sum = 0 <=> A = {}) /\ (b.sum = 0 <=> B = {})
  BY DEF IsPart, Parts
<1>3. x \in Nat /\ (x = 0 <=> A \cup B = {})
  BY <1>2
<1>4. Lists(a.items, A) /\ Lists(b.items, B) /\ A \cap B = {}
  BY DEF IsPart
<1> HIDE DEF A, B
<1>5. Lists(c, A \cup B)
  BY <1>4, ConcatLists
<1>6. A \cup B \subseteq 1 .. n
  BY PartHas DEF A, B
<1> HIDE DEF c, x
<1>7. c \in Seq(A \cup B)
  BY <1>5 DEF Lists
<1>8. c \in Seq(1 .. n)
  BY <1>6, <1>7
<1>9. {c[q] : q \in 1 .. Len(c)} = A \cup B
  <2>1. \A q \in 1 .. Len(c) : c[q] \in A \cup B
    BY <1>7
  <2>2. \A y \in A \cup B : \E q \in 1 .. Len(c) : c[q] = y
    BY <1>5 DEF Lists
  <2> QED
    BY <2>1, <2>2
<1>10. ItemsOf(Union2(a, b)) = A \cup B
  BY <1>1, <1>9 DEF ItemsOf
<1>11. Union2(a, b) \in Parts(n)
  BY <1>1, <1>3, <1>8 DEF Parts
<1>12. Union2(a, b).sum = x /\ Union2(a, b).items = c
  BY <1>1
<1>13. IsPart(Union2(a, b), n)
  BY <1>3, <1>5, <1>10, <1>11, <1>12 DEF IsPart
<1> QED
  BY <1>10, <1>13 DEF A, B

\* A part of one item, and the part without items.
LEMMA ItemHas ==
  ASSUME NEW n \in Nat, NEW i \in 1 .. n, NEW v \in Nat \ {0}
  PROVE  IsPart(Item(i, v), n) /\ ItemsOf(Item(i, v)) = {i}
<1> DEFINE c == <<i>>
<1>1. Item(i, v) = [sum |-> v, items |-> c]
  BY DEF Item
<1>2. c \in Seq(1 .. n) /\ Len(c) = 1 /\ c[1] = i /\ c \in Seq({i})
  OBVIOUS
<1> HIDE DEF c
<1>3. Item(i, v).sum = v /\ Item(i, v).items = c /\ Item(i, v) \in Parts(n)
  BY <1>1, <1>2 DEF Parts
<1>4. ItemsOf(Item(i, v)) = {i}
  <2>1. ItemsOf(Item(i, v)) = {c[q] : q \in 1 .. 1}
    BY <1>2, <1>3 DEF ItemsOf
  <2>2. 1 .. 1 = {1}
    OBVIOUS
  <2> QED
    BY <1>2, <2>1, <2>2
<1>5. Lists(c, {i})
  BY <1>2 DEF Lists
<1> QED
  BY <1>3, <1>4, <1>5 DEF IsPart

\* A new part has no items.
LEMMA NoItemsHas ==
  ASSUME NEW n \in Nat
  PROVE  IsPart(NoItems, n) /\ ItemsOf(NoItems) = {}
<1> DEFINE c == << >>
<1>1. NoItems = [sum |-> 0, items |-> c]
  BY DEF NoItems
<1>2. c \in Seq(1 .. n) /\ Len(c) = 0 /\ c \in Seq({})
  OBVIOUS
<1> HIDE DEF c
<1>3. NoItems.sum = 0 /\ NoItems.items = c /\ NoItems \in Parts(n)
  BY <1>1, <1>2 DEF Parts
<1>4. ItemsOf(NoItems) = {}
  BY <1>2, <1>3 DEF ItemsOf
<1>5. Lists(c, {})
  BY <1>2 DEF Lists
<1> QED
  BY <1>3, <1>4, <1>5 DEF IsPart

\* The comparison of parts by sum, number of items and first item.
LEMMA SmallerIs ==
  ASSUME NEW n \in Nat, NEW a, IsPart(a, n), NEW b, IsPart(b, n)
  PROVE  LET First(p) == IF ItemsOf(p) = {} THEN 0 ELSE p.items[1]
         IN /\ First(a) \in Nat /\ First(b) \in Nat
            /\ Smaller(a, b) <=>
                 \/ a.sum < b.sum
                 \/ a.sum = b.sum /\ Len(a.items) < Len(b.items)
                 \/ a.sum = b.sum /\ Len(a.items) = Len(b.items) /\ First(a) < First(b)
<1> DEFINE First(p) == IF ItemsOf(p) = {} THEN 0 ELSE p.items[1]
<1>1. ASSUME NEW p, IsPart(p, n)
      PROVE  /\ First(p) \in Nat /\ p.sum \in Nat
             /\ Len(p.items) = 0 <=> p.items = <<>>
             /\ p.items = <<>> => First(p) = 0
             /\ p.items # <<>> => First(p) = p.items[1]
  <2>1. /\ p.sum \in Nat /\ ItemsOf(p) \subseteq 1 .. n
        /\ p.items = <<>> <=> ItemsOf(p) = {}
        /\ ItemsOf(p) # {} => p.items[1] \in ItemsOf(p)
    BY <1>1, PartHas
  <2>2. Len(p.items) = 0 <=> p.items = <<>>
    <3>1. p.items \in Seq(1 .. n)
      BY <1>1 DEF IsPart, Parts
    <3> QED
      BY <3>1
  <2>3. First(p) \in Nat
    BY <2>1
  <2> QED
    BY <2>1, <2>2, <2>3
<1>2. Len(a.items) \in Nat /\ Len(b.items) \in Nat
  BY PartHas
<1>3. /\ First(a) \in Nat /\ (Len(a.items) = 0 <=> a.items = <<>>)
      /\ (a.items = <<>> => First(a) = 0) /\ (a.items # <<>> => First(a) = a.items[1])
      /\ First(b) \in Nat /\ (Len(b.items) = 0 <=> b.items = <<>>)
      /\ (b.items = <<>> => First(b) = 0) /\ (b.items # <<>> => First(b) = b.items[1])
  BY <1>1
<1> HIDE DEF First
<1>4. Smaller(a, b) <=>
                 \/ a.sum < b.sum
                 \/ a.sum = b.sum /\ Len(a.items) < Len(b.items)
                 \/ a.sum = b.sum /\ Len(a.items) = Len(b.items) /\ First(a) < First(b)
  BY <1>2, <1>3 DEF Smaller
<1> QED
  BY <1>3, <1>4 DEF First

\* The parts of a state, the ones without items behind the others.
IsState(st, n, k) ==
  /\ st \in [1 .. k -> Parts(n)]
  /\ \A i \in 1 .. k : IsPart(st[i], n)
  /\ \A i, j \in 1 .. k : i # j => ItemsOf(st[i]) \cap ItemsOf(st[j]) = {}
  /\ \A i, j \in 1 .. k : i < j /\ ItemsOf(st[j]) # {} => ItemsOf(st[i]) # {}
StateHas(st, k) == UNION {ItemsOf(st[i]) : i \in 1 .. k}

\* In which no part is without items, or none has more than one: parts are put
\* together from the other end, so that a second item goes to a part only when
\* every part has one.
Spreads(st, k) ==
  \/ \A i \in 1 .. k : ItemsOf(st[i]) # {}
  \/ \A i \in 1 .. k : \A x, y \in ItemsOf(st[i]) : x = y

\* Parts of disjoint items.
Apart(parts, n, k) ==
  /\ parts \in [1 .. k -> Parts(n)]
  /\ \A i \in 1 .. k : IsPart(parts[i], n)
  /\ \A i, j \in 1 .. k : i # j => ItemsOf(parts[i]) \cap ItemsOf(parts[j]) = {}

\* A state whose parts are put in decreasing order has the same items.
LEMMA DecreasingIs ==
  ASSUME NEW n \in Nat, NEW k \in Nat, NEW parts, Apart(parts, n, k)
  PROVE  /\ IsState(Decreasing(parts), n, k)
         /\ StateHas(Decreasing(parts), k) = StateHas(parts, k)
         /\ Spreads(parts, k) => Spreads(Decreasing(parts), k)
<1> DEFINE D == 1 .. k
           less == {p \in D \X D : Smaller(parts[p[2]], parts[p[1]])}
           st == Decreasing(parts)
<1>1. parts \in [D -> Parts(n)] /\ \A i \in D : IsPart(parts[i], n)
  BY DEF Apart
<1>2. parts \in Seq(Parts(n)) /\ Len(parts) = k /\ DOMAIN parts = D
  BY <1>1
<1>3. st = Sort(parts, less)
  BY <1>2, Zenon DEF Decreasing, Pairs
<1>4. \A i, j \in D : <<i, j>> \in less <=> Smaller(parts[j], parts[i])
  OBVIOUS
<1> HIDE DEF less, st
<1> DEFINE First(p) == IF ItemsOf(p) = {} THEN 0 ELSE p.items[1]
           sum == [i \in D |-> parts[i].sum]
           size == [i \in D |-> Len(parts[i].items)]
           first == [i \in D |-> First(parts[i])]
<1>5. \A i \in D : sum[i] \in Nat /\ size[i] \in Nat /\ first[i] \in Nat
  <2>1. ASSUME NEW i \in D  PROVE parts[i].sum \in Nat /\ Len(parts[i].items) \in Nat /\ First(parts[i]) \in Nat
    <3>1. IsPart(parts[i], n)
      BY <1>1
    <3>2. First(parts[i]) \in Nat
      BY <3>1, SmallerIs
    <3> HIDE DEF First
    <3> QED
      BY <3>1, <3>2, PartHas
  <2> QED
    BY <2>1
<1>6. ASSUME NEW i \in D, NEW j \in D
      PROVE  Smaller(parts[i], parts[j]) <=>
               \/ sum[i] < sum[j]
               \/ sum[i] = sum[j] /\ size[i] < size[j]
               \/ sum[i] = sum[j] /\ size[i] = size[j] /\ first[i] < first[j]
  <2>1. IsPart(parts[i], n) /\ IsPart(parts[j], n)
    BY <1>1
  <2>2. Smaller(parts[i], parts[j]) <=>
           \/ parts[i].sum < parts[j].sum
           \/ parts[i].sum = parts[j].sum /\ Len(parts[i].items) < Len(parts[j].items)
           \/ parts[i].sum = parts[j].sum /\ Len(parts[i].items) = Len(parts[j].items)
                 /\ First(parts[i]) < First(parts[j])
    BY <2>1, SmallerIs
  <2>3. /\ sum[i] = parts[i].sum /\ sum[j] = parts[j].sum
        /\ size[i] = Len(parts[i].items) /\ size[j] = Len(parts[j].items)
        /\ first[i] = First(parts[i]) /\ first[j] = First(parts[j])
    OBVIOUS
  <2> HIDE DEF sum, size, first, First
  <2> QED
    BY <2>2, <2>3
<1> HIDE DEF sum, size, first
<1>7. OrdersPlaces(less, D)
  <2>1. \A i \in D : <<i, i>> \notin less
    BY <1>4, <1>5, <1>6
  <2>2. ASSUME NEW i \in D, NEW j \in D, NEW m \in D, <<i, j>> \in less
        PROVE  <<i, m>> \in less \/ <<m, j>> \in less
    <3>1. Smaller(parts[j], parts[i])
      BY <1>4, <2>2
    <3>2. Smaller(parts[m], parts[i]) \/ Smaller(parts[j], parts[m])
      BY <1>5, <1>6, <3>1
    <3> QED
      BY <1>4, <3>2
  <2>3. ASSUME NEW i \in D, NEW j \in D, NEW m \in D, <<i, j>> \in less, <<j, m>> \in less
        PROVE  <<i, m>> \in less
    <3>1. Smaller(parts[j], parts[i]) /\ Smaller(parts[m], parts[j])
      BY <1>4, <2>3
    <3>2. Smaller(parts[m], parts[i])
      BY <1>5, <1>6, <3>1
    <3> QED
      BY <1>4, <3>2
  <2> HIDE DEF D
  <2> QED
    BY <2>1, <2>2, <2>3 DEF OrdersPlaces
<1>8. PICK f \in Rearrangements(k) :
            /\ st = [p \in D |-> parts[f[p]]]
            /\ \A p, q \in D : p < q => <<f[q], f[p]>> \notin less
  <2>1. \E f \in Rearrangements(Len(parts)) :
            /\ Sort(parts, less) = [p \in 1 .. Len(parts) |-> parts[f[p]]]
            /\ \A p, q \in 1 .. Len(parts) : p < q => <<f[q], f[p]>> \notin less
    BY <1>2, <1>7, SortRearranges
  <2> QED
    BY <1>2, <1>3, <2>1
<1>9. f \in [D -> D] /\ (\A p, q \in D : f[p] = f[q] => p = q) /\ \A i \in D : \E p \in D : f[p] = i
  BY <1>8 DEF Rearrangements
<1>10. \A p \in D : st[p] = parts[f[p]] /\ f[p] \in D
  BY <1>8, <1>9
<1>11. st \in [D -> Parts(n)] /\ \A p \in D : IsPart(st[p], n)
  BY <1>1, <1>8, <1>10
<1>12. \A p, q \in D : p # q => ItemsOf(st[p]) \cap ItemsOf(st[q]) = {}
  <2>1. \A i, j \in D : i # j => ItemsOf(parts[i]) \cap ItemsOf(parts[j]) = {}
    BY DEF Apart
  <2> SUFFICES ASSUME NEW p \in D, NEW q \in D, p # q
               PROVE  ItemsOf(st[p]) \cap ItemsOf(st[q]) = {}
    OBVIOUS
  <2>2. f[p] \in D /\ f[q] \in D /\ f[p] # f[q]
    BY <1>9, <1>10
  <2>3. st[p] = parts[f[p]] /\ st[q] = parts[f[q]]
    BY <1>10
  <2> HIDE DEF D
  <2> QED
    BY <2>1, <2>2, <2>3, Zenon
<1>13. ASSUME NEW p \in D, NEW q \in D, p < q, ItemsOf(st[q]) # {}  PROVE ItemsOf(st[p]) # {}
  <2> SUFFICES ASSUME ItemsOf(st[p]) = {}  PROVE FALSE
    OBVIOUS
  <2>1. st[p].sum = 0 /\ st[q].sum # 0 /\ st[q].sum \in Nat
    BY <1>11, <1>13 DEF IsPart, Parts
  <2>2. Smaller(st[p], st[q])
    BY <2>1 DEF Smaller
  <2>3. <<f[q], f[p]>> \in less
    BY <1>4, <1>10, <2>2
  <2> QED
    BY <1>8, <1>13, <2>3
<1>14. StateHas(st, k) = StateHas(parts, k)
  <2>1. \A p \in D : \E i \in D : ItemsOf(st[p]) = ItemsOf(parts[i])
    BY <1>10
  <2>2. ASSUME NEW i \in D  PROVE \E p \in D : ItemsOf(st[p]) = ItemsOf(parts[i])
    <3>1. PICK p \in D : f[p] = i
      BY <1>9
    <3> HIDE DEF D
    <3> QED
      BY <1>10, <3>1, Zenon
  <2> QED
    BY <2>1, <2>2 DEF StateHas
<1>15. Spreads(parts, k) => Spreads(st, k)
  <2>1. CASE \A i \in D : ItemsOf(parts[i]) # {}
    BY <1>10, <2>1 DEF Spreads
  <2>2. CASE \A i \in D : \A x, y \in ItemsOf(parts[i]) : x = y
    BY <1>10, <2>2 DEF Spreads
  <2> QED
    BY <2>1, <2>2 DEF Spreads
<1>16. IsState(st, n, k)
  BY <1>11, <1>12, <1>13 DEF IsState
<1> QED
  BY <1>14, <1>15, <1>16 DEF st

\* A state of the items of idx.
LEMMA StartHas ==
  ASSUME NEW n \in Nat, NEW k \in Nat \ {0}, NEW vals \in [1 .. n -> Nat \ {0}],
         NEW I, I \subseteq 1 .. n, NEW idx, Lists(idx, I),
         Len(idx) = 1 \/ Len(idx) = k
  PROVE  /\ IsState(KKState(idx, vals, k), n, k)
         /\ StateHas(KKState(idx, vals, k), k) = I
         /\ Spreads(KKState(idx, vals, k), k)
<1> DEFINE parts == [i \in 1 .. k |-> IF i <= Len(idx) THEN Item(idx[i], vals[idx[i]]) ELSE NoItems]
<1>1. PICK m \in Nat : m = Len(idx) /\ m \in 1 .. k
  <2>1. 1 \in 1 .. k /\ k \in 1 .. k /\ 1 \in Nat
    OBVIOUS
  <2> HIDE DEF parts
  <2>2. CASE Len(idx) = 1
    BY <2>1, <2>2, Zenon
  <2>3. CASE Len(idx) = k
    BY <2>1, <2>3
  <2> QED
    BY <2>2, <2>3
<1>2. I = {idx[q] : q \in 1 .. m}
  <2>1. \A q \in 1 .. m : idx[q] \in I
    <3>1. idx \in Seq(I)
      BY DEF Lists
    <3> QED
      BY <1>1, <3>1
  <2>2. \A x \in I : \E q \in 1 .. m : idx[q] = x
    BY <1>1 DEF Lists
  <2> QED
    BY <2>1, <2>2
<1>3. /\ \A i \in 1 .. m : idx[i] \in 1 .. n
      /\ \A i, j \in 1 .. m : idx[i] = idx[j] => i = j
  <2>1. \A i \in 1 .. m : idx[i] \in I
    BY <1>2
  <2>2. \A i \in 1 .. m : idx[i] \in 1 .. n
    BY <2>1
  <2>3. \A i, j \in 1 .. m : idx[i] = idx[j] => i = j
    BY <1>1 DEF Lists
  <2> QED
    BY <2>2, <2>3
<1>4. ASSUME NEW i \in 1 .. m
      PROVE  IsPart(parts[i], n) /\ ItemsOf(parts[i]) = {idx[i]}
  <2>1. parts[i] = Item(idx[i], vals[idx[i]])
    <3>1. i \in 1 .. k /\ i <= Len(idx)
      BY <1>1
    <3> QED
      BY <3>1
  <2>2. idx[i] \in 1 .. n /\ vals[idx[i]] \in Nat \ {0}
    BY <1>3
  <2> HIDE DEF parts
  <2> QED
    BY <2>1, <2>2, ItemHas
<1>5. ASSUME NEW i \in (1 .. k) \ (1 .. m)
      PROVE  IsPart(parts[i], n) /\ ItemsOf(parts[i]) = {}
  <2>1. parts[i] = NoItems
    <3>1. i \in 1 .. k /\ ~(i <= Len(idx))
      BY <1>1
    <3> QED
      BY <3>1
  <2> HIDE DEF parts
  <2> QED
    BY <2>1, NoItemsHas
<1>6. KKState(idx, vals, k) = Decreasing(parts)
  BY DEF KKState
<1>7. parts = [i \in 1 .. k |-> parts[i]]
  OBVIOUS
<1> HIDE DEF parts
<1>8. \A i \in 1 .. k : IsPart(parts[i], n)
  BY <1>4, <1>5
<1>9. Apart(parts, n, k)
  <2>1. parts \in [1 .. k -> Parts(n)]
    <3>1. \A i \in 1 .. k : parts[i] \in Parts(n)
      BY <1>8 DEF IsPart
    <3> QED
      BY <1>7, <3>1
  <2>2. ASSUME NEW i \in 1 .. k, NEW j \in 1 .. k, i # j
        PROVE  ItemsOf(parts[i]) \cap ItemsOf(parts[j]) = {}
    <3>1. CASE i \in 1 .. m /\ j \in 1 .. m
      <4>1. ItemsOf(parts[i]) = {idx[i]} /\ ItemsOf(parts[j]) = {idx[j]}
        BY <1>4, <3>1
      <4>2. idx[i] # idx[j]
        BY <1>3, <2>2, <3>1
      <4> QED
        BY <4>1, <4>2
    <3>2. CASE i \notin 1 .. m \/ j \notin 1 .. m
      <4>1. ItemsOf(parts[i]) = {} \/ ItemsOf(parts[j]) = {}
        BY <1>5, <3>2
      <4> QED
        BY <4>1
    <3> QED
      BY <3>1, <3>2
  <2> QED
    BY <1>8, <2>1, <2>2 DEF Apart
<1>10. StateHas(parts, k) = I
  <2>1. ASSUME NEW x \in I  PROVE \E i \in 1 .. k : x \in ItemsOf(parts[i])
    <3>1. PICK i \in 1 .. m : x = idx[i]
      BY <1>2
    <3>2. i \in 1 .. k
      BY <1>1
    <3> QED
      BY <1>4, <3>1, <3>2
  <2>2. ASSUME NEW i \in 1 .. k  PROVE ItemsOf(parts[i]) \subseteq I
    <3>1. CASE i \in 1 .. m
      <4>1. idx[i] \in I
        BY <1>2, <3>1
      <4> QED
        BY <1>4, <3>1, <4>1
    <3>2. CASE i \notin 1 .. m
      BY <1>5, <3>2
    <3> QED
      BY <3>1, <3>2
  <2> QED
    BY <2>1, <2>2 DEF StateHas
<1>11. Spreads(parts, k)
  <2>1. CASE m = k
    <3>1. \A i \in 1 .. k : ItemsOf(parts[i]) # {}
      BY <1>4, <2>1
    <3> QED
      BY <3>1 DEF Spreads
  <2>2. CASE m # k
    <3>1. \A i \in 1 .. k : \A x, y \in ItemsOf(parts[i]) : x = y
      BY <1>4, <1>5
    <3> QED
      BY <3>1 DEF Spreads
  <2> QED
    BY <2>1, <2>2
<1>12. k \in Nat
  OBVIOUS
<1> QED
  BY <1>6, <1>9, <1>10, <1>11, <1>12, DecreasingIs

\* Two states of disjoint items, merged.
LEMMA MergeHas ==
  ASSUME NEW n \in Nat, NEW k \in Nat \ {0},
         NEW s, IsState(s, n, k), Spreads(s, k), NEW t, IsState(t, n, k), Spreads(t, k),
         StateHas(s, k) \cap StateHas(t, k) = {}
  PROVE  /\ IsState(MergeStates(s, t), n, k)
         /\ StateHas(MergeStates(s, t), k) = StateHas(s, k) \cup StateHas(t, k)
         /\ Spreads(MergeStates(s, t), k)
<1> DEFINE A(i) == ItemsOf(s[i])
           B(i) == ItemsOf(t[k + 1 - i])
           parts == [i \in 1 .. k |-> Union2(s[i], t[k + 1 - i])]
<1>1. s \in [1 .. k -> Parts(n)] /\ t \in [1 .. k -> Parts(n)]
  BY DEF IsState
<1>2. MergeStates(s, t) = Decreasing(parts)
  <2>1. DOMAIN s = 1 .. k /\ Len(t) = k
    BY <1>1
  <2> QED
    BY <2>1 DEF MergeStates
<1>3. \A i \in 1 .. k : k + 1 - i \in 1 .. k
  OBVIOUS
<1>4. \A i, j \in 1 .. k : i # j => A(i) \cap A(j) = {}
  BY DEF IsState
<1>5. ASSUME NEW i \in 1 .. k, NEW j \in 1 .. k, i # j  PROVE B(i) \cap B(j) = {}
  <2>1. k + 1 - i \in 1 .. k /\ k + 1 - j \in 1 .. k /\ k + 1 - i # k + 1 - j
    BY <1>5
  <2> QED
    BY <2>1 DEF IsState
<1>6. ASSUME NEW i \in 1 .. k, NEW j \in 1 .. k  PROVE A(i) \cap B(j) = {}
  <2>1. A(i) \subseteq StateHas(s, k)
    BY DEF StateHas
  <2>2. B(j) \subseteq StateHas(t, k)
    BY <1>3 DEF StateHas
  <2> HIDE DEF A, B
  <2> QED
    BY <2>1, <2>2
<1>7. ASSUME NEW i \in 1 .. k  PROVE IsPart(parts[i], n) /\ ItemsOf(parts[i]) = A(i) \cup B(i)
  <2>1. IsPart(s[i], n) /\ IsPart(t[k + 1 - i], n)
    BY <1>3 DEF IsState
  <2>2. ItemsOf(s[i]) \cap ItemsOf(t[k + 1 - i]) = {}
    BY <1>6
  <2>3. parts[i] = Union2(s[i], t[k + 1 - i])
    OBVIOUS
  <2> HIDE DEF parts
  <2> QED
    BY <2>1, <2>2, <2>3, UnionHas
<1>8. parts = [i \in 1 .. k |-> parts[i]]
  OBVIOUS
<1>9. ASSUME NEW i \in 1 .. k, NEW j \in 1 .. k, i < j, A(j) # {}  PROVE A(i) # {}
  BY <1>9 DEF IsState
<1>10. ASSUME NEW i \in 1 .. k, NEW j \in 1 .. k, i < j, B(i) # {}  PROVE B(j) # {}
  <2>1. k + 1 - j \in 1 .. k /\ k + 1 - i \in 1 .. k /\ k + 1 - j < k + 1 - i
    BY <1>10
  <2> QED
    BY <1>10, <2>1 DEF IsState
<1>11. (\A i \in 1 .. k : A(i) # {}) \/ (\A i \in 1 .. k : \A x, y \in A(i) : x = y)
  BY DEF Spreads
<1>12. (\A i \in 1 .. k : B(i) # {}) \/ (\A i \in 1 .. k : \A x, y \in B(i) : x = y)
  BY <1>3 DEF Spreads
<1>13. StateHas(s, k) \cup StateHas(t, k) = UNION {A(i) \cup B(i) : i \in 1 .. k}
  <2>1. ASSUME NEW i \in 1 .. k  PROVE \E j \in 1 .. k : ItemsOf(t[i]) = B(j)
    <3>1. k + 1 - i \in 1 .. k /\ k + 1 - (k + 1 - i) = i
      OBVIOUS
    <3> QED
      BY <3>1
  <2>2. ASSUME NEW x \in StateHas(t, k)  PROVE \E j \in 1 .. k : x \in B(j)
    <3>1. PICK i \in 1 .. k : x \in ItemsOf(t[i])
      BY DEF StateHas
    <3> HIDE DEF B
    <3> QED
      BY <2>1, <3>1
  <2>3. ASSUME NEW j \in 1 .. k  PROVE B(j) \subseteq StateHas(t, k)
    BY <1>3 DEF StateHas
  <2>4. StateHas(s, k) = UNION {A(i) : i \in 1 .. k}
    BY DEF StateHas
  <2> HIDE DEF A, B
  <2> QED
    BY <2>2, <2>3, <2>4
<1> HIDE DEF parts, A, B
<1>14. Apart(parts, n, k)
  <2>1. parts \in [1 .. k -> Parts(n)]
    <3>1. \A i \in 1 .. k : parts[i] \in Parts(n)
      BY <1>7 DEF IsPart
    <3> QED
      BY <1>8, <3>1
  <2>2. ASSUME NEW i \in 1 .. k, NEW j \in 1 .. k, i # j
        PROVE  ItemsOf(parts[i]) \cap ItemsOf(parts[j]) = {}
    <3>1. A(i) \cap A(j) = {} /\ B(i) \cap B(j) = {} /\ A(i) \cap B(j) = {} /\ A(j) \cap B(i) = {}
      BY <1>4, <1>5, <1>6, <2>2
    <3>2. ItemsOf(parts[i]) = A(i) \cup B(i) /\ ItemsOf(parts[j]) = A(j) \cup B(j)
      BY <1>7
    <3> QED
      BY <3>1, <3>2
  <2> QED
    BY <1>7, <2>1, <2>2 DEF Apart
<1>15. StateHas(parts, k) = StateHas(s, k) \cup StateHas(t, k)
  BY <1>7, <1>13 DEF StateHas
<1>16. Spreads(parts, k)
  <2>1. CASE (\A i \in 1 .. k : A(i) # {}) \/ (\A i \in 1 .. k : B(i) # {})
    <3>1. \A i \in 1 .. k : ItemsOf(parts[i]) # {}
      BY <1>7, <2>1
    <3> QED
      BY <3>1 DEF Spreads
  <2>2. CASE /\ \A i \in 1 .. k : \A x, y \in A(i) : x = y
             /\ \A i \in 1 .. k : \A x, y \in B(i) : x = y
    <3>1. CASE \E j \in 1 .. k : A(j) # {} /\ B(j) # {}
      <4>1. PICK j \in 1 .. k : A(j) # {} /\ B(j) # {}
        BY <3>1
      <4>2. ASSUME NEW i \in 1 .. k  PROVE ItemsOf(parts[i]) # {}
        <5>1. i < j \/ i = j \/ j < i
          OBVIOUS
        <5>2. A(i) # {} \/ B(i) # {}
          BY <1>9, <1>10, <4>1, <5>1
        <5> QED
          BY <1>7, <5>2
      <4> QED
        BY <4>2 DEF Spreads
    <3>2. CASE ~\E j \in 1 .. k : A(j) # {} /\ B(j) # {}
      <4>1. ASSUME NEW i \in 1 .. k, NEW x \in ItemsOf(parts[i]), NEW y \in ItemsOf(parts[i])
            PROVE  x = y
        <5>1. ItemsOf(parts[i]) = A(i) \/ ItemsOf(parts[i]) = B(i)
          BY <1>7, <3>2
        <5> QED
          BY <2>2, <5>1
      <4> QED
        BY <4>1 DEF Spreads
    <3> QED
      BY <3>1, <3>2
  <2> QED
    BY <1>11, <1>12, <2>1, <2>2
<1>17. k \in Nat
  OBVIOUS
<1> QED
  BY <1>2, <1>14, <1>15, <1>16, <1>17, DecreasingIs

\* The states that are left: each has items, of which every one is in one state.
IsQueue(T, n, k) ==
  /\ IsFiniteSet(T) /\ T # {}
  /\ \A s \in T : IsState(s, n, k) /\ Spreads(s, k) /\ StateHas(s, k) # {}
  /\ \A s, t \in T : s # t => StateHas(s, k) \cap StateHas(t, k) = {}

\* There is one state that is popped first.
LEMMA PopIs ==
  ASSUME NEW n \in Nat, NEW k \in Nat \ {0}, NEW T, IsQueue(T, n, k)
  PROVE  Pop(T) \in T
<1> DEFINE First(p) == IF ItemsOf(p) = {} THEN 0 ELSE p.items[1]
           R == {p \in T \X T : PopsBefore(p[1], p[2])}
           spread == [s \in T |-> Spread(s)]
           sum == [s \in T |-> s[1].sum]
           size == [s \in T |-> Len(s[1].items)]
           first == [s \in T |-> First(s[1])]
<1>1. 1 \in 1 .. k /\ k \in 1 .. k
  OBVIOUS
<1>2. ASSUME NEW s \in T
      PROVE  /\ IsPart(s[1], n) /\ IsPart(s[k], n) /\ Len(s) = k
             /\ ItemsOf(s[1]) # {} /\ ItemsOf(s[1]) \subseteq StateHas(s, k)
  <2>1. IsState(s, n, k) /\ StateHas(s, k) # {}
    BY DEF IsQueue
  <2>2. IsPart(s[1], n) /\ IsPart(s[k], n) /\ s \in [1 .. k -> Parts(n)]
    BY <1>1, <2>1 DEF IsState
  <2>3. Len(s) = k
    BY <2>2
  <2>4. PICK i \in 1 .. k : ItemsOf(s[i]) # {}
    BY <2>1 DEF StateHas
  <2>5. ItemsOf(s[1]) # {}
    <3>1. i = 1 \/ 1 < i
      OBVIOUS
    <3> QED
      BY <1>1, <2>1, <2>4, <3>1 DEF IsState
  <2>6. ItemsOf(s[1]) \subseteq StateHas(s, k)
    BY <1>1 DEF StateHas
  <2> QED
    BY <2>2, <2>3, <2>5, <2>6
<1>3. ASSUME NEW s \in T
      PROVE  spread[s] \in Int /\ sum[s] \in Nat /\ size[s] \in Nat /\ first[s] \in Nat
             /\ first[s] \in StateHas(s, k)
  <2>1. s[1].sum \in Nat /\ s[k].sum \in Nat /\ Len(s[1].items) \in Nat
    BY <1>2, PartHas
  <2>2. First(s[1]) \in Nat
    BY <1>2, SmallerIs
  <2>3. First(s[1]) = s[1].items[1] /\ s[1].items[1] \in ItemsOf(s[1])
    BY <1>2, PartHas
  <2>4. Spread(s) \in Int
    BY <1>2, <2>1 DEF Spread
  <2> HIDE DEF First
  <2> QED
    BY <1>2, <2>1, <2>2, <2>3, <2>4
<1>4. ASSUME NEW s \in T, NEW t \in T
      PROVE  <<s, t>> \in R <=>
                \/ spread[s] > spread[t]
                \/ spread[s] = spread[t] /\ sum[t] < sum[s]
                \/ spread[s] = spread[t] /\ sum[t] = sum[s] /\ size[t] < size[s]
                \/ spread[s] = spread[t] /\ sum[t] = sum[s] /\ size[t] = size[s] /\ first[t] < first[s]
  <2>1. <<s, t>> \in R <=> PopsBefore(s, t)
    OBVIOUS
  <2>2. Smaller(t[1], s[1]) <=>
           \/ t[1].sum < s[1].sum
           \/ t[1].sum = s[1].sum /\ Len(t[1].items) < Len(s[1].items)
           \/ t[1].sum = s[1].sum /\ Len(t[1].items) = Len(s[1].items) /\ First(t[1]) < First(s[1])
    BY <1>2, SmallerIs
  <2>3. /\ sum[s] = s[1].sum /\ sum[t] = t[1].sum
        /\ size[s] = Len(s[1].items) /\ size[t] = Len(t[1].items)
        /\ first[s] = First(s[1]) /\ first[t] = First(t[1])
        /\ spread[s] = Spread(s) /\ spread[t] = Spread(t)
    OBVIOUS
  <2> HIDE DEF R, sum, size, first, spread, First
  <2> QED
    BY <2>1, <2>2, <2>3 DEF PopsBefore
<1>5. \A s, t \in T : s # t => first[s] # first[t]
  <2>1. \A s, t \in T : s # t => StateHas(s, k) \cap StateHas(t, k) = {}
    BY DEF IsQueue
  <2> HIDE DEF first
  <2> QED
    BY <1>3, <2>1
<1>6. \A s, t \in T : <<s, t>> \in R => PopsBefore(s, t)
  OBVIOUS
<1> HIDE DEF R, sum, size, first, spread
<1>7. TotallyOrders(R, T)
  <2>1. \A s \in T : <<s, s>> \notin R
    BY <1>3, <1>4
  <2>2. ASSUME NEW s \in T, NEW t \in T, NEW u \in T, <<s, t>> \in R, <<t, u>> \in R
        PROVE  <<s, u>> \in R
    <3>1. /\ spread[s] \in Int /\ sum[s] \in Nat /\ size[s] \in Nat /\ first[s] \in Nat
          /\ spread[t] \in Int /\ sum[t] \in Nat /\ size[t] \in Nat /\ first[t] \in Nat
          /\ spread[u] \in Int /\ sum[u] \in Nat /\ size[u] \in Nat /\ first[u] \in Nat
      BY <1>3
    <3>2. /\ \/ spread[s] > spread[t]
             \/ spread[s] = spread[t] /\ sum[t] < sum[s]
             \/ spread[s] = spread[t] /\ sum[t] = sum[s] /\ size[t] < size[s]
             \/ spread[s] = spread[t] /\ sum[t] = sum[s] /\ size[t] = size[s] /\ first[t] < first[s]
          /\ \/ spread[t] > spread[u]
             \/ spread[t] = spread[u] /\ sum[u] < sum[t]
             \/ spread[t] = spread[u] /\ sum[u] = sum[t] /\ size[u] < size[t]
             \/ spread[t] = spread[u] /\ sum[u] = sum[t] /\ size[u] = size[t] /\ first[u] < first[t]
      BY <1>4, <2>2
    <3>3. \/ spread[s] > spread[u]
          \/ spread[s] = spread[u] /\ sum[u] < sum[s]
          \/ spread[s] = spread[u] /\ sum[u] = sum[s] /\ size[u] < size[s]
          \/ spread[s] = spread[u] /\ sum[u] = sum[s] /\ size[u] = size[s] /\ first[u] < first[s]
      BY <3>1, <3>2
    <3> QED
      BY <1>4, <3>3
  <2>3. ASSUME NEW s \in T, NEW t \in T, s # t  PROVE <<s, t>> \in R \/ <<t, s>> \in R
    <3>1. /\ spread[s] \in Int /\ sum[s] \in Nat /\ size[s] \in Nat /\ first[s] \in Nat
          /\ spread[t] \in Int /\ sum[t] \in Nat /\ size[t] \in Nat /\ first[t] \in Nat
      BY <1>3
    <3>2. first[s] # first[t]
      BY <1>5, <2>3
    <3>3. \/ \/ spread[s] > spread[t]
             \/ spread[s] = spread[t] /\ sum[t] < sum[s]
             \/ spread[s] = spread[t] /\ sum[t] = sum[s] /\ size[t] < size[s]
             \/ spread[s] = spread[t] /\ sum[t] = sum[s] /\ size[t] = size[s] /\ first[t] < first[s]
          \/ \/ spread[t] > spread[s]
             \/ spread[t] = spread[s] /\ sum[s] < sum[t]
             \/ spread[t] = spread[s] /\ sum[s] = sum[t] /\ size[s] < size[t]
             \/ spread[t] = spread[s] /\ sum[s] = sum[t] /\ size[s] = size[t] /\ first[s] < first[t]
      BY <3>1, <3>2
    <3> QED
      BY <1>4, <3>3
  <2> QED
    BY <2>1, <2>2, <2>3 DEF TotallyOrders
<1>8. IsFiniteSet(T) /\ T # {}
  BY DEF IsQueue
<1>9. PICK s \in T : NumberBefore(s, R, T) = 0
  <2>1. Cardinality(T) \in Nat /\ Cardinality(T) # 0
    BY <1>8, FS_CardinalityType, FS_EmptySet
  <2>2. \A p \in 1 .. Cardinality(T) : \E x \in T : NumberBefore(x, R, T) = p - 1
    BY <1>7, <1>8, RankIs
  <2>3. 1 \in 1 .. Cardinality(T) /\ 1 - 1 = 0
    BY <2>1
  <2> QED
    BY <2>2, <2>3
<1>10. ASSUME NEW t \in T \ {s}  PROVE PopsBefore(s, t)
  <2>1. <<s, t>> \in R \/ <<t, s>> \in R
    BY <1>7 DEF TotallyOrders
  <2>2. <<t, s>> \notin R
    <3> SUFFICES ASSUME <<t, s>> \in R  PROVE FALSE
      OBVIOUS
    <3>1. NumberBefore(t, R, T) < NumberBefore(s, R, T)
      BY <1>7, <1>8, RankIs
    <3>2. NumberBefore(t, R, T) \in 0 .. Cardinality(T) - 1
      BY <1>7, <1>8, RankIs
    <3> QED
      BY <1>9, <3>1, <3>2
  <2> QED
    BY <1>6, <2>1, <2>2
<1>11. \E u \in T : \A t \in T \ {u} : PopsBefore(u, t)
  BY <1>10
<1> QED
  BY <1>11, Zenon DEF Pop

\* Merging the two states that are popped leaves one state less.
LEMMA MergeTwoIs ==
  ASSUME NEW n \in Nat, NEW k \in Nat \ {0}, NEW T, IsQueue(T, n, k), Cardinality(T) > 1
  PROVE  /\ IsQueue(MergeTwo(T), n, k)
         /\ Cardinality(MergeTwo(T)) = Cardinality(T) - 1
         /\ UNION {StateHas(s, k) : s \in MergeTwo(T)} = UNION {StateHas(s, k) : s \in T}
<1> DEFINE s == Pop(T)
           U == T \ {s}
           t == Pop(U)
           W == U \ {t}
           m == MergeStates(s, t)
<1>1. IsFiniteSet(T) /\ Cardinality(T) \in Nat
  BY FS_CardinalityType DEF IsQueue
<1>2. s \in T
  BY PopIs
<1>3. IsFiniteSet(U) /\ Cardinality(U) = Cardinality(T) - 1
  <2> HIDE DEF s
  <2> QED
    BY <1>1, <1>2, FS_RemoveElement
<1>4. IsQueue(U, n, k)
  <2>1. U # {}
    <3> HIDE DEF U
    <3> QED
      BY <1>1, <1>3, FS_EmptySet
  <2>2. U \subseteq T
    OBVIOUS
  <2> HIDE DEF U
  <2> QED
    BY <1>3, <2>1, <2>2 DEF IsQueue
<1>5. t \in U
  <2> HIDE DEF U
  <2> QED
    BY <1>4, PopIs
<1>6. IsFiniteSet(W) /\ Cardinality(W) = Cardinality(T) - 2
  <2>1. IsFiniteSet(U \ {t}) /\ Cardinality(U \ {t}) = Cardinality(U) - 1
    <3> HIDE DEF U, t
    <3> QED
      BY <1>3, <1>5, FS_RemoveElement
  <2> HIDE DEF U, t
  <2> QED
    BY <1>1, <1>3, <2>1
<1>7. MergeTwo(T) = W \cup {m}
  <2>1. MergeTwo(T) = (T \ {s, t}) \cup {m}
    BY DEF MergeTwo
  <2>2. T \ {s, t} = W
    OBVIOUS
  <2> QED
    BY <2>1, <2>2
<1>8. t \in T /\ s # t /\ W \subseteq T /\ s \notin W /\ t \notin W /\ T = W \cup {s, t}
  BY <1>2, <1>5
<1> HIDE DEF s, t, U, W
<1>9. /\ IsState(s, n, k) /\ Spreads(s, k) /\ StateHas(s, k) # {}
      /\ IsState(t, n, k) /\ Spreads(t, k)
      /\ StateHas(s, k) \cap StateHas(t, k) = {}
  BY <1>2, <1>8 DEF IsQueue
<1>10. /\ IsState(m, n, k)
       /\ StateHas(m, k) = StateHas(s, k) \cup StateHas(t, k)
       /\ Spreads(m, k)
  BY <1>9, MergeHas
<1> HIDE DEF m
<1>11. ASSUME NEW u \in W  PROVE StateHas(u, k) \cap StateHas(m, k) = {} /\ u # m
  <2>1. u \in T /\ u # s /\ u # t
    BY <1>8
  <2>2. StateHas(u, k) \cap StateHas(s, k) = {} /\ StateHas(u, k) \cap StateHas(t, k) = {}
    BY <1>2, <1>8, <2>1 DEF IsQueue
  <2>3. StateHas(u, k) \cap StateHas(m, k) = {}
    BY <1>10, <2>2
  <2> QED
    BY <1>9, <1>10, <2>3
<1>12. m \notin W
  BY <1>11
<1>13. IsFiniteSet(W \cup {m}) /\ Cardinality(W \cup {m}) = Cardinality(T) - 1
  <2>1. IsFiniteSet(W \cup {m}) /\ Cardinality(W \cup {m}) = Cardinality(W) + 1
    BY <1>6, <1>12, FS_AddElement
  <2> QED
    BY <1>1, <1>6, <2>1
<1>14. \A u \in W : IsState(u, n, k) /\ Spreads(u, k) /\ StateHas(u, k) # {}
  BY <1>8 DEF IsQueue
<1>15. \A u, v \in W : u # v => StateHas(u, k) \cap StateHas(v, k) = {}
  BY <1>8 DEF IsQueue
<1>16. IsQueue(W \cup {m}, n, k)
  <2>1. \A u \in W \cup {m} : IsState(u, n, k) /\ Spreads(u, k) /\ StateHas(u, k) # {}
    BY <1>9, <1>10, <1>14
  <2>2. \A u, v \in W \cup {m} : u # v => StateHas(u, k) \cap StateHas(v, k) = {}
    <3> SUFFICES ASSUME NEW u \in W \cup {m}, NEW v \in W \cup {m}, u # v
                 PROVE  StateHas(u, k) \cap StateHas(v, k) = {}
      OBVIOUS
    <3>1. CASE u \in W /\ v \in W
      BY <1>15, <3>1
    <3>2. CASE u \in W /\ v = m
      BY <1>11, <3>2
    <3>3. CASE u = m /\ v \in W
      BY <1>11, <3>3
    <3> QED
      BY <3>1, <3>2, <3>3
  <2> QED
    BY <1>13, <2>1, <2>2 DEF IsQueue
<1>17. UNION {StateHas(u, k) : u \in W \cup {m}} = UNION {StateHas(u, k) : u \in T}
  BY <1>8, <1>10
<1> QED
  BY <1>7, <1>13, <1>16, <1>17

--------------------------------------------------------------------------------
(* Its first states.                                                          *)

\* What is in a list.
LEMMA ElementsIn ==
  ASSUME NEW S, NEW s \in Seq(S)
  PROVE  \A q \in 1 .. Len(s) : s[q] \in S
OBVIOUS

\* A slice of a list.
LEMMA SliceIs ==
  ASSUME NEW S, NEW s \in Seq(S), NEW a \in Nat, NEW b \in Nat, a + b <= Len(s)
  PROVE  /\ SubSeq(s, a + 1, a + b) \in Seq(S)
         /\ Len(SubSeq(s, a + 1, a + b)) = b
         /\ \A q \in 1 .. b : SubSeq(s, a + 1, a + b)[q] = s[a + q]
<1>1. PICK n \in Nat : n = Len(s)
  OBVIOUS
<1>2. PICK c \in Nat : c = a + b
  OBVIOUS
<1> DEFINE t == SubSeq(s, a + 1, c)
<1>3. t \in Seq(S) /\ Len(t) = b /\ \A q \in 1 .. b : t[q] = s[a + q]
  BY <1>1, <1>2
<1> QED
  BY <1>2, <1>3

\* Quotient and remainder.
LEMMA Quotient ==
  ASSUME NEW p \in Nat, NEW d \in Nat \ {0}
  PROVE  \E q \in Nat : \E r \in 0 .. d - 1 : p = d * q + r
<1>1. PICK q \in Nat : q = p \div d
  OBVIOUS
<1>2. PICK r \in 0 .. d - 1 : r = p % d
  OBVIOUS
<1>3. p = d * (p \div d) + (p % d)
  OBVIOUS
<1>4. p = d * q + r
  BY <1>1, <1>2, <1>3
<1> QED
  BY <1>4

Starts(sorted, step, groups, vals, k) ==
  {KKState(SubSeq(sorted, step * m + 1, step * m + step), vals, k) : m \in 0 .. groups - 1}

\* The states of the beginning: step items each, in the order of their weights.
LEMMA StartsHave ==
  ASSUME NEW n \in Nat \ {0}, NEW k \in Nat \ {0}, NEW vals \in [1 .. n -> Nat \ {0}],
         NEW step \in Nat \ {0}, step = 1 \/ step = k, NEW groups \in Nat, n = groups * step,
         NEW sorted, Lists(sorted, 1 .. n)
  PROVE  /\ IsQueue(Starts(sorted, step, groups, vals, k), n, k)
         /\ UNION {StateHas(s, k) : s \in Starts(sorted, step, groups, vals, k)} = 1 .. n
<1> DEFINE idx(m) == SubSeq(sorted, step * m + 1, step * m + step)
           I(m) == {sorted[step * m + q] : q \in 1 .. step}
           st(m) == KKState(idx(m), vals, k)
           M == 0 .. groups - 1
           T == Starts(sorted, step, groups, vals, k)
<1> HIDE DEF T
<1>1. sorted \in Seq(1 .. n) /\ Len(sorted) = n
  <2>1. IsFiniteSet(1 .. n) /\ Cardinality(1 .. n) = n
    BY UpToIsFinite
  <2>2. Cardinality(1 .. n) = Len(sorted)
    BY ListLength
  <2> QED
    BY <2>1, <2>2 DEF Lists
<1>2. ASSUME NEW m \in M  PROVE step * m \in Nat /\ step * m + step <= n
  <2>1. PICK e \in Nat : groups = m + 1 + e
    <3>1. groups - 1 - m \in Nat /\ groups = m + 1 + (groups - 1 - m)
      OBVIOUS
    <3> QED
      BY <3>1
  <2>2. (m + 1 + e) * step = step * m + step + e * step /\ e * step \in Nat /\ step * m \in Nat
    <3>1. \A x, y, z \in Nat : (x + 1 + y) * z = z * x + z + y * z /\ y * z \in Nat /\ z * x \in Nat
      OBVIOUS
    <3> QED
      BY <3>1
  <2> QED
    BY <2>1, <2>2
<1>3. ASSUME NEW m \in M
      PROVE  /\ idx(m) \in Seq(1 .. n) /\ Len(idx(m)) = step
             /\ \A q \in 1 .. step : idx(m)[q] = sorted[step * m + q] /\ step * m + q \in 1 .. n
  <2>1. PICK a \in Nat : a = step * m /\ a + step <= n
    BY <1>2
  <2>2. /\ SubSeq(sorted, a + 1, a + step) \in Seq(1 .. n)
        /\ Len(SubSeq(sorted, a + 1, a + step)) = step
        /\ \A q \in 1 .. step : SubSeq(sorted, a + 1, a + step)[q] = sorted[a + q]
    <3>1. PICK Places : Places = 1 .. n
      OBVIOUS
    <3>2. a \in Nat /\ step \in Nat /\ sorted \in Seq(Places) /\ a + step <= Len(sorted)
      BY <1>1, <2>1, <3>1
    <3> HIDE DEF idx, I, st, M
    <3>3. SubSeq(sorted, a + 1, a + step) \in Seq(Places)
      BY <3>2, SliceIs
    <3>4. Len(SubSeq(sorted, a + 1, a + step)) = step
      BY <3>2, SliceIs
    <3>5. ASSUME NEW q \in 1 .. step
          PROVE  SubSeq(sorted, a + 1, a + step)[q] = sorted[a + q]
      BY <3>2, SliceIs
    <3> QED
      BY <3>1, <3>3, <3>4, <3>5
  <2>3. \A q \in 1 .. step : a + q \in 1 .. n
    BY <2>1
  <2> QED
    BY <2>1, <2>2, <2>3
<1>4. \A x, y \in 1 .. n : sorted[x] = sorted[y] => x = y
  BY <1>1 DEF Lists
<1>5. ASSUME NEW m \in M  PROVE Lists(idx(m), I(m)) /\ I(m) \subseteq 1 .. n
  <2>1. I(m) \subseteq 1 .. n
    <3>1. \A q \in 1 .. n : sorted[q] \in 1 .. n
      <4>1. \A q \in 1 .. Len(sorted) : sorted[q] \in 1 .. n
        BY <1>1, ElementsIn
      <4> QED
        BY <1>1, <4>1, Zenon
    <3>2. \A q \in 1 .. step : step * m + q \in 1 .. n
      BY <1>3
    <3>3. \A q \in 1 .. step : sorted[step * m + q] \in 1 .. n
      BY <3>1, <3>2
    <3> QED
      BY <3>3
  <2>2. \A q \in 1 .. step : idx(m)[q] \in I(m)
    BY <1>3
  <2>3. \A x, y \in 1 .. step : idx(m)[x] = idx(m)[y] => x = y
    <3> SUFFICES ASSUME NEW x \in 1 .. step, NEW y \in 1 .. step, idx(m)[x] = idx(m)[y]  PROVE x = y
      OBVIOUS
    <3>1. PICK a \in Nat : a = step * m
      BY <1>2
    <3>2. a + x \in 1 .. n /\ a + y \in 1 .. n /\ sorted[a + x] = sorted[a + y]
      BY <1>3, <3>1
    <3>3. a + x = a + y
      BY <1>4, <3>2
    <3> QED
      BY <3>3
  <2>4. \A z \in I(m) : \E q \in 1 .. step : idx(m)[q] = z
    BY <1>3
  <2>5. idx(m) \in Seq(1 .. n) /\ Len(idx(m)) = step
    BY <1>3
  <2> HIDE DEF idx, I
  <2>6. idx(m) \in Seq(I(m))
    BY <2>2, <2>5
  <2> QED
    BY <2>1, <2>3, <2>4, <2>5, <2>6 DEF Lists
<1>6. ASSUME NEW m \in M  PROVE I(m) # {}
  <2>1. 1 \in 1 .. step
    OBVIOUS
  <2> QED
    BY <2>1
<1>7. ASSUME NEW m \in M, NEW j \in M, m # j  PROVE I(m) \cap I(j) = {}
  <2> SUFFICES ASSUME NEW x \in 1 .. step, NEW y \in 1 .. step, sorted[step * m + x] = sorted[step * j + y]
               PROVE  FALSE
    OBVIOUS
  <2>1. step * m + x \in 1 .. n /\ step * j + y \in 1 .. n
    BY <1>3
  <2>2. step * m + x = step * j + y
    BY <1>4, <2>1
  <2>3. x - 1 \in 0 .. step - 1 /\ y - 1 \in 0 .. step - 1 /\ m \in Nat /\ j \in Nat
    OBVIOUS
  <2>4. (m * step + (x - 1)) \div step = m
    <3>1. PICK b \in 0 .. step - 1 : b = x - 1
      BY <2>3
    <3>2. (m * step + b) \div step = m
      BY <2>3, DivMod
    <3> QED
      BY <3>1, <3>2
  <2>5. (j * step + (y - 1)) \div step = j
    <3>1. PICK b \in 0 .. step - 1 : b = y - 1
      BY <2>3
    <3>2. (j * step + b) \div step = j
      BY <2>3, DivMod
    <3> QED
      BY <3>1, <3>2
  <2>6. m * step + (x - 1) = j * step + (y - 1)
    <3>1. step * m = m * step /\ step * j = j * step
      OBVIOUS
    <3>2. PICK a \in Nat, b \in Nat : a = step * m /\ b = step * j
      BY <1>2
    <3> QED
      BY <2>2, <3>1, <3>2
  <2> QED
    BY <1>7, <2>4, <2>5, <2>6
<1>8. ASSUME NEW p \in 1 .. n  PROVE \E m \in M : \E q \in 1 .. step : p = step * m + q
  <2>1. PICK m \in Nat : \E r \in 0 .. step - 1 : p - 1 = step * m + r
    <3>1. p - 1 \in Nat
      OBVIOUS
    <3> QED
      BY <3>1, Quotient
  <2>4. PICK r \in 0 .. step - 1 : p - 1 = step * m + r
    BY <2>1
  <2>5. m < groups
    <3> SUFFICES ASSUME m >= groups  PROVE FALSE
      OBVIOUS
    <3>1. PICK e \in Nat : m = groups + e
      <4>1. m - groups \in Nat /\ m = groups + (m - groups)
        OBVIOUS
      <4> QED
        BY <4>1
    <3>2. step * (groups + e) = groups * step + e * step /\ e * step \in Nat
      <4>1. \A x, y, z \in Nat : z * (x + y) = x * z + y * z /\ y * z \in Nat
        OBVIOUS
      <4> QED
        BY <4>1
    <3>3. PICK a \in Nat : a = e * step
      BY <3>2
    <3>4. step * m = n + a
      BY <3>1, <3>2, <3>3
    <3> QED
      BY <2>4, <3>4
  <2>6. m \in M /\ r + 1 \in 1 .. step /\ p = step * m + (r + 1)
    <3>1. PICK a \in Nat : a = step * m
      <4>1. \A x, y \in Nat : x * y \in Nat
        OBVIOUS
      <4> QED
        BY <4>1
    <3>2. p = a + (r + 1)
      BY <2>4, <3>1
    <3> QED
      BY <2>5, <3>1, <3>2
  <2> QED
    BY <2>6
<1>9. UNION {I(m) : m \in M} = 1 .. n
  <2>1. ASSUME NEW i \in 1 .. n  PROVE \E m \in M : i \in I(m)
    <3>1. PICK p \in 1 .. n : sorted[p] = i
      BY <1>1 DEF Lists
    <3>2. PICK m \in M : \E q \in 1 .. step : p = step * m + q
      BY <1>8
    <3> QED
      BY <3>1, <3>2
  <2>2. \A m \in M : I(m) \subseteq 1 .. n
    BY <1>5
  <2> HIDE DEF I, M
  <2> QED
    BY <2>1, <2>2
<1> HIDE DEF idx, I
<1>10. ASSUME NEW m \in M
       PROVE  IsState(st(m), n, k) /\ StateHas(st(m), k) = I(m) /\ Spreads(st(m), k)
  <2>1. Len(idx(m)) = 1 \/ Len(idx(m)) = k
    BY <1>3
  <2>2. n \in Nat /\ Lists(idx(m), I(m)) /\ I(m) \subseteq 1 .. n
    BY <1>5
  <2> QED
    BY <2>1, <2>2, StartHas
<1>11. T = {st(m) : m \in M}
  BY DEF idx, T, Starts
<1> HIDE DEF st
<1>12. IsFiniteSet(T)
  <2> DEFINE f == [m \in M |-> st(m)]
  <2>1. IsFiniteSet(M)
    BY FS_Interval
  <2>2. T = {f[m] : m \in M}
    BY <1>11
  <2>3. f \in [M -> T]
    BY <1>11
  <2>4. f \in Surjection(M, T)
    <3>1. \A t \in T : \E m \in M : f[m] = t
      BY <1>11
    <3> HIDE DEF f, M
    <3> QED
      BY <2>3, <3>1, Zenon DEF Surjection
  <2> HIDE DEF f, M
  <2> QED
    BY <2>1, <2>4, FS_Surjection
<1>13. M # {}
  BY <1>8
<1> HIDE DEF M
<1>14. \A s \in T : IsState(s, n, k) /\ Spreads(s, k) /\ StateHas(s, k) # {}
  BY <1>6, <1>10, <1>11
<1>15. \A s, t \in T : s # t => StateHas(s, k) \cap StateHas(t, k) = {}
  <2> SUFFICES ASSUME NEW s \in T, NEW t \in T, s # t  PROVE StateHas(s, k) \cap StateHas(t, k) = {}
    OBVIOUS
  <2>1. PICK m \in M : s = st(m)
    BY <1>11
  <2>2. PICK j \in M : t = st(j)
    BY <1>11
  <2>3. m # j
    BY <2>1, <2>2
  <2> QED
    BY <1>7, <1>10, <2>1, <2>2, <2>3
<1>16. T # {}
  BY <1>11, <1>13
<1>17. UNION {StateHas(s, k) : s \in T} = UNION {I(m) : m \in M}
  BY <1>10, <1>11
<1> QED
  BY <1>9, <1>12, <1>14, <1>15, <1>16, <1>17 DEF IsQueue, T

--------------------------------------------------------------------------------
(* Its end: a partition of the rows.                                          *)

\* The sets of states that follow one another.
Merging(g, T, N) == g = [i \in 0 .. N |-> IF i = 0 THEN T ELSE MergeTwo(g[i - 1])]

\* The states that follow one another exist for every number of merges.
LEMMA MergingExists ==
  ASSUME NEW T, NEW N \in Nat
  PROVE  \E g : Merging(g, T, N)
<1> DEFINE Q == {k \in Nat : \E g : Merging(g, T, k)}
<1>1. 0 \in Q
  <2> DEFINE h == [i \in 0 .. 0 |-> T]
  <2>1. h = [i \in 0 .. 0 |-> IF i = 0 THEN T ELSE MergeTwo(h[i - 1])]
    OBVIOUS
  <2> HIDE DEF h
  <2>2. Merging(h, T, 0)
    BY <2>1 DEF Merging
  <2> QED
    BY <2>2
<1>2. ASSUME NEW k \in Q  PROVE k + 1 \in Q
  <2>1. PICK g : Merging(g, T, k)
    OBVIOUS
  <2>2. \A i \in 0 .. k : g[i] = IF i = 0 THEN T ELSE MergeTwo(g[i - 1])
    BY <2>1 DEF Merging
  <2> DEFINE h == [i \in 0 .. k + 1 |-> IF i <= k THEN g[i] ELSE MergeTwo(g[k])]
  <2>3. k \in Nat
    OBVIOUS
  <2>4. ASSUME NEW i \in 0 .. k + 1  PROVE h[i] = IF i = 0 THEN T ELSE MergeTwo(h[i - 1])
    <3>1. CASE i <= k
      <4>1. i \in 0 .. k /\ h[i] = g[i] /\ (i # 0 => h[i - 1] = g[i - 1])
        BY <2>3, <3>1
      <4> HIDE DEF h
      <4> QED
        BY <2>2, <4>1
    <3>2. CASE i = k + 1
      <4>1. h[i] = MergeTwo(g[k]) /\ i - 1 = k /\ h[k] = g[k] /\ i # 0
        BY <2>3, <3>2
      <4> HIDE DEF h
      <4> QED
        BY <4>1
    <3> QED
      BY <2>3, <3>1, <3>2
  <2>5. h = [i \in 0 .. k + 1 |-> h[i]]
    OBVIOUS
  <2> HIDE DEF h, Q
  <2>6. Merging(h, T, k + 1)
    BY <2>4, <2>5 DEF Merging
  <2>7. k + 1 \in Nat
    BY <2>3
  <2> QED
    BY <2>6, <2>7 DEF Q
<1>3. Q \in SUBSET Nat
  OBVIOUS
<1>4. N \in Q
  <2> HIDE DEF Q
  <2> QED
    BY <1>1, <1>2, <1>3, LeastOutside
<1> QED
  BY <1>4

\* At the end there is one state, with all the items.
LEMMA MergingEnds ==
  ASSUME NEW n \in Nat, NEW k \in Nat \ {0}, NEW T, IsQueue(T, n, k),
         NEW C, C = Cardinality(T), NEW g, Merging(g, T, C - 1)
  PROVE  /\ C \in Nat \ {0}
         /\ IsQueue(g[C - 1], n, k) /\ Cardinality(g[C - 1]) = 1
         /\ UNION {StateHas(s, k) : s \in g[C - 1]} = UNION {StateHas(s, k) : s \in T}
<1> DEFINE Has(U) == UNION {StateHas(s, k) : s \in U}
           P == {i \in Nat : i <= C - 1 => /\ IsQueue(g[i], n, k) /\ Cardinality(g[i]) = C - i
                                           /\ Has(g[i]) = Has(T)}
<1>1. C \in Nat \ {0}
  BY FS_CardinalityType, FS_EmptySet DEF IsQueue
<1>2. \A i \in 0 .. C - 1 : g[i] = IF i = 0 THEN T ELSE MergeTwo(g[i - 1])
  BY DEF Merging
<1>3. 0 \in P
  <2>1. g[0] = T
    BY <1>1, <1>2
  <2> HIDE DEF Has
  <2> QED
    BY <1>1, <2>1
<1>4. ASSUME NEW i \in P  PROVE i + 1 \in P
  <2> SUFFICES ASSUME i + 1 <= C - 1
               PROVE  /\ IsQueue(g[i + 1], n, k) /\ Cardinality(g[i + 1]) = C - (i + 1)
                      /\ Has(g[i + 1]) = Has(T)
    OBVIOUS
  <2>1. i \in Nat /\ (i <= C - 1 => /\ IsQueue(g[i], n, k) /\ Cardinality(g[i]) = C - i
                                   /\ Has(g[i]) = Has(T))
    OBVIOUS
  <2> HIDE DEF P
  <2>2. i + 1 \in 0 .. C - 1 /\ i + 1 # 0 /\ (i + 1) - 1 = i /\ i <= C - 1
    BY <1>1, <2>1
  <2>3. g[i + 1] = MergeTwo(g[i])
    BY <1>2, <2>2
  <2>4. IsQueue(g[i], n, k) /\ Cardinality(g[i]) > 1
    BY <1>1, <2>1, <2>2
  <2>5. /\ IsQueue(MergeTwo(g[i]), n, k) /\ Cardinality(MergeTwo(g[i])) = Cardinality(g[i]) - 1
        /\ Has(MergeTwo(g[i])) = Has(g[i])
    BY <2>4, MergeTwoIs
  <2>6. C - (i + 1) = (C - i) - 1
    BY <1>1, <2>1
  <2> HIDE DEF Has
  <2> QED
    BY <2>1, <2>2, <2>3, <2>5, <2>6
<1>5. /\ IsQueue(g[C - 1], n, k) /\ Cardinality(g[C - 1]) = C - (C - 1)
      /\ Has(g[C - 1]) = Has(T)
  <2>1. P \in SUBSET Nat
    OBVIOUS
  <2>2. C - 1 \in P
    <3>1. C - 1 \in Nat
      BY <1>1
    <3> HIDE DEF P
    <3> QED
      BY <1>3, <1>4, <2>1, <3>1, LeastOutside
  <2>3. C - 1 <= C - 1
    BY <1>1
  <2> QED
    BY <2>2, <2>3, Zenon
<1>6. C - (C - 1) = 1
  BY <1>1
<1> QED
  BY <1>1, <1>5, <1>6

\* n rows in k parts, none of them empty.
Elements(s) == {s[q] : q \in 1 .. Len(s)}
IsPartition(parts, n, k) ==
  /\ parts \in [1 .. k -> Seq(1 .. n)]
  /\ \A i \in 1 .. k : Lists(parts[i], Elements(parts[i])) /\ parts[i] # <<>>
  /\ \A i, j \in 1 .. k : i # j => Elements(parts[i]) \cap Elements(parts[j]) = {}
  /\ UNION {Elements(parts[i]) : i \in 1 .. k} = 1 .. n

\* A state of at least as many items as parts leaves no part empty.
LEMMA SpreadsToAll ==
  ASSUME NEW n \in Nat, NEW k \in Nat \ {0}, k <= n,
         NEW st, IsState(st, n, k), Spreads(st, k), StateHas(st, k) = 1 .. n
  PROVE  \A i \in 1 .. k : ItemsOf(st[i]) # {}
<1> SUFFICES ASSUME \A i \in 1 .. k : \A x, y \in ItemsOf(st[i]) : x = y
             PROVE  \A i \in 1 .. k : ItemsOf(st[i]) # {}
  BY DEF Spreads
<1> DEFINE f == [x \in 1 .. n |-> CHOOSE i \in 1 .. k : x \in ItemsOf(st[i])]
           A == 1 .. n
           B == 1 .. k
<1>1. \A x \in A : f[x] \in B /\ x \in ItemsOf(st[f[x]])
  <2> SUFFICES ASSUME NEW x \in A  PROVE f[x] \in B /\ x \in ItemsOf(st[f[x]])
    OBVIOUS
  <2>1. \E i \in B : x \in ItemsOf(st[i])
    BY DEF StateHas
  <2>2. f[x] = CHOOSE i \in B : x \in ItemsOf(st[i])
    OBVIOUS
  <2> HIDE DEF f, B
  <2> QED
    BY <2>1, <2>2, Zenon
<1>2. f \in [A -> B]
  BY <1>1
<1> HIDE DEF f
<1>3. \A x, y \in A : f[x] = f[y] => x = y
  BY <1>1
<1>4. IsFiniteSet(A) /\ Cardinality(A) = n /\ IsFiniteSet(B) /\ Cardinality(B) = k
  <2>1. k \in Nat
    OBVIOUS
  <2> HIDE DEF A, B
  <2> QED
    BY <2>1, UpToIsFinite DEF A, B
<1> HIDE DEF A, B
<1>5. f \in Injection(A, B)
  BY <1>2, <1>3, Zenon DEF Injection, IsInjective
<1>6. n <= k /\ (n = k => f \in Surjection(A, B))
  BY <1>4, <1>5, FS_Injection
<1>7. f \in Surjection(A, B)
  <2>1. n = k
    BY <1>6
  <2> QED
    BY <1>6, <2>1
<1>8. \A i \in B : \E x \in A : f[x] = i
  BY <1>7, Zenon DEF Surjection
<1> QED
  BY <1>1, <1>8 DEF B

\* The largest differencing method partitions the rows, for any lengths, number of
\* parts and of rows (karmarkar_karp).
LEMMA KarmarkarKarpIs ==
  ASSUME NEW n \in Nat, NEW k \in Nat \ {0}, k <= n, NEW vals \in [1 .. n -> Nat \ {0}],
         NEW equal_size \in BOOLEAN, equal_size => \E groups \in Nat : n = groups * k
  PROVE  IsPartition(KarmarkarKarp(vals, k, equal_size), n, k)
<1> DEFINE sorted == SortBy([i \in DOMAIN vals |-> i], vals)
           step == IF equal_size THEN k ELSE 1
           groups == Len(vals) \div step
           T == {KKState(SubSeq(sorted, step * m + 1, step * m + step), vals, k) : m \in 0 .. groups - 1}
           C == Cardinality(T)
           after == CHOOSE g : g = [i \in 0 .. C - 1 |-> IF i = 0 THEN T ELSE MergeTwo(g[i - 1])]
           last == CHOOSE s \in after[C - 1] : TRUE
<1>1. DOMAIN vals = 1 .. n /\ Len(vals) = n
  OBVIOUS
<1>2. KarmarkarKarp(vals, k, equal_size) = [i \in 1 .. k |-> last[i].items]
  BY Zenon DEF KarmarkarKarp
<1>3. Lists(sorted, 1 .. n)
  <2> DEFINE s == [i \in 1 .. n |-> i]
  <2>1. s \in Seq(1 .. n) /\ Len(s) = n /\ DOMAIN s = 1 .. n /\ \A i \in 1 .. n : s[i] = i
    OBVIOUS
  <2>2. sorted = SortBy(s, vals)
    BY <1>1
  <2> HIDE DEF s, sorted
  <2>3. Lists(s, 1 .. n)
    BY <2>1 DEF Lists
  <2>4. \A i \in DOMAIN s : vals[i] \in Int
    BY <2>1
  <2>5. DOMAIN vals = DOMAIN s
    BY <1>1, <2>1
  <2> QED
    BY <2>2, <2>3, <2>4, <2>5, SortedLists
<1> HIDE DEF sorted
<1>4. step \in Nat \ {0} /\ (step = 1 \/ step = k)
  OBVIOUS
<1>5. groups \in Nat /\ n = groups * step
  <2>1. PICK m \in Nat : n = m * step
    <3>1. CASE equal_size
      BY <3>1
    <3>2. CASE ~equal_size
      <4>1. n = n * 1 /\ step = 1
        BY <3>2
      <4> HIDE DEF step
      <4> QED
        BY <4>1
    <3> QED
      BY <3>1, <3>2
  <2> HIDE DEF step
  <2>2. 0 \in 0 .. step - 1 /\ m * step = m * step + 0
    <3>1. \A x, y \in Nat : x * y \in Nat
      OBVIOUS
    <3>2. m * step \in Nat
      BY <1>4, <3>1
    <3> QED
      BY <1>4, <3>2
  <2>3. (m * step + 0) \div step = m
    BY <1>4, <2>2, DivMod
  <2>4. groups = m
    BY <1>1, <2>1, <2>2, <2>3
  <2> HIDE DEF groups
  <2> QED
    BY <2>1, <2>4
<1> HIDE DEF step, groups
<1>6. n \in Nat \ {0}
  OBVIOUS
<1>7. IsQueue(T, n, k) /\ UNION {StateHas(s, k) : s \in T} = 1 .. n
  <2>1. T = Starts(sorted, step, groups, vals, k)
    BY DEF Starts
  <2> HIDE DEF T
  <2> QED
    BY <1>3, <1>4, <1>5, <1>6, <2>1, StartsHave
<1> HIDE DEF T
<1>8. C \in Nat \ {0}
  BY <1>7, FS_CardinalityType, FS_EmptySet DEF IsQueue
<1>9. Merging(after, T, C - 1)
  <2>1. C - 1 \in Nat
    BY <1>8
  <2> HIDE DEF C
  <2>2. \E g : Merging(g, T, C - 1)
    BY <2>1, MergingExists
  <2>3. \E g : g = [i \in 0 .. C - 1 |-> IF i = 0 THEN T ELSE MergeTwo(g[i - 1])]
    BY <2>2 DEF Merging
  <2>4. after = [i \in 0 .. C - 1 |-> IF i = 0 THEN T ELSE MergeTwo(after[i - 1])]
    BY <2>3, Zenon
  <2> HIDE DEF after
  <2> QED
    BY <2>4 DEF Merging
<1> DEFINE U == after[C - 1]
<1>10. /\ IsQueue(U, n, k) /\ Cardinality(U) = 1
       /\ UNION {StateHas(s, k) : s \in U} = 1 .. n
  <2>1. C = Cardinality(T)
    OBVIOUS
  <2> HIDE DEF after, C, last
  <2> QED
    BY <1>7, <1>9, <2>1, MergingEnds
<1> HIDE DEF after
<1>11. last \in U /\ U = {last}
  <2>1. IsFiniteSet(U) /\ U # {}
    BY <1>10 DEF IsQueue
  <2>2. last \in U
    <3> HIDE DEF U
    <3>1. \E s \in U : TRUE
      BY <2>1
    <3> QED
      BY <3>1, Zenon DEF U
  <2> HIDE DEF U, last
  <2>3. IsFiniteSet(U \ {last}) /\ Cardinality(U \ {last}) = Cardinality(U) - 1
    BY <2>1, <2>2, FS_RemoveElement
  <2>4. U \ {last} = {}
    BY <1>10, <2>3, FS_EmptySet
  <2> QED
    BY <2>2, <2>4
<1> HIDE DEF last, U
<1>12. IsState(last, n, k) /\ Spreads(last, k) /\ StateHas(last, k) = 1 .. n
  <2>1. IsState(last, n, k) /\ Spreads(last, k)
    BY <1>10, <1>11 DEF IsQueue
  <2>2. UNION {StateHas(s, k) : s \in {last}} = StateHas(last, k)
    OBVIOUS
  <2> QED
    BY <1>10, <1>11, <2>1, <2>2
<1>13. \A i \in 1 .. k : ItemsOf(last[i]) # {}
  BY <1>12, SpreadsToAll
<1> DEFINE parts == [i \in 1 .. k |-> last[i].items]
<1>14. \A i \in 1 .. k : parts[i] = last[i].items /\ Elements(parts[i]) = ItemsOf(last[i])
  BY DEF Elements, ItemsOf
<1>15. parts = [i \in 1 .. k |-> parts[i]]
  OBVIOUS
<1> HIDE DEF parts
<1>16. \A i \in 1 .. k : parts[i] \in Seq(1 .. n) /\ Lists(parts[i], Elements(parts[i])) /\ parts[i] # <<>>
  <2> SUFFICES ASSUME NEW i \in 1 .. k
               PROVE  parts[i] \in Seq(1 .. n) /\ Lists(parts[i], Elements(parts[i])) /\ parts[i] # <<>>
    OBVIOUS
  <2>1. IsPart(last[i], n) /\ ItemsOf(last[i]) # {}
    BY <1>12, <1>13 DEF IsState
  <2>2. last[i].items \in Seq(1 .. n) /\ Lists(last[i].items, ItemsOf(last[i]))
    BY <2>1 DEF IsPart, Parts
  <2>3. last[i].items # <<>>
    BY <2>1, PartHas
  <2> QED
    BY <1>14, <2>2, <2>3
<1>17. parts \in [1 .. k -> Seq(1 .. n)]
  BY <1>15, <1>16
<1>18. \A i, j \in 1 .. k : i # j => Elements(parts[i]) \cap Elements(parts[j]) = {}
  BY <1>12, <1>14 DEF IsState
<1>19. UNION {Elements(parts[i]) : i \in 1 .. k} = 1 .. n
  BY <1>12, <1>14 DEF StateHas
<1>20. IsPartition(parts, n, k)
  BY <1>16, <1>17, <1>18, <1>19 DEF IsPartition
<1> QED
  BY <1>2, <1>20 DEF parts

--------------------------------------------------------------------------------
(* The partitions that balance work, and the order of a balanced batch.       *)

\* A list of a set has the elements of the set.
LEMMA ListedElements ==
  ASSUME NEW S, NEW s, Lists(s, S)
  PROVE  Elements(s) = S /\ (s = <<>> <=> S = {})
<1>1. PICK m \in Nat : m = Len(s)
  BY DEF Lists
<1>2. s \in Seq(S)
  BY DEF Lists
<1>3. \A q \in 1 .. m : s[q] \in S
  BY <1>1, <1>2, ElementsIn
<1>4. \A x \in S : \E q \in 1 .. m : s[q] = x
  BY <1>1 DEF Lists
<1>5. Elements(s) = S
  BY <1>1, <1>3, <1>4 DEF Elements
<1>6. s = <<>> <=> m = 0
  BY <1>1, <1>2
<1>7. m = 0 <=> S = {}
  <2>1. CASE m = 0
    BY <1>4, <2>1
  <2>2. CASE m # 0
    <3>1. 1 \in 1 .. m
      BY <2>2
    <3>2. s[1] \in S
      BY <1>3, <3>1
    <3> QED
      BY <2>2, <3>2
  <2> QED
    BY <2>1, <2>2
<1> QED
  BY <1>5, <1>6, <1>7

\* Sorting the parts of a partition leaves it one.
LEMMA SortedPartition ==
  ASSUME NEW n \in Nat, NEW k \in Nat \ {0}, NEW parts, IsPartition(parts, n, k)
  PROVE  IsPartition([i \in 1 .. k |-> SortBy(parts[i], parts[i])], n, k)
<1> DEFINE t == [i \in 1 .. k |-> SortBy(parts[i], parts[i])]
<1>1. ASSUME NEW i \in 1 .. k
      PROVE  /\ t[i] \in Seq(1 .. n) /\ t[i] # <<>> /\ Elements(t[i]) = Elements(parts[i])
             /\ Lists(t[i], Elements(t[i]))
  <2>1. /\ parts[i] \in Seq(1 .. n) /\ parts[i] # <<>> /\ Lists(parts[i], Elements(parts[i]))
    BY DEF IsPartition
  <2>2. PICK s : s = parts[i]
    OBVIOUS
  <2>3. \A q \in DOMAIN s : s[q] \in Int
    <3>1. DOMAIN s = 1 .. Len(s)
      BY <2>1, <2>2
    <3>2. \A q \in 1 .. Len(s) : s[q] \in 1 .. n
      BY <2>1, <2>2, ElementsIn
    <3> QED
      BY <3>1, <3>2
  <2>4. Lists(SortBy(s, s), Elements(s))
    BY <2>1, <2>2, <2>3, SortedLists
  <2>5. t[i] = SortBy(s, s)
    BY <2>2
  <2> HIDE DEF t
  <2>6. Elements(t[i]) = Elements(s) /\ (t[i] = <<>> <=> Elements(s) = {})
    BY <2>4, <2>5, ListedElements
  <2>7. Elements(s) # {}
    BY <2>1, <2>2, ListedElements
  <2>8. Elements(s) \subseteq 1 .. n
    BY <2>2 DEF IsPartition
  <2>9. t[i] \in Seq(Elements(s))
    BY <2>4, <2>5 DEF Lists
  <2>10. t[i] \in Seq(1 .. n)
    BY <2>8, <2>9
  <2> QED
    BY <2>2, <2>4, <2>5, <2>6, <2>7, <2>10
<1>2. t = [i \in 1 .. k |-> t[i]]
  OBVIOUS
<1> HIDE DEF t
<1>3. t \in [1 .. k -> Seq(1 .. n)]
  BY <1>1, <1>2
<1>4. \A i, j \in 1 .. k : i # j => Elements(t[i]) \cap Elements(t[j]) = {}
  BY <1>1 DEF IsPartition
<1>5. UNION {Elements(t[i]) : i \in 1 .. k} = UNION {Elements(parts[i]) : i \in 1 .. k}
  BY <1>1
<1>6. IsPartition(t, n, k)
  BY <1>1, <1>3, <1>4, <1>5 DEF IsPartition
<1> QED
  BY <1>6 DEF t

\* So do the partitions handed out, which are sorted and checked for empty parts
\* (get_seqlen_balanced_partitions).
LEMMA BalancedPartition ==
  ASSUME NEW n \in Nat, NEW k \in Nat \ {0}, k <= n, NEW vals \in [1 .. n -> Nat \ {0}],
         NEW equal_size \in BOOLEAN, equal_size => \E groups \in Nat : n = groups * k
  PROVE  IsPartition(get_seqlen_balanced_partitions(vals, k, equal_size), n, k)
<1> DEFINE parts == KarmarkarKarp(vals, k, equal_size)
<1>1. IsPartition(parts, n, k)
  BY KarmarkarKarpIs
<1> HIDE DEF parts
<1>2. IsPartition([i \in 1 .. k |-> SortBy(parts[i], parts[i])], n, k)
  BY <1>1, SortedPartition
<1> QED
  BY <1>2 DEF get_seqlen_balanced_partitions, parts

\* Its assertions hold.
LEMMA PartitionPasses ==
  ASSUME NEW n \in Nat, NEW k \in Nat \ {0}, NEW parts, IsPartition(parts, n, k)
  PROVE  PartitionsPass(parts, n)
<1>1. DOMAIN parts = 1 .. k
  BY DEF IsPartition
<1>2. \A i \in 1 .. k : ToSet(parts[i]) = Elements(parts[i])
  <2> SUFFICES ASSUME NEW i \in 1 .. k  PROVE ToSet(parts[i]) = Elements(parts[i])
    OBVIOUS
  <2>1. parts[i] \in Seq(1 .. n)
    BY DEF IsPartition
  <2>2. DOMAIN parts[i] = 1 .. Len(parts[i])
    BY <2>1
  <2> QED
    BY <2>2 DEF ToSet, Elements
<1>3. UNION {ToSet(parts[i]) : i \in 1 .. k} = 1 .. n
  <2>1. {ToSet(parts[i]) : i \in 1 .. k} = {Elements(parts[i]) : i \in 1 .. k}
    BY <1>2
  <2> QED
    BY <2>1 DEF IsPartition
<1>4. \A i \in 1 .. k : parts[i] # <<>>
  BY DEF IsPartition
<1> QED
  BY <1>1, <1>3, <1>4 DEF PartitionsPass

\* Lists of the same elements, part by part, one after the other.
LEMMA FlattenPartition ==
  ASSUME NEW n \in Nat, NEW k \in Nat \ {0}, NEW parts, IsPartition(parts, n, k),
         NEW t, DOMAIN t = 1 .. k, t = [i \in 1 .. k |-> t[i]],
         \A i \in 1 .. k : Lists(t[i], Elements(parts[i]))
  PROVE  Lists(FlattenSeq(t), 1 .. n)
<1> DEFINE T == [i \in 1 .. k |-> Elements(parts[i])]
<1>1. \A i \in 1 .. k : T[i] = Elements(parts[i])
  OBVIOUS
<1> HIDE DEF T
<1>2. \A i \in 1 .. k : Lists(t[i], T[i])
  BY <1>1
<1>3. \A i, j \in 1 .. k : i # j => T[i] \cap T[j] = {}
  BY <1>1 DEF IsPartition
<1>4. UNION {T[i] : i \in 1 .. k} = 1 .. n
  <2>1. {T[i] : i \in 1 .. k} = {Elements(parts[i]) : i \in 1 .. k}
    BY <1>1
  <2> QED
    BY <2>1 DEF IsPartition
<1> QED
  BY <1>2, <1>3, <1>4, FlattenLists

\* Lengths of rows, and the work they are.
LEMMA WorkloadsAre ==
  ASSUME NEW n \in Nat, NEW lens \in [1 .. n -> Nat \ {0}]
  PROVE  Workloads(lens) \in [1 .. n -> Nat \ {0}]
<1>1. ASSUME NEW i \in 1 .. n  PROVE calculate_workload(lens[i]) \in Nat \ {0}
  <2>1. PICK x \in Nat \ {0} : x = lens[i]
    OBVIOUS
  <2>2. \A y \in Nat \ {0} : 24576 * y + y * y \in Nat \ {0}
    <3>1. \A y, z \in Nat : y * z \in Nat
      OBVIOUS
    <3> SUFFICES ASSUME NEW y \in Nat \ {0}  PROVE 24576 * y + y * y \in Nat \ {0}
      OBVIOUS
    <3>2. PICK z \in Nat : z = y * y
      BY <3>1
    <3>3. 24576 * y \in Nat \ {0}
      OBVIOUS
    <3> QED
      BY <3>2, <3>3
  <2> QED
    BY <2>1, <2>2 DEF calculate_workload
<1>2. DOMAIN lens = 1 .. n
  OBVIOUS
<1> QED
  BY <1>1, <1>2 DEF Workloads

\* The rows in the order in which the ranks get them.
LEMMA BalancedOrderLists ==
  ASSUME NEW n \in Nat \ {0}, NEW dp \in Nat \ {0}, NEW lens \in [1 .. n -> Nat \ {0}],
         NEW groups \in Nat, n = groups * dp
  PROVE  Lists(BalancedOrder(lens, dp), 1 .. n)
<1> DEFINE load == Workloads(lens)
           parts == get_seqlen_balanced_partitions(load, dp, TRUE)
           Ends(part) == LET s == SortBy(part, AtIndices(load, part))
                         IN EveryOther(s, 1) \o Reverse(EveryOther(s, 2))
           t == [i \in DOMAIN parts |-> Ends(parts[i])]
<1>1. load \in [1 .. n -> Nat \ {0}]
  BY WorkloadsAre
<1> HIDE DEF load
<1>2. dp <= n
  <2>1. groups # 0
    <3>1. 0 * dp = 0
      OBVIOUS
    <3> QED
      BY <3>1
  <2>2. PICK e \in Nat : groups = e + 1
    <3>1. groups - 1 \in Nat /\ groups = (groups - 1) + 1
      BY <2>1
    <3> QED
      BY <3>1
  <2>3. (e + 1) * dp = e * dp + dp /\ e * dp \in Nat
    <3>1. \A x, y \in Nat : (x + 1) * y = x * y + y /\ x * y \in Nat
      OBVIOUS
    <3> QED
      BY <3>1
  <2> QED
    BY <2>2, <2>3
<1>3. IsPartition(parts, n, dp)
  <2>1. TRUE \in BOOLEAN /\ (TRUE => \E g \in Nat : n = g * dp) /\ n \in Nat
    OBVIOUS
  <2> QED
    BY <1>1, <1>2, <2>1, BalancedPartition
<1> HIDE DEF parts
<1>4. ASSUME NEW i \in 1 .. dp  PROVE Lists(Ends(parts[i]), Elements(parts[i]))
  <2>1. /\ parts[i] \in Seq(1 .. n) /\ Lists(parts[i], Elements(parts[i]))
    BY <1>3 DEF IsPartition
  <2> DEFINE part == parts[i]
             key == AtIndices(load, part)
             s == SortBy(part, key)
             S == Elements(part)
  <2>2. DOMAIN key = DOMAIN part /\ \A q \in DOMAIN part : key[q] = load[part[q]]
    BY DEF AtIndices
  <2>3. \A q \in DOMAIN part : key[q] \in Int
    <3>1. DOMAIN part = 1 .. Len(part)
      BY <2>1
    <3>2. \A q \in 1 .. Len(part) : part[q] \in 1 .. n
      BY <2>1, ElementsIn
    <3> SUFFICES ASSUME NEW q \in DOMAIN part  PROVE key[q] \in Int
      OBVIOUS
    <3>3. PICK i1 \in 1 .. n : i1 = part[q]
      BY <3>1, <3>2, Zenon
    <3>4. load[i1] \in Nat \ {0} /\ key[q] = load[i1]
      BY <1>1, <2>2, <3>3, Zenon
    <3> HIDE DEF key, part, s, S, Ends
    <3> QED
      BY <3>4
  <2> HIDE DEF key
  <2>4. Lists(s, S)
    BY <2>1, <2>2, <2>3, SortedLists
  <2>5. Ends(parts[i]) = EveryOther(s, 1) \o Reverse(EveryOther(s, 2))
    BY DEF key
  <2> HIDE DEF s, S, Ends
  <2>6. s \in Seq(S)
    BY <2>4 DEF Lists
  <2>7. Rearranges(Ends(parts[i]), s)
    BY <2>5, <2>6, EndsRearrange
  <2>8. PICK f \in Rearrangements(Len(s)) : Ends(parts[i]) = [p \in 1 .. Len(s) |-> s[f[p]]]
    BY <2>7 DEF Rearranges
  <2>9. Lists(Ends(parts[i]), S)
    BY <2>4, <2>8, RearrangedLists
  <2> QED
    BY <2>9 DEF S
<1>5. BalancedOrder(lens, dp) = FlattenSeq(t)
  BY DEF BalancedOrder, load, parts
<1>6. DOMAIN parts = 1 .. dp
  BY <1>3 DEF IsPartition
<1>7. t = [i \in 1 .. dp |-> t[i]] /\ \A i \in 1 .. dp : t[i] = Ends(parts[i])
  BY <1>6
<1>8. DOMAIN t = 1 .. dp
  BY <1>6
<1> HIDE DEF t, Ends
<1>9. \A i \in 1 .. dp : Lists(t[i], Elements(parts[i]))
  BY <1>4, <1>7
<1>10. Lists(FlattenSeq(t), 1 .. n)
  BY <1>3, <1>7, <1>8, <1>9, FlattenPartition
<1> QED
  BY <1>5, <1>10

--------------------------------------------------------------------------------
(* Micro-batches, and results put back in the order of the rows.              *)

\* The parts of a partition in another order.
LEMMA RearrangedPartition ==
  ASSUME NEW n \in Nat, NEW k \in Nat \ {0}, NEW parts, IsPartition(parts, n, k),
         NEW t, Rearranges(t, parts)
  PROVE  IsPartition(t, n, k) /\ t \in Seq(Seq(1 .. n)) /\ Len(t) = k
<1>1. parts \in [1 .. k -> Seq(1 .. n)] /\ Len(parts) = k
  <2>1. parts \in [1 .. k -> Seq(1 .. n)]
    BY DEF IsPartition
  <2> QED
    BY <2>1
<1>2. PICK f \in Rearrangements(k) : t = [p \in 1 .. k |-> parts[f[p]]]
  BY <1>1 DEF Rearranges
<1>3. f \in [1 .. k -> 1 .. k] /\ (\A p, q \in 1 .. k : f[p] = f[q] => p = q)
      /\ \A i \in 1 .. k : \E p \in 1 .. k : f[p] = i
  BY <1>2 DEF Rearrangements
<1>4. \A p \in 1 .. k : t[p] = parts[f[p]] /\ f[p] \in 1 .. k
  BY <1>2, <1>3
<1>5. \A p \in 1 .. k : t[p] \in Seq(1 .. n)
  BY <1>1, <1>4
<1>6. t \in [1 .. k -> Seq(1 .. n)]
  BY <1>2, <1>5
<1>7. \A p \in 1 .. k : Lists(t[p], Elements(t[p])) /\ t[p] # <<>>
  <2>1. \A i \in 1 .. k : Lists(parts[i], Elements(parts[i])) /\ parts[i] # <<>>
    BY DEF IsPartition
  <2> QED
    BY <1>4, <2>1
<1>8. ASSUME NEW p \in 1 .. k, NEW q \in 1 .. k, p # q
      PROVE  Elements(t[p]) \cap Elements(t[q]) = {}
  <2>1. f[p] \in 1 .. k /\ f[q] \in 1 .. k /\ f[p] # f[q]
    BY <1>3, <1>8
  <2>2. \A i, j \in 1 .. k : i # j => Elements(parts[i]) \cap Elements(parts[j]) = {}
    BY DEF IsPartition
  <2>3. Elements(parts[f[p]]) \cap Elements(parts[f[q]]) = {}
    BY <2>1, <2>2
  <2> QED
    BY <1>4, <2>3
<1>9. UNION {Elements(t[p]) : p \in 1 .. k} = 1 .. n
  <2>1. UNION {Elements(parts[i]) : i \in 1 .. k} = 1 .. n
    BY DEF IsPartition
  <2>2. \A p \in 1 .. k : Elements(t[p]) \in {Elements(parts[i]) : i \in 1 .. k}
    BY <1>4
  <2>3. ASSUME NEW i \in 1 .. k  PROVE Elements(parts[i]) \in {Elements(t[p]) : p \in 1 .. k}
    <3>1. PICK p \in 1 .. k : f[p] = i
      BY <1>3
    <3>2. Elements(t[p]) = Elements(parts[i])
      BY <1>4, <3>1
    <3> QED
      BY <3>2
  <2>4. {Elements(t[p]) : p \in 1 .. k} = {Elements(parts[i]) : i \in 1 .. k}
    BY <2>2, <2>3
  <2> QED
    BY <2>1, <2>4
<1>10. IsPartition(t, n, k)
  BY <1>6, <1>7, <1>8, <1>9 DEF IsPartition
<1>11. t \in Seq(Seq(1 .. n)) /\ Len(t) = k
  <2> DEFINE S == Seq(1 .. n)
  <2>1. t \in [1 .. k -> S]
    BY <1>6
  <2> HIDE DEF S
  <2>2. t \in Seq(S) /\ Len(t) = k
    BY <2>1
  <2> QED
    BY <2>2 DEF S
<1> QED
  BY <1>10, <1>11

\* A rank's rows are in its micro-batches, of which none is empty.
LEMMA MicroBatchesAre ==
  ASSUME NEW n \in Nat, NEW k \in Nat \ {0}, k <= n, NEW lens \in [1 .. n -> Nat \ {0}]
  PROVE  IsPartition(MicroBatches(lens, k), n, k)
<1> DEFINE load == Workloads(lens)
           parts == get_seqlen_balanced_partitions(load, k, FALSE)
           work == [i \in DOMAIN parts |-> Total(AtIndices(load, parts[i]))]
           less == {p \in Pairs(parts) :
                            \/ work[p[1]] > work[p[2]]
                            \/ work[p[1]] = work[p[2]] /\ parts[p[1]][1] > parts[p[2]][1]}
           heaviest_first == Sort(parts, less)
           result == Reverse(EveryOther(heaviest_first, 1)) \o EveryOther(heaviest_first, 2)
<1>1. MicroBatches(lens, k) = result
  BY Zenon DEF MicroBatches, HeaviestFirst, FirstInMiddle
<1> HIDE DEF result
<1>2. load \in [1 .. n -> Nat \ {0}]
  BY WorkloadsAre
<1> HIDE DEF load
<1>3. IsPartition(parts, n, k)
  <2>1. FALSE \in BOOLEAN /\ (FALSE => \E g \in Nat : n = g * k)
    OBVIOUS
  <2> QED
    BY <1>2, <2>1, BalancedPartition
<1> HIDE DEF parts
<1> DEFINE D == 1 .. k
<1>4. DOMAIN parts = D
  BY <1>3 DEF IsPartition
<1>5. ASSUME NEW i \in D  PROVE work[i] \in Int /\ parts[i][1] \in Int
  <2>1. parts[i] \in Seq(1 .. n) /\ parts[i] # <<>>
    BY <1>3 DEF IsPartition
  <2>2. PICK m \in Nat : m = Len(parts[i]) /\ m # 0
    BY <2>1
  <2>3. \A q \in 1 .. m : parts[i][q] \in 1 .. n
    BY <2>1, <2>2, ElementsIn
  <2> DEFINE f == AtIndices(load, parts[i])
  <2>4. f \in [1 .. m -> Int]
    <3>1. DOMAIN parts[i] = 1 .. m
      BY <2>1, <2>2
    <3>2. f = [q \in 1 .. m |-> load[parts[i][q]]]
      BY <3>1 DEF AtIndices
    <3>3. \A q \in 1 .. m : load[parts[i][q]] \in Int
      BY <1>2, <2>3
    <3> HIDE DEF f
    <3> QED
      BY <3>2, <3>3
  <2>5. IsFiniteSet(1 .. m)
    BY UpToIsFinite
  <2>6. work[i] = SumFunction(f)
    BY <1>4 DEF Total
  <2> HIDE DEF f, work
  <2>7. SumFunction(f) \in Int
    BY <2>4, <2>5, SumType
  <2>8. 1 \in 1 .. m
    BY <2>2
  <2>9. parts[i][1] \in 1 .. n
    BY <2>3, <2>8
  <2> QED
    BY <2>6, <2>7, <2>9
<1> HIDE DEF work
<1>6. \A i, j \in D : <<i, j>> \in less <=>
          (work[i] > work[j] \/ (work[i] = work[j] /\ parts[i][1] > parts[j][1]))
  <2>1. Pairs(parts) = D \X D
    BY <1>4 DEF Pairs
  <2> QED
    BY <2>1
<1> HIDE DEF less, D
<1>7. OrdersPlaces(less, D)
  <2> DEFINE head == [i \in D |-> parts[i][1]]
  <2>1. \A i \in D : work[i] \in Int /\ head[i] \in Int
    BY <1>5
  <2>2. \A i, j \in D : <<i, j>> \in less <=>
            (work[i] > work[j] \/ (work[i] = work[j] /\ head[i] > head[j]))
    BY <1>6
  <2> HIDE DEF head, heaviest_first
  <2>3. \A i \in D : <<i, i>> \notin less
    BY <2>1, <2>2
  <2>4. ASSUME NEW i \in D, NEW j \in D, NEW m \in D, <<i, j>> \in less
        PROVE  <<i, m>> \in less \/ <<m, j>> \in less
    <3>1. work[i] > work[j] \/ (work[i] = work[j] /\ head[i] > head[j])
      BY <2>2, <2>4
    <3>2. \/ work[i] > work[m] \/ (work[i] = work[m] /\ head[i] > head[m])
          \/ work[m] > work[j] \/ (work[m] = work[j] /\ head[m] > head[j])
      BY <2>1, <3>1
    <3> QED
      BY <2>2, <3>2
  <2>5. ASSUME NEW i \in D, NEW j \in D, NEW m \in D, <<i, j>> \in less, <<j, m>> \in less
        PROVE  <<i, m>> \in less
    <3>1. /\ work[i] > work[j] \/ (work[i] = work[j] /\ head[i] > head[j])
          /\ work[j] > work[m] \/ (work[j] = work[m] /\ head[j] > head[m])
      BY <2>2, <2>5
    <3>2. work[i] > work[m] \/ (work[i] = work[m] /\ head[i] > head[m])
      BY <2>1, <3>1
    <3> QED
      BY <2>2, <3>2
  <2> QED
    BY <2>3, <2>4, <2>5 DEF OrdersPlaces
<1>8. parts \in Seq(Seq(1 .. n))
  <2>1. parts \in [D -> Seq(1 .. n)]
    BY <1>3 DEF IsPartition, D
  <2> DEFINE S == Seq(1 .. n)
  <2>2. parts \in [1 .. k -> S]
    BY <2>1 DEF D
  <2> HIDE DEF S
  <2>3. parts \in Seq(S)
    BY <2>2
  <2> QED
    BY <2>3 DEF S
<1>9. Rearranges(heaviest_first, parts)
  <2> DEFINE S == Seq(1 .. n)
  <2>1. parts \in Seq(S)
    BY <1>8
  <2>2. OrdersPlaces(less, DOMAIN parts)
    BY <1>4, <1>7
  <2> HIDE DEF S
  <2>3. \E f \in Rearrangements(Len(parts)) : Sort(parts, less) = [p \in 1 .. Len(parts) |-> parts[f[p]]]
    BY <2>1, <2>2, SortRearranges
  <2> QED
    BY <2>3 DEF Rearranges
<1> HIDE DEF heaviest_first
<1>10. IsPartition(heaviest_first, n, k) /\ heaviest_first \in Seq(Seq(1 .. n))
  BY <1>3, <1>9, RearrangedPartition
<1>11. Rearranges(result, heaviest_first)
  <2> DEFINE S == Seq(1 .. n)
  <2>1. heaviest_first \in Seq(S)
    BY <1>10
  <2> HIDE DEF S
  <2> QED
    BY <2>1, MiddleRearranges DEF result
<1>12. IsPartition(result, n, k)
  BY <1>10, <1>11, RearrangedPartition
<1> QED
  BY <1>1, <1>12

\* The results of all micro-batches, put back, are in the order of the rows.
LEMMA RestoredBatch ==
  ASSUME NEW V, NEW rows \in Seq(V), NEW n \in Nat, n = Len(rows),
         NEW k \in Nat \ {0}, NEW parts, IsPartition(parts, n, k)
  PROVE  restore_dynamic_batch(
             Concat([m \in DOMAIN parts |-> AtIndices(rows, parts[m])]), parts) = rows
<1> DEFINE order == FlattenSeq(parts)
           data == AtIndices(rows, order)
           back == get_reverse_idx(order)
<1>1. parts \in [1 .. k -> Seq(1 .. n)]
  BY DEF IsPartition
<1>2. Lists(order, 1 .. n)
  <2>1. DOMAIN parts = 1 .. k /\ parts = [i \in 1 .. k |-> parts[i]]
    BY <1>1
  <2>2. \A i \in 1 .. k : Lists(parts[i], Elements(parts[i]))
    BY DEF IsPartition
  <2> QED
    BY <2>1, <2>2, FlattenPartition
<1>3. Concat([m \in DOMAIN parts |-> AtIndices(rows, parts[m])]) = data
  <2>1. DOMAIN parts = 1 .. k
    BY <1>1
  <2>2. FlattenSeq([i \in 1 .. k |-> AtIndices(rows, parts[i])]) = AtIndices(rows, FlattenSeq(parts))
    <3>1. parts \in [1 .. k -> Seq(1 .. Len(rows))]
      BY <1>1
    <3> QED
      BY <3>1, FlattenIndices
  <2> QED
    BY <2>1, <2>2 DEF Concat
<1>4. restore_dynamic_batch(data, parts) = AtIndices(data, back)
  BY DEF restore_dynamic_batch
<1> HIDE DEF order
<1>5. order \in Seq(1 .. n) /\ Len(order) = n
  <2>1. IsFiniteSet(1 .. n) /\ Cardinality(1 .. n) = n
    BY UpToIsFinite
  <2>2. Cardinality(1 .. n) = Len(order)
    BY <1>2, ListLength
  <2> QED
    BY <1>2, <2>1, <2>2 DEF Lists
<1>6. DOMAIN order = 1 .. n
  BY <1>5
<1>7. data = [p \in 1 .. n |-> rows[order[p]]]
  BY <1>6 DEF AtIndices
<1>8. \A i \in 1 .. n : back[i] \in 1 .. n /\ order[back[i]] = i
  <2> SUFFICES ASSUME NEW i \in 1 .. n  PROVE back[i] \in 1 .. n /\ order[back[i]] = i
    OBVIOUS
  <2>1. \E p \in 1 .. n : order[p] = i
    BY <1>2, <1>5 DEF Lists
  <2>2. back[i] = CHOOSE p \in 1 .. n : order[p] = i
    BY <1>6 DEF get_reverse_idx
  <2> HIDE DEF back
  <2> QED
    BY <2>1, <2>2, Zenon
<1>9. DOMAIN back = 1 .. n
  BY <1>6 DEF get_reverse_idx
<1> HIDE DEF back, data
<1>10. AtIndices(data, back) = [i \in 1 .. n |-> data[back[i]]]
  BY <1>9 DEF AtIndices
<1>11. \A i \in 1 .. n : data[back[i]] = rows[i]
  BY <1>7, <1>8
<1>12. rows = [i \in 1 .. n |-> rows[i]]
  OBVIOUS
<1>13. AtIndices(data, back) = rows
  BY <1>10, <1>11, <1>12
<1> QED
  BY <1>3, <1>4, <1>13

--------------------------------------------------------------------------------
(* Copies of the prompts.                                                     *)

\* The elements of a set of numbers in their order.
LEMMA AscendingIs ==
  ASSUME NEW m \in Nat, NEW h \in [1 .. m -> Int], \A a, b \in 1 .. m : a < b => h[a] < h[b],
         NEW S, S = {h[g] : g \in 1 .. m}
  PROVE  Ascending(S) = h
<1>1. ASSUME NEW k \in 0 .. m
      PROVE  IsFiniteSet({h[g] : g \in 1 .. k}) /\ Cardinality({h[g] : g \in 1 .. k}) = k
  <2> DEFINE A == 1 .. k
             B == {h[g] : g \in 1 .. k}
             f == [g \in A |-> h[g]]
  <2>1. f \in [A -> B] /\ (\A t \in B : \E g \in A : f[g] = t)
    OBVIOUS
  <2>2. \A a, b \in A : f[a] = f[b] => a = b
    <3> SUFFICES ASSUME NEW a \in A, NEW b \in A, f[a] = f[b]  PROVE a = b
      OBVIOUS
    <3>1. a \in 1 .. m /\ b \in 1 .. m /\ f[a] = h[a] /\ f[b] = h[b]
      OBVIOUS
    <3>2. ~(a < b) /\ ~(b < a)
      BY <3>1
    <3> QED
      BY <3>1, <3>2
  <2>3. IsFiniteSet(A) /\ Cardinality(A) = k
    <3>1. k \in Nat
      OBVIOUS
    <3> HIDE DEF A
    <3> QED
      BY <3>1, UpToIsFinite DEF A
  <2> HIDE DEF f, A, B
  <2>4. f \in Bijection(A, B)
    BY <2>1, <2>2, Zenon DEF Bijection, Injection, Surjection, IsInjective
  <2>5. ExistsBijection(A, B)
    BY <2>4, Zenon DEF ExistsBijection
  <2>6. IsFiniteSet(B) /\ Cardinality(B) = k
    BY <2>3, <2>5, FS_Bijection
  <2> QED
    BY <2>6 DEF B
<1>2. Cardinality(S) = m
  <2>1. m \in 0 .. m
    OBVIOUS
  <2> QED
    BY <1>1, <2>1
<1>3. ASSUME NEW g \in 1 .. m  PROVE Cardinality({j \in S : j < h[g]}) = g - 1
  <2>1. {j \in S : j < h[g]} = {h[a] : a \in 1 .. g - 1}
    <3>1. ASSUME NEW a \in 1 .. m, h[a] < h[g]  PROVE a \in 1 .. g - 1
      <4>1. ~(g < a) /\ g # a
        BY <3>1
      <4> QED
        BY <4>1
    <3>2. \A a \in 1 .. g - 1 : a \in 1 .. m /\ h[a] < h[g]
      OBVIOUS
    <3> QED
      BY <3>1, <3>2
  <2>2. g - 1 \in 0 .. m
    OBVIOUS
  <2> QED
    BY <1>1, <2>1, <2>2
<1>4. ASSUME NEW p \in 1 .. m
      PROVE  (CHOOSE i \in S : Cardinality({j \in S : j < i}) = p - 1) = h[p]
  <2>1. h[p] \in S /\ Cardinality({j \in S : j < h[p]}) = p - 1
    BY <1>3
  <2>2. ASSUME NEW i \in S, Cardinality({j \in S : j < i}) = p - 1  PROVE i = h[p]
    <3>1. PICK g \in 1 .. m : i = h[g]
      OBVIOUS
    <3>2. g - 1 = p - 1
      BY <1>3, <2>2, <3>1
    <3>3. g = p
      BY <3>2
    <3> QED
      BY <3>1, <3>3
  <2> QED
    BY <2>1, <2>2
<1>5. Ascending(S) = [p \in 1 .. m |-> h[p]]
  BY <1>2, <1>4 DEF Ascending
<1> QED
  BY <1>5

\* Copies of the prompts: row p answers prompt ((p - 1) \div n) + 1.
Copies(prompts, n) == RepeatInterleave([i \in 1 .. prompts |-> i], n)

CopyOf(g, a, n) == (g - 1) * n + a
AreCopies(uids, prompts, n) ==
  /\ uids \in Seq(1 .. prompts) /\ Len(uids) = prompts * n
  /\ \A g \in 1 .. prompts : \A a \in 1 .. n :
        CopyOf(g, a, n) \in 1 .. Len(uids) /\ uids[CopyOf(g, a, n)] = g
  /\ \A p \in 1 .. Len(uids) : \E g \in 1 .. prompts : \E a \in 1 .. n : p = CopyOf(g, a, n)

\* Every row is one of the n copies of one prompt.
LEMMA UidsAre ==
  ASSUME NEW prompts \in Nat \ {0}, NEW n \in Nat \ {0}
  PROVE  AreCopies(Copies(prompts, n), prompts, n)
<1> DEFINE uids == Copies(prompts, n)
<1>1. PICK N \in Nat : N = prompts * n
  <2>1. \A x, y \in Nat : x * y \in Nat
    OBVIOUS
  <2> QED
    BY <2>1
<1>2. uids = [p \in 1 .. N |-> [i \in 1 .. prompts |-> i][((p - 1) \div n) + 1]]
  BY <1>1 DEF RepeatInterleave, Copies
<1>3. ASSUME NEW p \in 1 .. N
      PROVE  \E g \in 1 .. prompts : \E a \in 1 .. n : p = (g - 1) * n + a
  <2>1. PICK q \in Nat : \E r \in 0 .. n - 1 : p - 1 = n * q + r
    <3>1. p - 1 \in Nat
      OBVIOUS
    <3> QED
      BY <3>1, Quotient
  <2>2. PICK r \in 0 .. n - 1 : p - 1 = n * q + r
    BY <2>1
  <2>3. q < prompts
    <3> SUFFICES ASSUME q >= prompts  PROVE FALSE
      OBVIOUS
    <3>1. PICK e \in Nat : q = prompts + e
      <4>1. q - prompts \in Nat /\ q = prompts + (q - prompts)
        OBVIOUS
      <4> QED
        BY <4>1
    <3>2. n * (prompts + e) = prompts * n + n * e /\ n * e \in Nat
      <4>1. \A x, y, z \in Nat : z * (x + y) = x * z + z * y /\ z * y \in Nat
        OBVIOUS
      <4> QED
        BY <4>1
    <3>3. PICK b \in Nat : b = n * e
      BY <3>2
    <3>4. n * q = N + b
      BY <1>1, <3>1, <3>2, <3>3
    <3> QED
      BY <2>2, <3>4
  <2>4. PICK y \in Nat : y = n * q
    <3>1. \A x, z \in Nat : x * z \in Nat
      OBVIOUS
    <3> QED
      BY <3>1
  <2>5. ((q + 1) - 1) * n = y
    <3>1. (q + 1) - 1 = q /\ q * n = n * q
      OBVIOUS
    <3> QED
      BY <2>4, <3>1
  <2>6. q + 1 \in 1 .. prompts /\ r + 1 \in 1 .. n /\ p = ((q + 1) - 1) * n + (r + 1)
    BY <2>2, <2>3, <2>4, <2>5
  <2> QED
    BY <2>6
<1>4. ASSUME NEW g \in 1 .. prompts, NEW a \in 1 .. n
      PROVE  /\ (g - 1) * n + a \in 1 .. N
             /\ (((g - 1) * n + a) - 1) \div n = g - 1
  <2>1. PICK q \in Nat : g = q + 1
    <3>1. g - 1 \in Nat /\ g = (g - 1) + 1
      OBVIOUS
    <3> QED
      BY <3>1
  <2>2. PICK b \in 0 .. n - 1 : a = b + 1
    <3>1. a - 1 \in 0 .. n - 1 /\ a = (a - 1) + 1
      OBVIOUS
    <3> QED
      BY <3>1
  <2>3. (q * n + b) \div n = q
    BY DivMod
  <2>4. PICK y \in Nat : y = q * n
    <3>1. \A x, z \in Nat : x * z \in Nat
      OBVIOUS
    <3> QED
      BY <3>1
  <2>5. y + n <= N
    <3>1. PICK e \in Nat : prompts = q + 1 + e
      <4>1. prompts - (q + 1) \in Nat /\ prompts = q + 1 + (prompts - (q + 1))
        BY <2>1
      <4> QED
        BY <4>1
    <3>2. (q + 1 + e) * n = q * n + n + e * n /\ e * n \in Nat
      <4>1. \A x, z, w \in Nat : (x + 1 + z) * w = x * w + w + z * w /\ z * w \in Nat
        OBVIOUS
      <4> QED
        BY <4>1
    <3>3. PICK b1 \in Nat : b1 = e * n
      BY <3>2
    <3> QED
      BY <1>1, <2>4, <3>1, <3>2, <3>3
  <2>6. (g - 1) * n = y
    <3>1. g - 1 = q
      BY <2>1
    <3> QED
      BY <2>4, <3>1
  <2>7. (g - 1) * n + a \in 1 .. N
    BY <2>2, <2>5, <2>6
  <2>8. ((g - 1) * n + a) - 1 = y + b
    BY <2>2, <2>6
  <2>9. (y + b) \div n = q
    BY <2>3, <2>4
  <2>10. g - 1 = q
    BY <2>1
  <2> QED
    BY <2>7, <2>8, <2>9, <2>10
<1>5. ASSUME NEW g \in 1 .. prompts, NEW a \in 1 .. n
      PROVE  (g - 1) * n + a \in 1 .. N /\ uids[(g - 1) * n + a] = g
  <2>1. PICK p \in 1 .. N : p = (g - 1) * n + a
    BY <1>4
  <2>2. (p - 1) \div n = g - 1
    BY <1>4, <2>1
  <2>3. uids[p] = [i \in 1 .. prompts |-> i][((p - 1) \div n) + 1]
    BY <1>2
  <2>4. (g - 1) + 1 = g
    OBVIOUS
  <2>5. uids[p] = [i \in 1 .. prompts |-> i][g]
    BY <2>2, <2>3, <2>4
  <2> QED
    BY <2>1, <2>5
<1>6. \A p \in 1 .. N : uids[p] \in 1 .. prompts
  <2> SUFFICES ASSUME NEW p \in 1 .. N  PROVE uids[p] \in 1 .. prompts
    OBVIOUS
  <2>1. PICK g \in 1 .. prompts : \E a \in 1 .. n : p = (g - 1) * n + a
    BY <1>3
  <2>2. uids[p] = g
    BY <1>5, <2>1
  <2> QED
    BY <2>2
<1>7. uids \in Seq(1 .. prompts) /\ Len(uids) = N
  <2>1. uids = [p \in 1 .. N |-> uids[p]]
    BY <1>2
  <2>2. uids \in [1 .. N -> 1 .. prompts]
    BY <1>6, <2>1
  <2> QED
    BY <2>2
<1> HIDE DEF uids
<1>8. AreCopies(uids, prompts, n)
  BY <1>1, <1>3, <1>5, <1>7, Zenon DEF AreCopies, CopyOf
<1> QED
  BY <1>8 DEF uids

--------------------------------------------------------------------------------
(* Sums of lengths; the rows of a uid.                                        *)

\* A sum of natural numbers is one, and none of them is larger.
LEMMA SumNatural ==
  ASSUME NEW D, IsFiniteSet(D), NEW f \in [D -> Nat]
  PROVE  SumFunction(f) \in Nat /\ \A x \in D : f[x] <= SumFunction(f)
<1>1. ASSUME NEW E, IsFiniteSet(E), NEW e \in [E -> Nat]
      PROVE  SumFunction(e) \in Nat
  <2>1. /\ SumFunction(e) = Adding(e, E)[E]
        /\ IsSum(Adding(e, E), e, SUBSET E)
    <3>1. e \in [E -> Int]
      OBVIOUS
    <3> QED
      BY <1>1, <3>1, SumType
  <2> DEFINE U == {s \in SUBSET E : Adding(e, E)[s] \in Nat}
  <2>2. {} \in U
    BY <2>1 DEF IsSum
  <2>3. \A s \in SUBSET E : s # {} /\ Rest(s) \in U => s \in U
    <3> SUFFICES ASSUME NEW s \in SUBSET E, s # {}, Rest(s) \in U  PROVE s \in U
      OBVIOUS
    <3>1. Pick(s) \in E
      BY <1>1, RestIsSmaller
    <3>2. Adding(e, E)[s] = e[Pick(s)] + Adding(e, E)[Rest(s)]
      BY <2>1 DEF IsSum
    <3>3. e[Pick(s)] \in Nat /\ Adding(e, E)[Rest(s)] \in Nat
      BY <3>1
    <3> QED
      BY <3>2, <3>3
  <2> HIDE DEF U
  <2>4. E \in U
    BY <1>1, <2>2, <2>3, SubsetInduction
  <2> QED
    BY <2>1, <2>4 DEF U
<1>2. SumFunction(f) \in Nat
  BY <1>1
<1>3. ASSUME NEW x \in D  PROVE f[x] <= SumFunction(f)
  <2>1. f \in [D -> Int]
    OBVIOUS
  <2>2. SumFunction(f) = f[x] + SumFunction([y \in D \ {x} |-> f[y]])
    BY <2>1, SumWithout
  <2>3. SumFunction([y \in D \ {x} |-> f[y]]) \in Nat
    <3>1. IsFiniteSet(D \ {x})
      BY FS_RemoveElement
    <3> QED
      BY <1>1, <3>1
  <2>4. f[x] \in Nat
    OBVIOUS
  <2> QED
    BY <2>2, <2>3, <2>4
<1> QED
  BY <1>2, <1>3

\* A list of lengths has a length, which is positive if there is one.
LEMMA TotalIs ==
  ASSUME NEW n \in Nat, NEW lens \in [1 .. n -> Nat \ {0}]
  PROVE  Total(lens) \in Nat /\ (n > 0 => Total(lens) > 0)
<1>1. SumFunction(lens) \in Nat /\ \A x \in 1 .. n : lens[x] <= SumFunction(lens)
  <2>1. lens \in [1 .. n -> Nat]
    OBVIOUS
  <2> QED
    BY <2>1, SumNatural, UpToIsFinite
<1>2. ASSUME n > 0  PROVE SumFunction(lens) > 0
  <2>1. 1 \in 1 .. n
    BY <1>2
  <2>2. lens[1] \in Nat \ {0}
    BY <2>1
  <2>3. lens[1] <= SumFunction(lens)
    BY <1>1, <2>1
  <2> QED
    BY <1>1, <2>2, <2>3
<1> QED
  BY <1>1, <1>2 DEF Total

\* The copies of a prompt, and what a part of the prompts has.
BlockRows(g, n) == [a \in 1 .. n |-> CopyOf(g, a, n)]
Blocks(part, n) == FlattenSeq([q \in DOMAIN part |-> BlockRows(part[q], n)])
BlockLoads(lens, prompts, n) ==
  [g \in 1 .. prompts |-> Total(Workloads(AtIndices(lens, BlockRows(g, n))))]
RowsOf(uids, g) == {p \in DOMAIN uids : uids[p] = g}

\* The copies of a prompt are the rows of its uid.
LEMMA BlockLists ==
  ASSUME NEW prompts \in Nat \ {0}, NEW n \in Nat \ {0},
         NEW uids, AreCopies(uids, prompts, n), NEW g \in 1 .. prompts
  PROVE  Lists(BlockRows(g, n), RowsOf(uids, g)) /\ Len(BlockRows(g, n)) = n
<1>1. /\ uids \in Seq(1 .. prompts)
      /\ \A h \in 1 .. prompts : \A a \in 1 .. n :
            CopyOf(h, a, n) \in 1 .. Len(uids) /\ uids[CopyOf(h, a, n)] = h
      /\ \A p \in 1 .. Len(uids) :
            \E h \in 1 .. prompts : \E a \in 1 .. n : p = CopyOf(h, a, n)
  BY Zenon DEF AreCopies
<1>a. DOMAIN uids = 1 .. Len(uids)
  BY <1>1
<1>2. ASSUME NEW p \in RowsOf(uids, g)  PROVE \E a \in 1 .. n : p = CopyOf(g, a, n)
  <2>1. p \in 1 .. Len(uids) /\ uids[p] = g
    BY <1>a DEF RowsOf
  <2>2. PICK h \in 1 .. prompts : \E a \in 1 .. n : p = CopyOf(h, a, n)
    BY <1>1, <2>1, Zenon
  <2>3. PICK a \in 1 .. n : p = CopyOf(h, a, n)
    BY <2>2
  <2>4. uids[p] = h
    BY <1>1, <2>3, Zenon
  <2>5. h = g
    BY <2>1, <2>4
  <2> QED
    BY <2>3, <2>5, Zenon
<1>3. \A a \in 1 .. n : CopyOf(g, a, n) \in RowsOf(uids, g)
  BY <1>1, <1>a, Zenon DEF RowsOf
<1> HIDE DEF RowsOf
<1>4. BlockRows(g, n) \in Seq(RowsOf(uids, g)) /\ Len(BlockRows(g, n)) = n
  BY <1>3 DEF BlockRows
<1>5. \A a \in 1 .. n : BlockRows(g, n)[a] = CopyOf(g, a, n)
  BY DEF BlockRows
<1>6. ASSUME NEW p \in 1 .. n, NEW q \in 1 .. n, BlockRows(g, n)[p] = BlockRows(g, n)[q]
      PROVE  p = q
  <2>1. PICK y \in Nat : y = (g - 1) * n
    <3>1. g - 1 \in Nat
      OBVIOUS
    <3>2. \A x, z \in Nat : x * z \in Nat
      OBVIOUS
    <3> QED
      BY <3>1, <3>2
  <2>2. y + p = y + q
    BY <1>5, <1>6, <2>1 DEF CopyOf
  <2> QED
    BY <2>2
<1>7. \A x \in RowsOf(uids, g) : \E p \in 1 .. n : BlockRows(g, n)[p] = x
  BY <1>2, <1>5
<1> QED
  BY <1>4, <1>6, <1>7 DEF Lists

\* The copies of one prompt are behind those of the prompt before it.
LEMMA CopiesInOrder ==
  ASSUME NEW n \in Nat \ {0}
  PROVE  /\ \A g \in Nat \ {0} : \A a \in Nat \ {0} :
               /\ CopyOf(g, a, n) \in Nat /\ CopyOf(g, a, n) >= a
               /\ CopyOf(g, a, n) = CopyOf(g, 1, n) + a - 1
         /\ CopyOf(1, 1, n) = 1
         /\ \A g \in Nat \ {0} : CopyOf(g + 1, 1, n) = CopyOf(g, n, n) + 1
         /\ \A g, h \in Nat \ {0} : g < h => CopyOf(g, 1, n) < CopyOf(h, 1, n)
         /\ \A g \in Nat \ {0} : CopyOf(g, n, n) = g * n
<1>1. ASSUME NEW g \in Nat \ {0}
      PROVE  \E y \in Nat : /\ \A a \in Nat \ {0} : CopyOf(g, a, n) = y + a
                           /\ \A a \in Nat \ {0} : CopyOf(g + 1, a, n) = y + n + a
                           /\ g * n = y + n
  <2>1. PICK q \in Nat : g = q + 1
    <3>1. g - 1 \in Nat /\ g = (g - 1) + 1
      OBVIOUS
    <3> QED
      BY <3>1
  <2>2. \A x \in Nat : x * n \in Nat /\ (x + 1) * n = x * n + n
    OBVIOUS
  <2>3. PICK y \in Nat : y = q * n
    BY <2>2
  <2>4. g - 1 = q /\ (g + 1) - 1 = g
    BY <2>1
  <2>5. g * n = y + n
    BY <2>1, <2>2, <2>3
  <2>6. /\ \A a \in Nat \ {0} : CopyOf(g, a, n) = y + a
        /\ \A a \in Nat \ {0} : CopyOf(g + 1, a, n) = y + n + a
    BY <2>3, <2>4, <2>5 DEF CopyOf
  <2> QED
    BY <2>5, <2>6
<1>2. ASSUME NEW g \in Nat \ {0}
      PROVE  /\ \A a \in Nat \ {0} : /\ CopyOf(g, a, n) \in Nat /\ CopyOf(g, a, n) >= a
                                     /\ CopyOf(g, a, n) = CopyOf(g, 1, n) + a - 1
             /\ CopyOf(g + 1, 1, n) = CopyOf(g, n, n) + 1
             /\ CopyOf(g, n, n) = g * n
  <2>1. PICK y \in Nat : /\ \A a \in Nat \ {0} : CopyOf(g, a, n) = y + a
                        /\ \A a \in Nat \ {0} : CopyOf(g + 1, a, n) = y + n + a
                        /\ g * n = y + n
    BY <1>1
  <2>2. CopyOf(g, 1, n) = y + 1 /\ CopyOf(g + 1, 1, n) = y + n + 1 /\ CopyOf(g, n, n) = y + n
    BY <2>1
  <2>3. ASSUME NEW a \in Nat \ {0}
        PROVE  /\ CopyOf(g, a, n) \in Nat /\ CopyOf(g, a, n) >= a
               /\ CopyOf(g, a, n) = CopyOf(g, 1, n) + a - 1
    <3>1. CopyOf(g, a, n) = y + a
      BY <2>1
    <3> QED
      BY <2>2, <3>1
  <2>4. CopyOf(g + 1, 1, n) = CopyOf(g, n, n) + 1
    BY <2>2
  <2>5. CopyOf(g, n, n) = g * n
    BY <2>1, <2>2
  <2> QED
    BY <2>3, <2>4, <2>5
<1>3. CopyOf(1, 1, n) = 1
  <2>1. (1 - 1) * n = 0
    OBVIOUS
  <2> QED
    BY <2>1 DEF CopyOf
<1>4. ASSUME NEW g \in Nat \ {0}, NEW h \in Nat \ {0}, g < h
      PROVE  CopyOf(g, 1, n) < CopyOf(h, 1, n)
  <2>1. PICK q \in Nat : g = q + 1
    <3>1. g - 1 \in Nat /\ g = (g - 1) + 1
      OBVIOUS
    <3> QED
      BY <3>1
  <2>2. PICK e \in Nat : h = q + 1 + (e + 1)
    <3>1. h - g - 1 \in Nat /\ h = g + ((h - g - 1) + 1)
      BY <1>4
    <3> QED
      BY <2>1, <3>1
  <2>3. \A x, z \in Nat : x * n \in Nat /\ (x + (z + 1)) * n = x * n + z * n + n
    OBVIOUS
  <2>4. PICK y \in Nat : y = q * n
    BY <2>3
  <2>5. PICK b \in Nat : b = e * n
    BY <2>3
  <2>6. g - 1 = q /\ h - 1 = q + (e + 1)
    BY <2>1, <2>2
  <2>7. (g - 1) * n = y /\ (h - 1) * n = y + b + n
    BY <2>3, <2>4, <2>5, <2>6
  <2> QED
    BY <2>7 DEF CopyOf
<1> QED
  BY <1>2, <1>3, <1>4

\* A uid begins at the first of its copies.
LEMMA BlocksStart ==
  ASSUME NEW prompts \in Nat \ {0}, NEW n \in Nat \ {0},
         NEW uids, AreCopies(uids, prompts, n)
  PROVE  Ascending({i \in DOMAIN uids : i = 1 \/ uids[i] # uids[i - 1]})
           = [g \in 1 .. prompts |-> CopyOf(g, 1, n)]
<1> DEFINE S == {i \in DOMAIN uids : i = 1 \/ uids[i] # uids[i - 1]}
           h == [g \in 1 .. prompts |-> CopyOf(g, 1, n)]
<1>1. /\ uids \in Seq(1 .. prompts)
      /\ \A g \in 1 .. prompts : \A a \in 1 .. n :
            CopyOf(g, a, n) \in 1 .. Len(uids) /\ uids[CopyOf(g, a, n)] = g
      /\ \A p \in 1 .. Len(uids) :
            \E g \in 1 .. prompts : \E a \in 1 .. n : p = CopyOf(g, a, n)
  BY Zenon DEF AreCopies
<1>2. DOMAIN uids = 1 .. Len(uids)
  BY <1>1
<1>3. ASSUME NEW g \in 1 .. prompts  PROVE CopyOf(g, 1, n) \in S
  <2> DEFINE i == CopyOf(g, 1, n)
  <2>1. i \in 1 .. Len(uids) /\ uids[i] = g
    <3>1. 1 \in 1 .. n
      OBVIOUS
    <3> QED
      BY <1>1, <3>1, Zenon
  <2>2. CASE g = 1
    <3>1. i = 1
      BY <2>2, CopiesInOrder, Zenon
    <3> QED
      BY <1>2, <2>1, <3>1
  <2>3. CASE g # 1
    <3>1. PICK f \in 1 .. prompts : g = f + 1
      <4>1. g - 1 \in 1 .. prompts /\ g = (g - 1) + 1
        BY <2>3
      <4> QED
        BY <4>1
    <3>2. i = CopyOf(f, n, n) + 1
      <4>1. f \in Nat \ {0}
        OBVIOUS
      <4> QED
        BY <3>1, <4>1, CopiesInOrder, Zenon
    <3>3. CopyOf(f, n, n) \in 1 .. Len(uids) /\ uids[CopyOf(f, n, n)] = f
      <4>1. n \in 1 .. n
        OBVIOUS
      <4> QED
        BY <1>1, <4>1, Zenon
    <3>4. PICK c \in 1 .. Len(uids) : c = CopyOf(f, n, n)
      BY <3>3
    <3> HIDE DEF i
    <3>5. i - 1 = c
      BY <3>2, <3>4
    <3>6. uids[i - 1] = f
      BY <3>3, <3>4, <3>5
    <3>7. uids[i] # uids[i - 1]
      BY <2>1, <3>1, <3>6
    <3>8. i \in S
      BY <1>2, <2>1, <3>7
    <3> QED
      BY <3>8 DEF i
  <2> QED
    BY <2>2, <2>3
<1>4. ASSUME NEW i \in S  PROVE \E g \in 1 .. prompts : i = CopyOf(g, 1, n)
  <2>1. i \in 1 .. Len(uids) /\ (i = 1 \/ uids[i] # uids[i - 1])
    BY <1>2
  <2>2. PICK g \in 1 .. prompts : \E a \in 1 .. n : i = CopyOf(g, a, n)
    BY <1>1, <2>1, Zenon
  <2>3. PICK a \in 1 .. n : i = CopyOf(g, a, n)
    BY <2>2
  <2>4. a = 1
    <3> SUFFICES ASSUME a # 1  PROVE FALSE
      OBVIOUS
    <3>1. PICK b \in 1 .. n : a = b + 1
      <4>1. a - 1 \in 1 .. n /\ a = (a - 1) + 1
        OBVIOUS
      <4> QED
        BY <4>1
    <3>2. /\ CopyOf(g, a, n) \in Nat /\ CopyOf(g, a, n) >= a
          /\ CopyOf(g, a, n) = CopyOf(g, 1, n) + a - 1
          /\ CopyOf(g, b, n) = CopyOf(g, 1, n) + b - 1
          /\ CopyOf(g, 1, n) \in Nat
      <4>1. g \in Nat \ {0} /\ a \in Nat \ {0} /\ b \in Nat \ {0} /\ 1 \in Nat \ {0}
        OBVIOUS
      <4> QED
        BY <4>1, CopiesInOrder, Zenon
    <3>3. PICK c \in Nat : c = CopyOf(g, 1, n)
      BY <3>2
    <3>4. i = c + b /\ i >= b + 1 /\ CopyOf(g, b, n) = c + b - 1
      BY <2>3, <3>1, <3>2, <3>3
    <3>5. i # 1 /\ CopyOf(g, b, n) = i - 1
      BY <3>3, <3>4
    <3>6. uids[i] = g /\ uids[i - 1] = g
      BY <1>1, <2>3, <3>5, Zenon
    <3> QED
      BY <2>1, <3>5, <3>6
  <2> QED
    BY <2>3, <2>4
<1>5. S = {h[g] : g \in 1 .. prompts}
  <2>1. \A g \in 1 .. prompts : h[g] = CopyOf(g, 1, n)
    OBVIOUS
  <2> HIDE DEF S, h
  <2> QED
    BY <1>3, <1>4, <2>1
<1>6. h \in [1 .. prompts -> Int] /\ \A a, b \in 1 .. prompts : a < b => h[a] < h[b]
  <2>1. \A g \in 1 .. prompts : g \in Nat \ {0}
    OBVIOUS
  <2>2. 1 \in Nat \ {0}
    OBVIOUS
  <2>3. \A g \in 1 .. prompts : CopyOf(g, 1, n) \in Nat
    BY <2>1, <2>2, CopiesInOrder, Zenon
  <2>4. \A a, b \in 1 .. prompts : a < b => CopyOf(a, 1, n) < CopyOf(b, 1, n)
    BY <2>1, CopiesInOrder, Zenon
  <2> QED
    BY <2>3, <2>4
<1> HIDE DEF S, h
<1>7. Ascending(S) = h
  BY <1>5, <1>6, AscendingIs
<1> QED
  BY <1>7 DEF S, h

--------------------------------------------------------------------------------
(* Batches divided by prompt.                                                 *)

\* The parts the prompts are divided into, and what the ranks get of them.
PromptParts(lens, prompts, n, k) ==
  get_seqlen_balanced_partitions(BlockLoads(lens, prompts, n), k, TRUE)
PartsRows(P, n, k) == [i \in 1 .. k |-> SortBy(Blocks(P[i], n), Blocks(P[i], n))]

\* Prompts, not rows, are divided, and each part gets their copies.
LEMMA GroupedIs ==
  ASSUME NEW prompts \in Nat \ {0}, NEW n \in Nat \ {0}, NEW k \in Nat \ {0},
         NEW uids, AreCopies(uids, prompts, n), NEW lens,
         IsPartition(PromptParts(lens, prompts, n, k), prompts, k)
  PROVE  get_group_balanced_partitions(lens, uids, k) = PartsRows(PromptParts(lens, prompts, n, k), n, k)
<1>a. PICK P : P = PromptParts(lens, prompts, n, k)
  OBVIOUS
<1> DEFINE starts == Ascending({i \in DOMAIN uids : i = 1 \/ uids[i] # uids[i - 1]})
           End(g) == IF g = Len(starts) THEN Len(uids) ELSE starts[g + 1] - 1
           Rows(g) == [p \in 1 .. (End(g) - starts[g] + 1) |-> starts[g] + p - 1]
           load == [g \in DOMAIN starts |-> Total(Workloads(AtIndices(lens, Rows(g))))]
           parts == get_seqlen_balanced_partitions(load, k, TRUE)
           Samples(part) == FlattenSeq([q \in DOMAIN part |-> Rows(part[q])])
<1>1. get_group_balanced_partitions(lens, uids, k)
        = [i \in 1 .. k |-> SortBy(Samples(parts[i]), Samples(parts[i]))]
  BY Zenon DEF get_group_balanced_partitions
<1>2. starts = [g \in 1 .. prompts |-> CopyOf(g, 1, n)]
  <2> HIDE DEF End, Rows, load, parts, Samples
  <2> QED
    BY BlocksStart
<1>3. \A g \in 1 .. prompts : g \in Nat \ {0}
  OBVIOUS
<1>4. \A g \in 1 .. prompts : CopyOf(g, 1, n) \in Nat /\ CopyOf(g, n, n) = CopyOf(g, 1, n) + n - 1
  <2>1. 1 \in Nat \ {0}
    OBVIOUS
  <2> QED
    BY <1>3, <2>1, CopiesInOrder, Zenon
<1>5. DOMAIN starts = 1 .. prompts /\ Len(starts) = prompts
  <2> HIDE DEF starts
  <2>1. starts \in Seq(Nat) /\ Len(starts) = prompts
    BY <1>2, <1>4
  <2> QED
    BY <2>1
<1>6. ASSUME NEW g \in 1 .. prompts  PROVE starts[g] = CopyOf(g, 1, n)
  BY <1>2, Zenon
<1> HIDE DEF starts
<1>7. ASSUME NEW g \in 1 .. prompts  PROVE End(g) = CopyOf(g, n, n)
  <2>1. CASE g = prompts
    <3>1. CopyOf(g, n, n) = Len(uids)
      BY <1>3, <2>1, CopiesInOrder, Zenon DEF AreCopies
    <3>2. g = Len(starts)
      BY <1>5, <2>1
    <3> QED
      BY <3>1, <3>2
  <2>2. CASE g # prompts
    <3>1. g + 1 \in 1 .. prompts
      BY <2>2
    <3>2. starts[g + 1] = CopyOf(g, n, n) + 1
      <4>1. starts[g + 1] = CopyOf(g + 1, 1, n)
        BY <1>6, <3>1
      <4>2. CopyOf(g + 1, 1, n) = CopyOf(g, n, n) + 1
        BY <1>3, CopiesInOrder, Zenon
      <4> QED
        BY <4>1, <4>2
    <3>3. PICK c \in Nat : c = CopyOf(g, 1, n)
      BY <1>4
    <3>4. CopyOf(g, n, n) = c + n - 1
      BY <1>4, <3>3
    <3>5. End(g) = starts[g + 1] - 1
      BY <1>5, <2>2
    <3>6. starts[g + 1] = c + n
      BY <3>2, <3>4
    <3> HIDE DEF End
    <3> QED
      BY <3>4, <3>5, <3>6
  <2> QED
    BY <2>1, <2>2
<1>8. ASSUME NEW g \in 1 .. prompts  PROVE Rows(g) = BlockRows(g, n)
  <2>1. PICK c \in Nat : c = CopyOf(g, 1, n)
    BY <1>4
  <2>2. starts[g] = c /\ End(g) = c + n - 1
    BY <1>4, <1>6, <1>7, <2>1
  <2>3. End(g) - starts[g] + 1 = n
    <3> HIDE DEF End
    <3> QED
      BY <2>2
  <2>4. \A p \in 1 .. n : CopyOf(g, p, n) = starts[g] + p - 1
    <3>1. \A p \in 1 .. n : p \in Nat \ {0}
      OBVIOUS
    <3>2. g \in Nat \ {0}
      OBVIOUS
    <3>3. \A p \in 1 .. n : CopyOf(g, p, n) = CopyOf(g, 1, n) + p - 1
      BY <3>1, <3>2, CopiesInOrder, Zenon
    <3> QED
      BY <1>6, <3>3
  <2>5. Rows(g) = [p \in 1 .. n |-> starts[g] + p - 1]
    BY <2>3
  <2>6. BlockRows(g, n) = [p \in 1 .. n |-> starts[g] + p - 1]
    BY <2>4, Zenon DEF BlockRows
  <2> QED
    BY <2>5, <2>6
<1> HIDE DEF End, Rows
<1>9. load = BlockLoads(lens, prompts, n)
  BY <1>5, <1>8, Zenon DEF BlockLoads
<1>10. parts = P
  BY <1>9, <1>a, Zenon DEF PromptParts
<1>11. ASSUME NEW i \in 1 .. k  PROVE Samples(P[i]) = Blocks(P[i], n)
  <2>1. P[i] \in Seq(1 .. prompts)
    BY <1>a DEF IsPartition
  <2>2. \A q \in DOMAIN P[i] : P[i][q] \in 1 .. prompts
    <3> HIDE DEF load, parts, Samples
    <3>1. PICK part \in Seq(1 .. prompts) : part = P[i]
      BY <2>1
    <3>2. \A q \in DOMAIN part : part[q] \in 1 .. prompts
      <4>1. \A s \in Seq(1 .. prompts) : \A q \in DOMAIN s : s[q] \in 1 .. prompts
        OBVIOUS
      <4> QED
        BY <4>1, Zenon
    <3> QED
      BY <3>1, <3>2, Zenon
  <2>3. [q \in DOMAIN P[i] |-> Rows(P[i][q])] = [q \in DOMAIN P[i] |-> BlockRows(P[i][q], n)]
    BY <1>8, <2>2, Zenon
  <2> QED
    BY <2>3, Zenon DEF Blocks
<1> HIDE DEF Samples, parts, load
<1>12. [i \in 1 .. k |-> SortBy(Samples(parts[i]), Samples(parts[i]))]
         = [i \in 1 .. k |-> SortBy(Blocks(P[i], n), Blocks(P[i], n))]
  BY <1>10, <1>11, Zenon
<1> QED
  BY <1>1, <1>12, <1>a, Zenon DEF PartsRows

\* The copies of some prompts are the rows of their uids.
LEMMA BlocksList ==
  ASSUME NEW prompts \in Nat \ {0}, NEW n \in Nat \ {0},
         NEW uids, AreCopies(uids, prompts, n),
         NEW part \in Seq(1 .. prompts), Lists(part, Elements(part)), part # <<>>
  PROVE  Lists(Blocks(part, n), UNION {RowsOf(uids, g) : g \in Elements(part)})
<1>1. PICK N \in Nat \ {0} : N = Len(part)
  OBVIOUS
<1> DEFINE f == [q \in DOMAIN part |-> BlockRows(part[q], n)]
           T == [q \in 1 .. N |-> RowsOf(uids, part[q])]
           S == UNION {RowsOf(uids, g) : g \in Elements(part)}
<1>2. DOMAIN part = 1 .. N
  BY <1>1
<1>3. \A q \in 1 .. N : part[q] \in 1 .. prompts
  BY <1>1
<1>4. DOMAIN f = 1 .. N /\ f = [q \in 1 .. N |-> f[q]]
  BY <1>2
<1>5. \A q \in 1 .. N : Lists(f[q], T[q])
  <2> SUFFICES ASSUME NEW q \in 1 .. N  PROVE Lists(f[q], T[q])
    OBVIOUS
  <2>1. Lists(BlockRows(part[q], n), RowsOf(uids, part[q]))
    BY <1>3, BlockLists
  <2>2. f[q] = BlockRows(part[q], n) /\ T[q] = RowsOf(uids, part[q])
    BY <1>2, Zenon
  <2> QED
    BY <2>1, <2>2
<1>6. \A p, q \in 1 .. N : p # q => T[p] \cap T[q] = {}
  <2> SUFFICES ASSUME NEW p \in 1 .. N, NEW q \in 1 .. N, p # q,
                      NEW x, x \in T[p], x \in T[q]
               PROVE  FALSE
    OBVIOUS
  <2>1. uids[x] = part[p] /\ uids[x] = part[q]
    BY DEF RowsOf
  <2>2. part[p] = part[q]
    BY <2>1
  <2> QED
    BY <1>1, <2>2 DEF Lists
<1>7. UNION {T[q] : q \in 1 .. N} = S
  <2>1. \A q \in 1 .. N : T[q] = RowsOf(uids, part[q])
    BY Zenon
  <2>2. Elements(part) = {part[q] : q \in 1 .. N}
    BY <1>1 DEF Elements
  <2> HIDE DEF T
  <2>3. S = UNION {RowsOf(uids, part[q]) : q \in 1 .. N}
    BY <2>2
  <2> HIDE DEF S
  <2> QED
    BY <2>1, <2>3
<1> HIDE DEF f, T, S
<1>8. Lists(FlattenSeq(f), S)
  BY <1>4, <1>5, <1>6, <1>7, FlattenLists
<1> QED
  BY <1>8, Zenon DEF Blocks, f, S

\* With prefix_grouper too the batch is rearranged: every row is handed to a rank.
LEMMA GroupedOrderLists ==
  ASSUME NEW prompts \in Nat \ {0}, NEW n \in Nat \ {0}, NEW dp \in Nat \ {0},
         Divided(prompts, dp),
         NEW uids, AreCopies(uids, prompts, n), NEW rows \in Nat, Len(uids) = rows,
         NEW lens \in [1 .. rows -> Nat \ {0}]
  PROVE  Lists(GroupedOrder(lens, uids, dp), 1 .. rows)
<1>a. /\ uids \in Seq(1 .. prompts)
      /\ DOMAIN uids = 1 .. rows /\ \A x \in 1 .. rows : uids[x] \in 1 .. prompts
  <2>1. uids \in Seq(1 .. prompts)
    BY Zenon DEF AreCopies
  <2> QED
    BY <2>1
<1>1. ASSUME NEW g \in 1 .. prompts
      PROVE  Total(Workloads(AtIndices(lens, BlockRows(g, n)))) \in Nat \ {0}
  <2>1. Lists(BlockRows(g, n), RowsOf(uids, g)) /\ Len(BlockRows(g, n)) = n
    BY BlockLists
  <2>2. RowsOf(uids, g) \subseteq 1 .. rows
    BY <1>a DEF RowsOf
  <2>3. PICK b : b = BlockRows(g, n)
    OBVIOUS
  <2>4. b \in [1 .. n -> 1 .. rows]
    BY <2>1, <2>2, <2>3 DEF Lists
  <2>5. AtIndices(lens, b) \in [1 .. n -> Nat \ {0}]
    BY <2>4 DEF AtIndices
  <2>6. Workloads(AtIndices(lens, b)) \in [1 .. n -> Nat \ {0}]
    BY <2>5, WorkloadsAre
  <2>7. Total(Workloads(AtIndices(lens, b))) \in Nat \ {0}
    <3>1. PICK w \in [1 .. n -> Nat \ {0}] : w = Workloads(AtIndices(lens, b))
      BY <2>6
    <3>2. Total(w) \in Nat /\ (n > 0 => Total(w) > 0)
      BY TotalIs
    <3> QED
      BY <3>1, <3>2
  <2> QED
    BY <2>3, <2>7
<1>2. PICK loads : loads = BlockLoads(lens, prompts, n)
  OBVIOUS
<1>3. loads \in [1 .. prompts -> Nat \ {0}]
  BY <1>1, <1>2 DEF BlockLoads
<1>4. PICK P : P = PromptParts(lens, prompts, n, dp)
  OBVIOUS
<1>5. IsPartition(P, prompts, dp)
  <2>1. dp <= prompts
    <3>0. PICK each \in Nat : prompts = each * dp
      BY Zenon DEF Divided
    <3>1. each # 0
      BY <3>0
    <3>2. PICK e \in Nat : each = e + 1
      <4>1. each - 1 \in Nat /\ each = (each - 1) + 1
        BY <3>1
      <4> QED
        BY <4>1
    <3>3. \A x \in Nat : (x + 1) * dp = x * dp + dp /\ x * dp \in Nat
      OBVIOUS
    <3>4. PICK y \in Nat : y = e * dp
      BY <3>3
    <3>5. prompts = y + dp
      BY <3>0, <3>2, <3>3, <3>4
    <3> QED
      BY <3>5
  <2>2. TRUE => \E groups \in Nat : prompts = groups * dp
    BY Zenon DEF Divided
  <2>3. TRUE \in BOOLEAN
    OBVIOUS
  <2>4. IsPartition(get_seqlen_balanced_partitions(loads, dp, TRUE), prompts, dp)
    BY <1>3, <2>1, <2>2, <2>3, BalancedPartition, Zenon
  <2> QED
    BY <1>2, <1>4, <2>4 DEF PromptParts
<1>6. get_group_balanced_partitions(lens, uids, dp)
        = [i \in 1 .. dp |-> SortBy(Blocks(P[i], n), Blocks(P[i], n))]
  BY <1>4, <1>5, GroupedIs DEF PartsRows
<1> DEFINE T == [i \in 1 .. dp |-> UNION {RowsOf(uids, g) : g \in Elements(P[i])}]
           f == [i \in 1 .. dp |-> SortBy(Blocks(P[i], n), Blocks(P[i], n))]
<1>7. /\ \A i \in 1 .. dp : P[i] \in Seq(1 .. prompts) /\ Lists(P[i], Elements(P[i])) /\ P[i] # <<>>
      /\ \A i, j \in 1 .. dp : i # j => Elements(P[i]) \cap Elements(P[j]) = {}
      /\ UNION {Elements(P[i]) : i \in 1 .. dp} = 1 .. prompts
  BY <1>5 DEF IsPartition
<1>8. ASSUME NEW i \in 1 .. dp  PROVE Lists(f[i], T[i])
  <2>1. PICK part : part = P[i]
    OBVIOUS
  <2>2. part \in Seq(1 .. prompts) /\ Lists(part, Elements(part)) /\ part # <<>>
    BY <1>7, <2>1
  <2>3. PICK S : S = UNION {RowsOf(uids, g) : g \in Elements(part)}
    OBVIOUS
  <2>4. PICK s : s = Blocks(part, n)
    OBVIOUS
  <2>5. Lists(s, S)
    BY <2>2, <2>3, <2>4, BlocksList
  <2>6. S \subseteq 1 .. rows
    BY <1>a, <2>3 DEF RowsOf
  <2>7. Lists(SortBy(s, s), S)
    <3>1. \A q \in DOMAIN s : s[q] \in Int
      <4> HIDE DEF T, f
      <4>1. s \in Seq(S)
        BY <2>5 DEF Lists
      <4>2. \A x \in S : x \in Int
        BY <2>6
      <4> QED
        BY <4>1, <4>2
    <3> QED
      BY <2>5, <3>1, SortedLists
  <2>8. f[i] = SortBy(s, s) /\ T[i] = S
    BY <2>1, <2>3, <2>4, Zenon
  <2> QED
    BY <2>7, <2>8
<1>9. \A i, j \in 1 .. dp : i # j => T[i] \cap T[j] = {}
  <2> SUFFICES ASSUME NEW i \in 1 .. dp, NEW j \in 1 .. dp, i # j, NEW x, x \in T[i], x \in T[j]
               PROVE  FALSE
    OBVIOUS
  <2>1. PICK g \in Elements(P[i]) : x \in RowsOf(uids, g)
    BY Zenon
  <2>2. PICK h \in Elements(P[j]) : x \in RowsOf(uids, h)
    BY Zenon
  <2>3. g = h
    BY <2>1, <2>2 DEF RowsOf
  <2> QED
    BY <1>7, <2>3
<1>10. UNION {T[i] : i \in 1 .. dp} = 1 .. rows
  <2>0. \A i \in 1 .. dp : T[i] = UNION {RowsOf(uids, g) : g \in Elements(P[i])}
    BY Zenon
  <2>1. DOMAIN uids = 1 .. rows /\ \A x \in 1 .. rows : uids[x] \in 1 .. prompts
    BY <1>a
  <2>2. ASSUME NEW x \in 1 .. rows  PROVE \E i \in 1 .. dp : x \in T[i]
    <3>1. PICK i \in 1 .. dp : uids[x] \in Elements(P[i])
      BY <1>7, <2>1
    <3>2. x \in RowsOf(uids, uids[x])
      BY <2>1 DEF RowsOf
    <3> QED
      BY <2>0, <3>1, <3>2
  <2>3. ASSUME NEW i \in 1 .. dp, NEW x \in T[i]  PROVE x \in 1 .. rows
    <3>1. PICK g \in Elements(P[i]) : x \in RowsOf(uids, g)
      BY <2>0, Zenon
    <3> QED
      BY <2>1, <3>1 DEF RowsOf
  <2> HIDE DEF T
  <2> QED
    BY <2>2, <2>3
<1>11. DOMAIN f = 1 .. dp /\ f = [i \in 1 .. dp |-> f[i]]
  OBVIOUS
<1> HIDE DEF f, T
<1>12. Lists(FlattenSeq(f), 1 .. rows)
  BY <1>8, <1>9, <1>10, <1>11, FlattenLists
<1> QED
  BY <1>6, <1>12, Zenon DEF GroupedOrder, f

--------------------------------------------------------------------------------
(* Sums over parts and images of a set, and of multiples *)

\* A sum over two sets apart is the sum of their sums.
LEMMA SumOfUnion ==
  ASSUME NEW D, IsFiniteSet(D), NEW f \in [D -> Int],
         NEW A \in SUBSET D, NEW B \in SUBSET D, A \cap B = {}
  PROVE  Adding(f, D)[A \cup B] = Adding(f, D)[A] + Adding(f, D)[B]
<1> DEFINE F == Adding(f, D)
           U == {s \in SUBSET B : F[A \cup s] = F[A] + F[s]}
<1>1. F \in [SUBSET D -> Int] /\ IsSum(F, f, SUBSET D)
  BY SumType
<1>2. \A s \in SUBSET D : \A x \in s : F[s] = f[x] + F[s \ {x}]
  BY SumTakesAny
<1>3. IsFiniteSet(B)
  BY FS_Subset
<1> HIDE DEF F
<1>4. {} \in U
  <2>1. F[{}] = 0 /\ A \cup {} = A /\ F[A] \in Int
    BY <1>1 DEF IsSum
  <2> QED
    BY <2>1
<1>5. ASSUME NEW s \in SUBSET B, s # {}, Rest(s) \in U  PROVE s \in U
  <2>1. Pick(s) \in s /\ Rest(s) \in SUBSET B /\ Rest(s) = s \ {Pick(s)}
    BY <1>3, <1>5, RestIsSmaller DEF Rest
  <2>2. PICK x : x = Pick(s)
    OBVIOUS
  <2>3. /\ x \in s /\ x \in A \cup s /\ A \cup s \in SUBSET D /\ s \in SUBSET D
        /\ (A \cup s) \ {x} = A \cup Rest(s)
    BY <2>1, <2>2
  <2>4. F[s] = f[x] + F[Rest(s)] /\ F[A \cup s] = f[x] + F[A \cup Rest(s)]
    BY <1>2, <2>1, <2>2, <2>3
  <2>5. PICK a \in Int : a = F[A]
    BY <1>1
  <2>6. PICK b \in Int : b = F[Rest(s)]
    BY <1>1, <2>1
  <2>7. PICK c \in Int : c = f[x]
    BY <2>3
  <2>8. F[A \cup Rest(s)] = a + b
    BY <1>5, <2>5, <2>6
  <2>9. F[A \cup s] = a + (c + b) /\ F[s] = c + b
    BY <2>4, <2>6, <2>7, <2>8
  <2> QED
    BY <2>5, <2>9
<1>6. B \in U
  <2> HIDE DEF U
  <2>1. \A s \in SUBSET B : s \in U
    BY <1>3, <1>4, <1>5, SubsetInduction
  <2> QED
    BY <2>1
<1> QED
  BY <1>6 DEF F

\* What the groups of some data add up to.
GroupSums(t, f, D, place, k) ==
  \A p \in 1 .. k : t[p] = Adding(f, D)[{x \in D : place[x] = p}]

\* A sum is the sum of the sums of groups.
LEMMA SumOfGroups ==
  ASSUME NEW D, IsFiniteSet(D), NEW f \in [D -> Int], NEW k \in Nat, NEW place \in [D -> 1 .. k],
         NEW t \in [1 .. k -> Int], GroupSums(t, f, D, place, k)
  PROVE  SumFunction(f) = SumFunction(t)
<1> DEFINE F == Adding(f, D)
           First(j) == {x \in D : place[x] <= j}
           Sums(j) == [p \in 1 .. j |-> t[p]]
           Right(j) == F[First(j)] = SumFunction(Sums(j))
           P == {j \in Nat : j <= k => Right(j)}
<1>1. F \in [SUBSET D -> Int] /\ IsSum(F, f, SUBSET D) /\ SumFunction(f) = F[D]
  BY SumType
<1>2. \A A, B \in SUBSET D : A \cap B = {} => F[A \cup B] = F[A] + F[B]
  BY SumOfUnion
<1> HIDE DEF F
<1>3. 0 \in P
  <2>1. First(0) = {}
    OBVIOUS
  <2>2. F[{}] = 0
    BY <1>1 DEF IsSum
  <2>3. DOMAIN Sums(0) = {}
    OBVIOUS
  <2>4. SumFunction(Sums(0)) = 0
    <3> HIDE DEF Sums
    <3> QED
      BY <2>3, SumOfNothing
  <2> HIDE DEF First, Sums
  <2> QED
    BY <2>1, <2>2, <2>4
<1>4. ASSUME NEW j \in P  PROVE j + 1 \in P
  <2> HIDE DEF Right
  <2> SUFFICES ASSUME j + 1 <= k  PROVE Right(j + 1)
    BY <1>4
  <2>1. j \in Nat /\ Right(j)
    BY <1>4
  <2> DEFINE G == {x \in D : place[x] = j + 1}
  <2>2. /\ First(j) \in SUBSET D /\ G \in SUBSET D /\ First(j) \cap G = {}
        /\ First(j + 1) = First(j) \cup G
    BY <2>1
  <2>3. t[j + 1] = F[G]
    <3>1. j + 1 \in 1 .. k
      BY <2>1
    <3> QED
      BY <3>1, Zenon DEF F, GroupSums
  <2>4. /\ Sums(j + 1) \in [1 .. j + 1 -> Int] /\ Sums(j) \in [1 .. j -> Int]
        /\ \A x \in 1 .. j : Sums(j)[x] = Sums(j + 1)[x]
        /\ Sums(j + 1)[j + 1] = t[j + 1]
    BY <2>1
  <2> HIDE DEF First, Sums, G
  <2>5. F[First(j + 1)] = F[First(j)] + F[G]
    BY <1>2, <2>2
  <2>6. SumFunction(Sums(j + 1)) = SumFunction(Sums(j)) + Sums(j + 1)[j + 1]
    BY <2>1, <2>4, SumAppends
  <2> QED
    BY <2>1, <2>3, <2>4, <2>5, <2>6 DEF Right
<1>5. P = Nat
  <2>1. P \in SUBSET Nat
    OBVIOUS
  <2> HIDE DEF P
  <2> QED
    BY <1>3, <1>4, <2>1, LeastOutside
<1>6. F[First(k)] = SumFunction(Sums(k))
  <2> HIDE DEF Right
  <2>1. k \in P
    BY <1>5
  <2>2. Right(k)
    BY <2>1
  <2> QED
    BY <2>2 DEF Right
<1>7. First(k) = D /\ Sums(k) = t
  OBVIOUS
<1> HIDE DEF First, Sums
<1> QED
  BY <1>1, <1>6, <1>7

\* To each element of D belongs one of E.
Matches(b, E, D) ==
  /\ b \in [E -> D]
  /\ \A x, y \in E : b[x] = b[y] => x = y
  /\ \A z \in D : \E x \in E : z = b[x]

\* What f has for x's image, g has for x.
SameAtImage(g, f, b, E) == \A x \in E : g[x] = f[b[x]]

\* A sum over the images of a set, which are different ones.
LEMMA SumOfImage ==
  ASSUME NEW D, IsFiniteSet(D), NEW f \in [D -> Int], NEW E, IsFiniteSet(E), NEW b, Matches(b, E, D),
         NEW g \in [E -> Int], SameAtImage(g, f, b, E)
  PROVE  SumFunction(g) = SumFunction(f)
<1> DEFINE F == Adding(f, D)
           G == Adding(g, E)
           Image(s) == {b[x] : x \in s}
           U == {s \in SUBSET E : G[s] = F[Image(s)]}
<1>1. /\ F \in [SUBSET D -> Int] /\ IsSum(F, f, SUBSET D) /\ SumFunction(f) = F[D]
      /\ G \in [SUBSET E -> Int] /\ IsSum(G, g, SUBSET E) /\ SumFunction(g) = G[E]
  BY SumType
<1>2. \A s \in SUBSET D : \A x \in s : F[s] = f[x] + F[s \ {x}]
  BY SumTakesAny
<1> HIDE DEF F, G
<1>3. {} \in U
  <2>1. Image({}) = {} /\ F[{}] = 0 /\ G[{}] = 0
    BY <1>1 DEF IsSum
  <2> HIDE DEF Image
  <2> QED
    BY <2>1
<1>4. ASSUME NEW s \in SUBSET E, s # {}, Rest(s) \in U  PROVE s \in U
  <2>1. Pick(s) \in s /\ Rest(s) \in SUBSET E /\ Rest(s) = s \ {Pick(s)}
    BY <1>4, RestIsSmaller DEF Rest
  <2>2. PICK x : x = Pick(s)
    OBVIOUS
  <2>3. /\ Image(s) \in SUBSET D /\ b[x] \in Image(s) /\ Image(s) \ {b[x]} = Image(Rest(s))
    BY <2>1, <2>2 DEF Matches
  <2>4. G[s] = g[x] + G[Rest(s)]
    BY <1>1, <1>4, <2>2 DEF IsSum
  <2>5. F[Image(s)] = f[b[x]] + F[Image(Rest(s))]
    <3> HIDE DEF Image
    <3>1. PICK I \in SUBSET D : I = Image(s)
      BY <2>3
    <3>2. PICK z : z = b[x]
      OBVIOUS
    <3>3. F[I] = f[z] + F[I \ {z}]
      BY <1>2, <2>3, <3>1, <3>2
    <3> QED
      BY <2>3, <3>1, <3>2, <3>3
  <2>6. g[x] = f[b[x]] /\ G[Rest(s)] = F[Image(Rest(s))]
    BY <1>4, <2>1, <2>2 DEF SameAtImage
  <2> HIDE DEF Image
  <2> QED
    BY <2>4, <2>5, <2>6
<1>5. E \in U
  <2> HIDE DEF U
  <2>1. \A s \in SUBSET E : s \in U
    BY <1>3, <1>4, SubsetInduction
  <2> QED
    BY <2>1
<1>6. Image(E) = D
  BY DEF Matches
<1> HIDE DEF Image
<1> QED
  BY <1>1, <1>5, <1>6

\* c of f is d of e, everywhere in D.
InRatio(f, e, c, d, D) == \A x \in D : c * f[x] = d * e[x]

\* A common factor comes out of a sum.
LEMMA SumScaled ==
  ASSUME NEW D, IsFiniteSet(D), NEW f \in [D -> Int], NEW e \in [D -> Int],
         NEW c \in Int, NEW d \in Int, InRatio(f, e, c, d, D)
  PROVE  c * SumFunction(f) = d * SumFunction(e)
<1> DEFINE F == Adding(f, D)
           E == Adding(e, D)
           U == {s \in SUBSET D : c * F[s] = d * E[s]}
<1>1. /\ F \in [SUBSET D -> Int] /\ IsSum(F, f, SUBSET D) /\ SumFunction(f) = F[D]
      /\ E \in [SUBSET D -> Int] /\ IsSum(E, e, SUBSET D) /\ SumFunction(e) = E[D]
  BY SumType
<1> HIDE DEF F, E
<1>2. {} \in U
  <2>1. F[{}] = 0 /\ E[{}] = 0
    BY <1>1 DEF IsSum
  <2>2. c * 0 = d * 0
    OBVIOUS
  <2> QED
    BY <2>1, <2>2
<1>3. ASSUME NEW s \in SUBSET D, s # {}, Rest(s) \in U  PROVE s \in U
  <2>1. Pick(s) \in D /\ Rest(s) \in SUBSET D
    BY <1>3, RestIsSmaller
  <2>2. F[s] = f[Pick(s)] + F[Rest(s)] /\ E[s] = e[Pick(s)] + E[Rest(s)]
    BY <1>1, <1>3 DEF IsSum
  <2>3. PICK x1 \in Int : x1 = f[Pick(s)]
    BY <2>1
  <2>4. PICK x2 \in Int : x2 = e[Pick(s)]
    BY <2>1
  <2>5. PICK y1 \in Int : y1 = F[Rest(s)]
    BY <1>1, <2>1
  <2>6. PICK y2 \in Int : y2 = E[Rest(s)]
    BY <1>1, <2>1
  <2>7. c * x1 = d * x2 /\ c * y1 = d * y2
    <3>1. c * f[Pick(s)] = d * e[Pick(s)]
      BY <2>1, Zenon DEF InRatio
    <3>2. c * F[Rest(s)] = d * E[Rest(s)]
      BY <1>3
    <3> QED
      BY <2>3, <2>4, <2>5, <2>6, <3>1, <3>2, Zenon
  <2>8. c * (x1 + y1) = c * x1 + c * y1 /\ d * (x2 + y2) = d * x2 + d * y2
    OBVIOUS
  <2>9. c * (x1 + y1) = d * (x2 + y2)
    BY <2>7, <2>8
  <2> QED
    BY <2>2, <2>3, <2>4, <2>5, <2>6, <2>9
<1>4. D \in U
  <2> HIDE DEF U
  <2>1. \A s \in SUBSET D : s \in U
    BY <1>2, <1>3, SubsetInduction
  <2> QED
    BY <2>1
<1> QED
  BY <1>1, <1>4

\* Ones add up to their number.
LEMMA SumOfOnes ==
  ASSUME NEW D, IsFiniteSet(D), NEW f \in [D -> Int], \A x \in D : f[x] = 1
  PROVE  SumFunction(f) = Cardinality(D)
<1> DEFINE F == Adding(f, D)
           U == {s \in SUBSET D : F[s] = Cardinality(s)}
<1>1. F \in [SUBSET D -> Int] /\ IsSum(F, f, SUBSET D) /\ SumFunction(f) = F[D]
  BY SumType
<1> HIDE DEF F
<1>2. {} \in U
  BY <1>1, FS_EmptySet DEF IsSum
<1>3. ASSUME NEW s \in SUBSET D, s # {}, Rest(s) \in U  PROVE s \in U
  <2>1. /\ Pick(s) \in s /\ Rest(s) \in SUBSET D /\ Cardinality(s) \in Nat
        /\ Cardinality(Rest(s)) \in Nat /\ Cardinality(Rest(s)) = Cardinality(s) - 1
    BY <1>3, RestIsSmaller
  <2>2. F[s] = f[Pick(s)] + F[Rest(s)]
    BY <1>1, <1>3 DEF IsSum
  <2>3. f[Pick(s)] = 1 /\ F[Rest(s)] = Cardinality(Rest(s))
    BY <1>3, <2>1
  <2> QED
    BY <2>1, <2>2, <2>3
<1>4. D \in U
  <2> HIDE DEF U
  <2>1. \A s \in SUBSET D : s \in U
    BY <1>2, <1>3, SubsetInduction
  <2> QED
    BY <2>1
<1> QED
  BY <1>1, <1>4

\* A sum over part of the data, of nothing larger, is not larger.
LEMMA SumNotLarger ==
  ASSUME NEW D, IsFiniteSet(D), NEW f \in [D -> Nat], NEW E \in SUBSET D, NEW g \in [E -> Nat],
         \A x \in E : g[x] <= f[x]
  PROVE  SumFunction(g) <= SumFunction(f)
<1> DEFINE F == Adding(f, D)
           G == Adding(g, E)
           U == {s \in SUBSET E : G[s] <= F[s]}
<1>0. IsFiniteSet(E)
  BY FS_Subset
<1>1. /\ F \in [SUBSET D -> Int] /\ IsSum(F, f, SUBSET D) /\ SumFunction(f) = F[D]
  <2>1. f \in [D -> Int]
    OBVIOUS
  <2> QED
    BY <2>1, SumType
<1>2. /\ G \in [SUBSET E -> Int] /\ IsSum(G, g, SUBSET E) /\ SumFunction(g) = G[E]
  <2>1. g \in [E -> Int]
    OBVIOUS
  <2> QED
    BY <1>0, <2>1, SumType
<1>3. F[D] = F[E] + F[D \ E]
  <2>1. f \in [D -> Int] /\ E \cap (D \ E) = {} /\ E \cup (D \ E) = D
    OBVIOUS
  <2> QED
    BY <2>1, SumOfUnion
<1>4. F[D \ E] >= 0
  <2> DEFINE h == [x \in D \ E |-> f[x]]
  <2>1. h \in [D \ E -> Nat] /\ h \in [D \ E -> Int] /\ f \in [D -> Int] /\ \A x \in D \ E : h[x] = f[x]
    OBVIOUS
  <2>2. IsFiniteSet(D \ E)
    BY FS_Subset
  <2> HIDE DEF h
  <2>3. SumFunction(h) = F[D \ E]
    BY <2>1, SumOfPart
  <2>4. SumFunction(h) \in Nat
    BY <2>1, <2>2, SumNatural
  <2> QED
    BY <2>3, <2>4
<1> HIDE DEF F, G
<1>5. {} \in U
  BY <1>1, <1>2 DEF IsSum
<1>6. ASSUME NEW s \in SUBSET E, s # {}, Rest(s) \in U  PROVE s \in U
  <2>1. Pick(s) \in E /\ Rest(s) \in SUBSET E
    BY <1>0, <1>6, RestIsSmaller
  <2>2. F[s] = f[Pick(s)] + F[Rest(s)] /\ G[s] = g[Pick(s)] + G[Rest(s)]
    BY <1>1, <1>2, <1>6 DEF IsSum
  <2>3. /\ f[Pick(s)] \in Int /\ g[Pick(s)] \in Int /\ F[Rest(s)] \in Int /\ G[Rest(s)] \in Int
        /\ g[Pick(s)] <= f[Pick(s)] /\ G[Rest(s)] <= F[Rest(s)]
    BY <1>1, <1>2, <1>6, <2>1
  <2> QED
    BY <2>2, <2>3
<1>7. E \in U
  <2> HIDE DEF U
  <2>1. \A s \in SUBSET E : s \in U
    BY <1>0, <1>5, <1>6, SubsetInduction
  <2> QED
    BY <2>1
<1>8. G[E] <= F[E] /\ G[E] \in Int /\ F[E] \in Int /\ F[D \ E] \in Int
  BY <1>1, <1>2, <1>7
<1> QED
  BY <1>1, <1>2, <1>3, <1>4, <1>8

--------------------------------------------------------------------------------
(* Lists handed out in parts, none of them empty *)

\* The elements of V, handed out in k parts: none is empty, and each element is
\* in one of them, once.
IsCut(parts, V, k) ==
  /\ parts \in [1 .. k -> Seq(V)]
  /\ \A i \in 1 .. k : Lists(parts[i], Elements(parts[i])) /\ parts[i] # <<>>
  /\ \A i, j \in 1 .. k : i # j => Elements(parts[i]) \cap Elements(parts[j]) = {}
  /\ UNION {Elements(parts[i]) : i \in 1 .. k} = V

\* Cuts that leave no piece empty.
Climbs(at, N) == \A i \in 1 .. N : at[i - 1] < at[i]

\* The pieces of a list have each of its elements once.
LEMMA CutsApart ==
  ASSUME NEW V, NEW rows, Lists(rows, V), NEW N \in Nat, NEW at, Cuts(at, N, Len(rows)),
         Climbs(at, N), NEW f, CutAt(f, rows, at, N)
  PROVE  IsCut(f, V, N) /\ \A i \in 1 .. N : Len(f[i]) = at[i] - at[i - 1]
<1>1. PICK n \in Nat : n = Len(rows) /\ rows \in Seq(V)
  BY DEF Lists
<1>0. at \in [0 .. N -> 0 .. n] /\ at[0] = 0 /\ at[N] = n
  BY <1>1 DEF Cuts
<1> DEFINE Piece(i) == at[i - 1] + 1 .. at[i]
<1>2. ASSUME NEW i \in 1 .. N
      PROVE  /\ at[i - 1] \in 0 .. n /\ at[i] \in 0 .. n /\ at[i - 1] < at[i]
             /\ f[i] \in Seq(V) /\ Len(f[i]) = at[i] - at[i - 1]
             /\ \A q \in 1 .. Len(f[i]) : f[i][q] = rows[at[i - 1] + q]
  <2> HIDE DEF Piece
  <2>1. i - 1 \in 0 .. N /\ i \in 0 .. N
    OBVIOUS
  <2>2. at[i - 1] \in 0 .. n /\ at[i] \in 0 .. n /\ at[i - 1] < at[i]
    BY <1>0, <2>1 DEF Climbs
  <2>3. PICK a \in Nat : a = at[i - 1] /\ a <= n
    BY <2>2
  <2>4. PICK b \in Nat : at[i] = a + b /\ a + b <= n
    <3>1. at[i] - a \in Nat /\ at[i] = a + (at[i] - a) /\ a + (at[i] - a) <= n
      BY <2>2, <2>3
    <3> QED
      BY <3>1
  <2>5. f[i] = SubSeq(rows, a + 1, a + b)
    BY <2>3, <2>4 DEF CutAt
  <2>6. /\ SubSeq(rows, a + 1, a + b) \in Seq(V) /\ Len(SubSeq(rows, a + 1, a + b)) = b
        /\ \A q \in 1 .. b : SubSeq(rows, a + 1, a + b)[q] = rows[a + q]
    BY <1>1, <2>4, SliceIs
  <2>7. b = at[i] - at[i - 1]
    BY <2>3, <2>4
  <2> QED
    BY <2>2, <2>3, <2>5, <2>6, <2>7
<1>a. ASSUME NEW i \in 1 .. N
      PROVE  \E a \in Nat : \E b \in Nat : a = at[i - 1] /\ b = at[i] /\ a < b /\ b <= n
  <2> HIDE DEF Piece
  <2>1. at[i - 1] \in 0 .. n /\ at[i] \in 0 .. n /\ at[i - 1] < at[i]
    BY <1>2
  <2>2. PICK a \in Nat : a = at[i - 1]
    BY <2>1
  <2>3. PICK b \in Nat : b = at[i]
    BY <2>1
  <2>4. a < b /\ b <= n
    BY <2>1, <2>2, <2>3
  <2> QED
    BY <2>2, <2>3, <2>4, Zenon
<1>3. ASSUME NEW i \in 1 .. N
      PROVE  Elements(f[i]) = {rows[p] : p \in Piece(i)} /\ Piece(i) \subseteq 1 .. n
  <2>1. PICK a \in Nat : a = at[i - 1]
    BY <1>2
  <2>2. PICK b \in Nat : b = at[i] /\ a < b /\ b <= n
    BY <1>2, <2>1
  <2>3. PICK s : s = f[i]
    OBVIOUS
  <2>4. Len(s) = b - a /\ \A q \in 1 .. b - a : s[q] = rows[a + q]
    BY <1>2, <2>1, <2>2, <2>3
  <2>5. ASSUME NEW x, x \in Elements(s)  PROVE \E p \in a + 1 .. b : x = rows[p]
    <3>1. PICK q \in 1 .. b - a : x = s[q]
      BY <2>4, <2>5 DEF Elements
    <3>2. a + q \in a + 1 .. b /\ x = rows[a + q]
      BY <2>4, <3>1
    <3> QED
      BY <3>2
  <2>6. ASSUME NEW p \in a + 1 .. b  PROVE rows[p] \in Elements(s)
    <3>1. p - a \in 1 .. b - a /\ a + (p - a) = p
      OBVIOUS
    <3>2. s[p - a] = rows[p]
      BY <2>4, <3>1
    <3> QED
      BY <2>4, <3>1, <3>2 DEF Elements
  <2>7. Piece(i) = a + 1 .. b
    BY <2>1, <2>2
  <2> HIDE DEF Piece
  <2>8. Elements(s) = {rows[p] : p \in a + 1 .. b}
    BY <2>5, <2>6
  <2>9. a + 1 .. b \subseteq 1 .. n
    BY <2>2
  <2> QED
    BY <2>3, <2>7, <2>8, <2>9
<1> HIDE DEF Piece
<1>4. \A i, j \in 0 .. N : i <= j => at[i] <= at[j]
  <2> DEFINE P == {j \in Nat : \A i \in 0 .. j : j <= N => at[i] <= at[j]}
  <2>1. 0 \in P
    BY <1>0
  <2>2. ASSUME NEW j \in P  PROVE j + 1 \in P
    <3> SUFFICES ASSUME NEW i \in 0 .. j + 1, j + 1 <= N  PROVE at[i] <= at[j + 1]
      OBVIOUS
    <3>1. j \in Nat /\ \A h \in 0 .. j : j <= N => at[h] <= at[j]
      OBVIOUS
    <3> HIDE DEF P
    <3>2. j + 1 \in 1 .. N /\ (j + 1) - 1 = j /\ j \in 0 .. N /\ j + 1 \in 0 .. N /\ i \in 0 .. N
      BY <3>1
    <3>3. at[j] < at[j + 1] /\ at[j] \in Nat /\ at[j + 1] \in Nat /\ at[i] \in Nat
      BY <1>0, <1>2, <3>2
    <3>4. CASE i = j + 1
      BY <3>3, <3>4
    <3>5. CASE i # j + 1
      <4>1. i \in 0 .. j /\ j <= N
        BY <3>1, <3>2, <3>5
      <4>2. at[i] <= at[j]
        BY <3>1, <4>1
      <4> QED
        BY <3>3, <4>2
    <3> QED
      BY <3>4, <3>5
  <2>3. P = Nat
    <3>1. P \in SUBSET Nat
      OBVIOUS
    <3> HIDE DEF P
    <3> QED
      BY <2>1, <2>2, <3>1, LeastOutside
  <2> QED
    BY <2>3
<1>5. \A p \in 1 .. n : \E i \in 1 .. N : p \in Piece(i)
  <2> DEFINE Found(p, j) == \E i \in 1 .. j : p \in Piece(i)
             P == {j \in Nat : j <= N => \A p \in 1 .. at[j] : Found(p, j)}
  <2> HIDE DEF Found
  <2>1. 0 \in P
    BY <1>0
  <2>2. ASSUME NEW j \in P  PROVE j + 1 \in P
    <3> SUFFICES ASSUME j + 1 <= N, NEW p \in 1 .. at[j + 1]  PROVE Found(p, j + 1)
      OBVIOUS
    <3>1. j \in Nat /\ (j <= N => \A q \in 1 .. at[j] : Found(q, j))
      OBVIOUS
    <3> HIDE DEF P
    <3>2. j + 1 \in 1 .. N /\ (j + 1) - 1 = j /\ j <= N
      BY <3>1
    <3>3. at[j] < at[j + 1] /\ at[j] \in Nat /\ at[j + 1] \in Nat
      BY <1>2, <3>2
    <3>4. CASE p \in 1 .. at[j]
      <4>1. PICK i \in 1 .. j : p \in Piece(i)
        BY <3>1, <3>2, <3>4 DEF Found
      <4>2. i \in 1 .. j + 1
        BY <3>1
      <4> QED
        BY <4>1, <4>2, Zenon DEF Found
    <3>5. CASE p \notin 1 .. at[j]
      <4>1. p \in at[j] + 1 .. at[j + 1]
        BY <3>3, <3>5
      <4>2. p \in Piece(j + 1) /\ j + 1 \in 1 .. j + 1
        BY <3>1, <3>2, <4>1 DEF Piece
      <4> QED
        BY <4>2, Zenon DEF Found
    <3> QED
      BY <3>4, <3>5
  <2>3. P = Nat
    <3>1. P \in SUBSET Nat
      OBVIOUS
    <3> HIDE DEF P
    <3> QED
      BY <2>1, <2>2, <3>1, LeastOutside
  <2>4. N \in P
    BY <2>3
  <2>5. N <= N => \A p \in 1 .. at[N] : Found(p, N)
    BY <2>4, Zenon
  <2> HIDE DEF P
  <2> QED
    BY <1>0, <2>5 DEF Found
<1>6. f \in [1 .. N -> Seq(V)] /\ \A i \in 1 .. N : f[i] # <<>>
  <2>1. ASSUME NEW i \in 1 .. N  PROVE f[i] \in Seq(V) /\ f[i] # <<>>
    <3>1. PICK a \in Nat : \E b \in Nat : a = at[i - 1] /\ b = at[i] /\ a < b /\ b <= n
      BY <1>a, Zenon
    <3>2. PICK b \in Nat : a = at[i - 1] /\ b = at[i] /\ a < b /\ b <= n
      BY <3>1, Zenon
    <3>3. PICK s \in Seq(V) : s = f[i]
      BY <1>2
    <3>4. Len(s) = b - a
      BY <1>2, <3>2, <3>3
    <3>5. s # <<>>
      BY <3>2, <3>4
    <3> QED
      BY <3>3, <3>5
  <2> DEFINE piece(i) == SubSeq(rows, at[i - 1] + 1, at[i])
  <2>2. f = [i \in 1 .. N |-> piece(i)]
    BY DEF CutAt
  <2> HIDE DEF piece
  <2> QED
    BY <2>1, <2>2
<1>7. ASSUME NEW p \in 1 .. n, NEW q \in 1 .. n, rows[p] = rows[q]  PROVE p = q
  BY <1>1, <1>7 DEF Lists
<1>8. ASSUME NEW i \in 1 .. N  PROVE Lists(f[i], Elements(f[i]))
  <2>1. PICK a \in Nat : a = at[i - 1]
    BY <1>2
  <2>2. PICK c \in Nat : c = at[i] /\ a < c /\ c <= n
    BY <1>2, <2>1
  <2>3. PICK b \in Nat : b = c - a /\ a + b <= n
    <3>1. c - a \in Nat /\ a + (c - a) <= n
      BY <2>2
    <3> QED
      BY <3>1
  <2>4. PICK s \in Seq(V) : s = f[i]
    BY <1>2
  <2>5. Len(s) = b /\ \A q \in 1 .. b : s[q] = rows[a + q]
    BY <1>2, <2>1, <2>2, <2>3, <2>4
  <2>6. ASSUME NEW p \in 1 .. b, NEW q \in 1 .. b, s[p] = s[q]  PROVE p = q
    <3>1. a + p \in 1 .. n /\ a + q \in 1 .. n
      BY <2>3
    <3>2. rows[a + p] = rows[a + q]
      BY <2>5, <2>6
    <3>3. a + p = a + q
      BY <1>7, <3>1, <3>2
    <3> QED
      BY <3>3
  <2>7. Lists(s, Elements(s))
    <3>1. PICK E : E = Elements(s)
      OBVIOUS
    <3>2. \A q \in 1 .. b : s[q] \in E
      BY <2>5, <3>1 DEF Elements
    <3>3. \A x \in E : \E q \in 1 .. b : s[q] = x
      BY <2>5, <3>1 DEF Elements
    <3>4. s \in Seq(E)
      BY <2>4, <2>5, <3>2
    <3>5. Lists(s, E)
      BY <2>5, <2>6, <3>3, <3>4 DEF Lists
    <3> QED
      BY <3>1, <3>5
  <2> QED
    BY <2>4, <2>7
<1>9. ASSUME NEW i \in 1 .. N, NEW j \in 1 .. N, i # j, NEW x, x \in Elements(f[i]), x \in Elements(f[j])
      PROVE  FALSE
  <2>1. PICK p \in Piece(i) : x = rows[p]
    BY <1>3, <1>9
  <2>2. PICK q \in Piece(j) : x = rows[q]
    BY <1>3, <1>9
  <2>3. p \in 1 .. n /\ q \in 1 .. n
    BY <1>3, <2>1, <2>2
  <2>4. p = q
    BY <1>7, <2>1, <2>2, <2>3
  <2>5. /\ i - 1 \in 0 .. N /\ i \in 0 .. N /\ j - 1 \in 0 .. N /\ j \in 0 .. N
        /\ (i <= j - 1 \/ j <= i - 1)
    BY <1>9
  <2>6. at[i] <= at[j - 1] \/ at[j] <= at[i - 1]
    BY <1>4, <2>5
  <2>7. PICK a \in Nat : \E b \in Nat : a = at[i - 1] /\ b = at[i] /\ a < b /\ b <= n
    BY <1>a, Zenon
  <2>8. PICK b \in Nat : a = at[i - 1] /\ b = at[i] /\ a < b /\ b <= n
    BY <2>7, Zenon
  <2>9. PICK c \in Nat : \E d \in Nat : c = at[j - 1] /\ d = at[j] /\ c < d /\ d <= n
    BY <1>a, Zenon
  <2>10. PICK d \in Nat : c = at[j - 1] /\ d = at[j] /\ c < d /\ d <= n
    BY <2>9, Zenon
  <2>11. p \in a + 1 .. b /\ p \in c + 1 .. d
    BY <2>1, <2>2, <2>4, <2>8, <2>10 DEF Piece
  <2>12. b <= c \/ d <= a
    BY <2>6, <2>8, <2>10
  <2> QED
    BY <2>11, <2>12
<1>10. UNION {Elements(f[i]) : i \in 1 .. N} = V
  <2>1. ASSUME NEW x \in V  PROVE \E i \in 1 .. N : x \in Elements(f[i])
    <3>1. PICK p \in 1 .. n : rows[p] = x
      BY <1>1 DEF Lists
    <3>2. PICK i \in 1 .. N : p \in Piece(i)
      BY <1>5
    <3> QED
      BY <1>3, <3>1, <3>2
  <2>2. ASSUME NEW i \in 1 .. N, NEW x \in Elements(f[i])  PROVE x \in V
    <3>1. PICK p \in Piece(i) : x = rows[p]
      BY <1>3
    <3>2. p \in 1 .. n
      BY <1>3
    <3> QED
      BY <1>1, <3>1, <3>2
  <2> QED
    BY <2>1, <2>2
<1>11. \A i, j \in 1 .. N : i # j => Elements(f[i]) \cap Elements(f[j]) = {}
  BY <1>9
<1>12. \A i \in 1 .. N : Lists(f[i], Elements(f[i])) /\ f[i] # <<>>
  BY <1>6, <1>8
<1>13. \A i \in 1 .. N : Len(f[i]) = at[i] - at[i - 1]
  BY <1>2
<1> QED
  BY <1>6, <1>10, <1>11, <1>12, <1>13 DEF IsCut

\* Where the pieces of size rows end, and how long they are.
PieceEnd(n, size, p) == IF p * size < n THEN p * size ELSE n
PieceLength(n, size, p) == PieceEnd(n, size, p) - (p - 1) * size

\* The number of pieces, and that none is empty.
LEMMA PieceEnds ==
  ASSUME NEW n \in Nat, NEW size \in Nat \ {0}, NEW k, k = CeilDiv(n, size)
  PROVE  /\ k \in Nat /\ (n > 0 => k > 0)
         /\ \A p \in 1 .. k : (p - 1) * size \in 0 .. n /\ (p - 1) * size < n
         /\ \A p \in 0 .. k : PieceEnd(n, size, p) \in 0 .. n
         /\ PieceEnd(n, size, 0) = 0 /\ PieceEnd(n, size, k) = n
         /\ \A p \in 1 .. k : PieceLength(n, size, p) \in 1 .. size
<1>1. PICK x \in Nat : x = n + size - 1
  OBVIOUS
<1>2. PICK q \in Nat : \E r \in 0 .. size - 1 : x = size * q + r
  BY Quotient
<1>3. PICK r \in 0 .. size - 1 : x = size * q + r
  BY <1>2
<1>4. \A a, b \in Int : a * b = b * a
  OBVIOUS
<1>5. k = q
  <2>1. (q * size + r) \div size = q
    BY <1>3, DivMod
  <2>2. size * q = q * size
    BY <1>4
  <2> QED
    BY <1>1, <1>3, <2>1, <2>2 DEF CeilDiv
<1>6. PICK w \in Nat : w = q * size /\ w >= n /\ w < n + size
  <2>1. size * q = q * size /\ q * size \in Nat
    BY <1>4
  <2> QED
    BY <1>1, <1>3, <2>1
<1>7. ASSUME NEW p \in 0 .. q
      PROVE  \E e \in Nat : \E y \in Nat : \E z \in Nat :
               p + e = q /\ y = p * size /\ z = e * size /\ w = y + z /\ (e > 0 => z >= size)
  <2>1. PICK e \in Nat : p + e = q
    <3>1. q - p \in Nat /\ p + (q - p) = q
      OBVIOUS
    <3> QED
      BY <3>1
  <2>2. PICK y \in Nat : y = p * size
    <3>1. \A a, b \in Nat : a * b \in Nat
      OBVIOUS
    <3> QED
      BY <3>1
  <2>3. PICK z \in Nat : z = e * size
    <3>1. \A a, b \in Nat : a * b \in Nat
      OBVIOUS
    <3> QED
      BY <3>1
  <2>4. w = y + z
    <3>1. \A a, b, c \in Int : (a + b) * c = a * c + b * c
      OBVIOUS
    <3>2. (p + e) * size = p * size + e * size
      BY <3>1
    <3> QED
      BY <1>6, <2>1, <2>2, <2>3, <3>2
  <2>5. e > 0 => z >= size
    <3> SUFFICES ASSUME e > 0  PROVE z >= size
      OBVIOUS
    <3>1. PICK d \in Nat : e = d + 1
      <4>1. e - 1 \in Nat /\ e = (e - 1) + 1
        OBVIOUS
      <4> QED
        BY <4>1
    <3>2. (d + 1) * size = d * size + size
      OBVIOUS
    <3>3. d * size \in Nat
      OBVIOUS
    <3> QED
      BY <2>3, <3>1, <3>2, <3>3
  <2> QED
    BY <2>1, <2>2, <2>3, <2>4, <2>5, Zenon
<1>8. ASSUME NEW p \in 1 .. q
      PROVE  \E y \in Nat : y = (p - 1) * size /\ y < n
  <2>1. p - 1 \in 0 .. q
    OBVIOUS
  <2>2. PICK o : o = p - 1
    OBVIOUS
  <2>3. o \in 0 .. q /\ o < q
    BY <2>1, <2>2
  <2>4. PICK e \in Nat : \E y \in Nat : \E z \in Nat :
               o + e = q /\ y = o * size /\ z = e * size /\ w = y + z /\ (e > 0 => z >= size)
    BY <1>7, <2>3
  <2>5. PICK y \in Nat : \E z \in Nat :
               o + e = q /\ y = o * size /\ z = e * size /\ w = y + z /\ (e > 0 => z >= size)
    BY <2>4
  <2>6. PICK z \in Nat :
               o + e = q /\ y = o * size /\ z = e * size /\ w = y + z /\ (e > 0 => z >= size)
    BY <2>5
  <2>7. z >= size
    BY <2>3, <2>6
  <2>8. y < n
    BY <1>6, <2>6, <2>7
  <2> QED
    BY <2>2, <2>6, <2>8
<1>9. \A p \in 1 .. q : (p - 1) * size \in 0 .. n /\ (p - 1) * size < n
  <2> SUFFICES ASSUME NEW p \in 1 .. q  PROVE (p - 1) * size \in 0 .. n /\ (p - 1) * size < n
    OBVIOUS
  <2>1. PICK y \in Nat : y = (p - 1) * size /\ y < n
    BY <1>8
  <2>2. y \in 0 .. n /\ y < n
    BY <2>1
  <2> QED
    BY <2>1, <2>2
<1>10. \A p \in 0 .. q : PieceEnd(n, size, p) \in 0 .. n
  <2> SUFFICES ASSUME NEW p \in 0 .. q  PROVE PieceEnd(n, size, p) \in 0 .. n
    OBVIOUS
  <2>1. PICK y \in Nat : y = p * size
    OBVIOUS
  <2> QED
    BY <2>1 DEF PieceEnd
<1>11. PieceEnd(n, size, 0) = 0
  <2>1. 0 * size = 0
    OBVIOUS
  <2> QED
    BY <2>1 DEF PieceEnd
<1>12. PieceEnd(n, size, q) = n
  BY <1>6 DEF PieceEnd
<1>13. \A p \in 1 .. q : PieceLength(n, size, p) \in 1 .. size
  <2> SUFFICES ASSUME NEW p \in 1 .. q  PROVE PieceLength(n, size, p) \in 1 .. size
    OBVIOUS
  <2>1. PICK y \in Nat : y = (p - 1) * size /\ y < n
    BY <1>8
  <2>2. PICK v \in Nat : v = p * size
    OBVIOUS
  <2>3. v = y + size
    <3>1. p * size = (p - 1) * size + size
      OBVIOUS
    <3> QED
      BY <2>1, <2>2, <3>1
  <2>4. PieceEnd(n, size, p) = IF v < n THEN v ELSE n
    BY <2>2 DEF PieceEnd
  <2>5. PieceLength(n, size, p) = (IF v < n THEN v ELSE n) - y
    BY <2>1, <2>4 DEF PieceLength
  <2> QED
    BY <2>1, <2>3, <2>5
<1>14. n > 0 => q > 0
  <2> SUFFICES ASSUME n > 0, q = 0  PROVE FALSE
    OBVIOUS
  <2>1. 0 * size = 0
    OBVIOUS
  <2> QED
    BY <1>6, <2>1
<1> QED
  BY <1>5, <1>9, <1>10, <1>11, <1>12, <1>13, <1>14

\* The pieces of size rows have each row once, and are of these lengths.
LEMMA SplitIsCut ==
  ASSUME NEW V, NEW rows, Lists(rows, V), NEW size \in Nat \ {0}, NEW n \in Nat, n = Len(rows),
         NEW k, k = CeilDiv(n, size)
  PROVE  /\ k \in Nat /\ IsCut(Split(rows, size), V, k)
         /\ \A p \in 1 .. k : Len(Split(rows, size)[p]) = PieceLength(n, size, p)
<1>1. /\ k \in Nat
      /\ \A p \in 1 .. k : (p - 1) * size \in 0 .. n /\ (p - 1) * size < n
      /\ \A p \in 0 .. k : PieceEnd(n, size, p) \in 0 .. n
      /\ PieceEnd(n, size, 0) = 0 /\ PieceEnd(n, size, k) = n
      /\ \A p \in 1 .. k : PieceLength(n, size, p) \in 1 .. size
  BY PieceEnds
<1> DEFINE at == [p \in 0 .. k |-> PieceEnd(n, size, p)]
           f == Split(rows, size)
<1>2. /\ at \in [0 .. k -> 0 .. n] /\ at[0] = 0 /\ at[k] = n
      /\ \A p \in 0 .. k : at[p] = PieceEnd(n, size, p)
  BY <1>1
<1> HIDE DEF at
<1>3. ASSUME NEW p \in 1 .. k
      PROVE  /\ at[p - 1] = (p - 1) * size /\ at[p] = PieceEnd(n, size, p)
             /\ at[p - 1] < at[p]
  <2>1. PICK o : o = p - 1 /\ o \in 0 .. k /\ p \in 0 .. k
    BY <1>1
  <2>2. PICK y \in Nat : y = o * size /\ y < n
    BY <1>1, <2>1
  <2>3. PieceEnd(n, size, o) = y
    BY <2>2 DEF PieceEnd
  <2>4. PICK v \in 0 .. n : v = PieceEnd(n, size, p)
    BY <1>1, <2>1
  <2>5. v - y \in 1 .. size
    BY <1>1, <2>1, <2>2, <2>4 DEF PieceLength
  <2>6. y < v
    BY <2>5
  <2> QED
    BY <1>2, <2>1, <2>2, <2>3, <2>4, <2>6
<1>4. Climbs(at, k)
  BY <1>3, Zenon DEF Climbs
<1>5. Cuts(at, k, Len(rows))
  <2>1. ASSUME NEW p \in 1 .. k  PROVE at[p - 1] <= at[p]
    <3>1. p - 1 \in 0 .. k /\ p \in 0 .. k
      BY <1>1
    <3>2. at[p - 1] \in Nat /\ at[p] \in Nat /\ at[p - 1] < at[p]
      BY <1>2, <1>3, <3>1
    <3> QED
      BY <3>2
  <2> QED
    BY <1>2, <2>1 DEF Cuts
<1>6. CutAt(f, rows, at, k)
  <2>1. f = [p \in 1 .. k |-> SubSeq(rows, (p - 1) * size + 1, PieceEnd(n, size, p))]
    BY Zenon DEF Split, CeilDiv, PieceEnd
  <2>2. \A p \in 1 .. k : at[p - 1] = (p - 1) * size /\ at[p] = PieceEnd(n, size, p)
    BY <1>3, Zenon
  <2> HIDE DEF f
  <2> QED
    BY <2>1, <2>2 DEF CutAt
<1> HIDE DEF f
<1>7. IsCut(f, V, k) /\ \A p \in 1 .. k : Len(f[p]) = at[p] - at[p - 1]
  BY <1>1, <1>4, <1>5, <1>6, CutsApart
<1>8. \A p \in 1 .. k : Len(f[p]) = PieceLength(n, size, p)
  <2> SUFFICES ASSUME NEW p \in 1 .. k  PROVE Len(f[p]) = PieceLength(n, size, p)
    OBVIOUS
  <2>1. Len(f[p]) = at[p] - at[p - 1]
    BY <1>7
  <2>2. at[p] = PieceEnd(n, size, p) /\ at[p - 1] = (p - 1) * size
    BY <1>3
  <2> QED
    BY <2>1, <2>2, Zenon DEF PieceLength
<1> QED
  BY <1>1, <1>7, <1>8 DEF f

\* A number of rows that divides is split into equal pieces.
LEMMA EqualPieces ==
  ASSUME NEW size \in Nat \ {0}, NEW e \in Nat, NEW n \in Nat, n = e * size
  PROVE  CeilDiv(n, size) = e /\ \A p \in 1 .. e : PieceLength(n, size, p) = size
<1>1. CeilDiv(n, size) = e
  <2>1. size - 1 \in 0 .. size - 1
    OBVIOUS
  <2>2. (e * size + (size - 1)) \div size = e
    BY <2>1, DivMod
  <2>3. n + size - 1 = e * size + (size - 1)
    OBVIOUS
  <2> QED
    BY <2>2, <2>3 DEF CeilDiv
<1>2. ASSUME NEW p \in 1 .. e  PROVE PieceLength(n, size, p) = size
  <2>1. PICK d \in Nat : p + d = e
    <3>1. e - p \in Nat /\ p + (e - p) = e
      OBVIOUS
    <3> QED
      BY <3>1
  <2>2. PICK y \in Nat : y = p * size
    OBVIOUS
  <2>3. PICK z \in Nat : z = d * size
    OBVIOUS
  <2>4. n = y + z
    <3>1. \A a, b, c \in Int : (a + b) * c = a * c + b * c
      OBVIOUS
    <3>2. (p + d) * size = p * size + d * size
      BY <3>1
    <3> QED
      BY <2>1, <2>2, <2>3, <3>2
  <2>5. PieceEnd(n, size, p) = y
    BY <2>2, <2>4 DEF PieceEnd
  <2>6. p * size = (p - 1) * size + size
    OBVIOUS
  <2>7. PICK x \in Int : x = (p - 1) * size
    OBVIOUS
  <2>8. y - x = size
    BY <2>2, <2>6, <2>7
  <2> QED
    BY <2>5, <2>7, <2>8 DEF PieceLength
<1> QED
  BY <1>1, <1>2

\* A rank's chunk of a list lists what is in it.
LEMMA ChunkLists ==
  ASSUME NEW V, NEW rows, Lists(rows, V), NEW c \in Nat \ {0}, NEW each \in Nat,
         EqualParts(Len(rows), c, each), NEW d \in 1 .. c
  PROVE  \E chunk \in Seq(V) :
            chunk = Chunk(rows, c)[d] /\ Len(chunk) = each /\ Lists(chunk, Elements(chunk))
<1>1. PICK n \in Nat : n = Len(rows) /\ rows \in Seq(V)
  BY DEF Lists
<1>2. ChunksAre(Chunk(rows, c), rows, c, each, V)
  BY <1>1, ChunksJoined
<1>3. PICK a \in Nat : a = (d - 1) * each /\ d * each = a + each /\ a + each <= n
  <2>1. PICK e \in Nat : d + e = c
    <3>1. c - d \in Nat /\ d + (c - d) = c
      OBVIOUS
    <3> QED
      BY <3>1
  <2>2. PICK a \in Nat : a = (d - 1) * each
    <3>1. \A x, y \in Nat : x * y \in Nat
      OBVIOUS
    <3>2. d - 1 \in Nat
      OBVIOUS
    <3> QED
      BY <3>1, <3>2
  <2>3. d * each = (d - 1) * each + each
    <3>1. \A x, y \in Int : x * y = (x - 1) * y + y
      OBVIOUS
    <3> QED
      BY <3>1
  <2>4. PICK z \in Nat : z = e * each
    <3>1. \A x, y \in Nat : x * y \in Nat
      OBVIOUS
    <3> QED
      BY <3>1
  <2>5. c * each = d * each + e * each
    <3>1. \A x, y, w \in Int : (x + y) * w = x * w + y * w
      OBVIOUS
    <3> QED
      BY <2>1, <3>1
  <2>6. n = c * each
    BY <1>1 DEF EqualParts
  <2> QED
    BY <2>2, <2>3, <2>4, <2>5, <2>6
<1>4. PICK chunk : chunk = Chunk(rows, c)[d]
  OBVIOUS
<1>5. chunk = SubSeq(rows, a + 1, a + each) /\ chunk \in Seq(V) /\ Len(chunk) = each
  BY <1>2, <1>3, <1>4 DEF ChunksAre
<1>6. \A q \in 1 .. each : chunk[q] = rows[a + q]
  BY <1>1, <1>3, <1>5, SliceIs
<1>7. ASSUME NEW p \in 1 .. each, NEW q \in 1 .. each, chunk[p] = chunk[q]  PROVE p = q
  <2>1. a + p \in 1 .. n /\ a + q \in 1 .. n
    BY <1>3
  <2>2. rows[a + p] = rows[a + q]
    BY <1>6, <1>7
  <2>3. a + p = a + q
    BY <1>1, <2>1, <2>2 DEF Lists
  <2> QED
    BY <2>3
<1>8. Lists(chunk, Elements(chunk))
  <2>1. PICK E : E = Elements(chunk)
    OBVIOUS
  <2>2. \A q \in 1 .. each : chunk[q] \in E
    BY <1>5, <2>1 DEF Elements
  <2>3. \A x \in E : \E q \in 1 .. each : chunk[q] = x
    BY <1>5, <2>1 DEF Elements
  <2>4. chunk \in Seq(E)
    BY <1>5, <2>2
  <2>5. Lists(chunk, E)
    BY <1>5, <1>7, <2>3, <2>4 DEF Lists
  <2> QED
    BY <2>1, <2>5
<1> QED
  BY <1>4, <1>5, <1>8

\* Parts of the places of a list are parts of what it has there.
LEMMA PartsOfPlaces ==
  ASSUME NEW V, NEW rows, Lists(rows, V), NEW n \in Nat, n = Len(rows), NEW k \in Nat,
         NEW parts, IsPartition(parts, n, k), NEW t, t = [p \in 1 .. k |-> AtIndices(rows, parts[p])]
  PROVE  IsCut(t, V, k) /\ \A p \in 1 .. k : Len(t[p]) = Len(parts[p])
<1>1. rows \in Seq(V) /\ \A q \in 1 .. n : rows[q] \in V
  BY DEF Lists
<1>2. ASSUME NEW p \in 1 .. k
      PROVE  \E s \in Seq(1 .. n) : \E m \in Nat :
                /\ s = parts[p] /\ m = Len(s) /\ m # 0 /\ Lists(s, Elements(s))
                /\ t[p] = [q \in 1 .. m |-> rows[s[q]]]
  <2>1. parts[p] \in Seq(1 .. n) /\ parts[p] # <<>> /\ Lists(parts[p], Elements(parts[p]))
    BY DEF IsPartition
  <2>2. PICK s \in Seq(1 .. n) : s = parts[p]
    BY <2>1
  <2>3. PICK m \in Nat : m = Len(s) /\ m # 0 /\ DOMAIN s = 1 .. m
    BY <2>1, <2>2
  <2>4. t[p] = AtIndices(rows, s)
    BY <2>2
  <2>5. t[p] = [q \in 1 .. m |-> rows[s[q]]]
    BY <2>3, <2>4 DEF AtIndices
  <2> QED
    BY <2>1, <2>2, <2>3, <2>5, Zenon
<1>3. ASSUME NEW p \in 1 .. k
      PROVE  /\ t[p] \in Seq(V) /\ t[p] # <<>> /\ Len(t[p]) = Len(parts[p])
             /\ Lists(t[p], Elements(t[p]))
             /\ Elements(t[p]) = {rows[i] : i \in Elements(parts[p])}
  <2>1. PICK s \in Seq(1 .. n) : \E m \in Nat :
                /\ s = parts[p] /\ m = Len(s) /\ m # 0 /\ Lists(s, Elements(s))
                /\ t[p] = [q \in 1 .. m |-> rows[s[q]]]
    BY <1>2
  <2>2. PICK m \in Nat :
                /\ s = parts[p] /\ m = Len(s) /\ m # 0 /\ Lists(s, Elements(s))
                /\ t[p] = [q \in 1 .. m |-> rows[s[q]]]
    BY <2>1
  <2>3. PICK u : u = t[p]
    OBVIOUS
  <2>4. \A q \in 1 .. m : s[q] \in 1 .. n
    BY <2>2, ElementsIn
  <2>5. u = [q \in 1 .. m |-> rows[s[q]]] /\ \A q \in 1 .. m : rows[s[q]] \in V
    BY <1>1, <2>2, <2>3, <2>4
  <2>6. u \in Seq(V) /\ Len(u) = m /\ \A q \in 1 .. m : u[q] = rows[s[q]]
    BY <2>5
  <2>7. ASSUME NEW a \in 1 .. m, NEW b \in 1 .. m, u[a] = u[b]  PROVE a = b
    <3>1. rows[s[a]] = rows[s[b]]
      BY <2>6, <2>7
    <3>2. s[a] \in 1 .. n /\ s[b] \in 1 .. n
      BY <2>4
    <3>3. s[a] = s[b]
      BY <3>1, <3>2 DEF Lists
    <3> QED
      BY <2>2, <3>3 DEF Lists
  <2>8. Lists(u, Elements(u))
    <3>1. PICK E : E = Elements(u)
      OBVIOUS
    <3>2. \A q \in 1 .. m : u[q] \in E
      BY <2>6, <3>1 DEF Elements
    <3>3. \A x \in E : \E q \in 1 .. m : u[q] = x
      BY <2>6, <3>1 DEF Elements
    <3>4. u \in Seq(E)
      BY <2>6, <3>2
    <3>5. Lists(u, E)
      BY <2>6, <2>7, <3>3, <3>4 DEF Lists
    <3> QED
      BY <3>1, <3>5
  <2>9. Elements(u) = {rows[i] : i \in Elements(s)}
    <3>1. Elements(u) = {u[q] : q \in 1 .. m} /\ Elements(s) = {s[q] : q \in 1 .. m}
      BY <2>2, <2>6 DEF Elements
    <3>2. \A x \in Elements(u) : \E i \in Elements(s) : x = rows[i]
      BY <2>6, <3>1
    <3>3. \A i \in Elements(s) : rows[i] \in Elements(u)
      BY <2>6, <3>1
    <3> QED
      BY <3>2, <3>3
  <2>10. u # <<>>
    BY <2>2, <2>6
  <2> QED
    BY <2>2, <2>3, <2>6, <2>8, <2>9, <2>10
<1>4. t \in [1 .. k -> Seq(V)]
  <2> DEFINE piece(p) == AtIndices(rows, parts[p])
  <2>1. t = [p \in 1 .. k |-> piece(p)]
    OBVIOUS
  <2>2. \A p \in 1 .. k : t[p] \in Seq(V)
    BY <1>3
  <2> HIDE DEF piece
  <2> QED
    BY <2>1, <2>2
<1>6. \A p \in 1 .. k : Elements(parts[p]) \subseteq 1 .. n
  BY DEF IsPartition
<1>7. ASSUME NEW p \in 1 .. k, NEW q \in 1 .. k, p # q, NEW x, x \in Elements(t[p]), x \in Elements(t[q])
      PROVE  FALSE
  <2>1. PICK i \in Elements(parts[p]) : x = rows[i]
    BY <1>3, <1>7
  <2>2. PICK j \in Elements(parts[q]) : x = rows[j]
    BY <1>3, <1>7
  <2>3. i \in 1 .. n /\ j \in 1 .. n
    BY <1>6, <2>1, <2>2
  <2>4. i = j
    BY <2>1, <2>2, <2>3 DEF Lists
  <2> QED
    BY <1>7, <2>1, <2>2, <2>4 DEF IsPartition
<1>8. UNION {Elements(t[p]) : p \in 1 .. k} = V
  <2>1. ASSUME NEW x \in V  PROVE \E p \in 1 .. k : x \in Elements(t[p])
    <3>1. PICK i \in 1 .. n : rows[i] = x
      BY DEF Lists
    <3>2. PICK p \in 1 .. k : i \in Elements(parts[p])
      BY DEF IsPartition
    <3> QED
      BY <1>3, <3>1, <3>2
  <2>2. ASSUME NEW p \in 1 .. k, NEW x \in Elements(t[p])  PROVE x \in V
    <3>1. PICK i \in Elements(parts[p]) : x = rows[i]
      BY <1>3
    <3> QED
      BY <1>1, <1>6, <3>1
  <2> QED
    BY <2>1, <2>2
<1>9. \A p, q \in 1 .. k : p # q => Elements(t[p]) \cap Elements(t[q]) = {}
  BY <1>7
<1>10. \A p \in 1 .. k : Lists(t[p], Elements(t[p])) /\ t[p] # <<>>
  BY <1>3
<1>11. \A p \in 1 .. k : Len(t[p]) = Len(parts[p])
  BY <1>3
<1> QED
  BY <1>4, <1>8, <1>9, <1>10, <1>11 DEF IsCut

\* The part in which an element is.
PartOf(parts, k, x) == CHOOSE p \in 1 .. k : x \in Elements(parts[p])

\* It is in that one and in no other.
LEMMA PartOfIs ==
  ASSUME NEW V, NEW k \in Nat, NEW parts, IsCut(parts, V, k)
  PROVE  \A x \in V : /\ PartOf(parts, k, x) \in 1 .. k
                      /\ \A p \in 1 .. k : x \in Elements(parts[p]) <=> PartOf(parts, k, x) = p
<1> SUFFICES ASSUME NEW x \in V
             PROVE  /\ PartOf(parts, k, x) \in 1 .. k
                    /\ \A p \in 1 .. k : x \in Elements(parts[p]) <=> PartOf(parts, k, x) = p
  OBVIOUS
<1>1. \E p \in 1 .. k : x \in Elements(parts[p])
  BY Zenon DEF IsCut
<1>2. PartOf(parts, k, x) \in 1 .. k /\ x \in Elements(parts[PartOf(parts, k, x)])
  BY <1>1, Zenon DEF PartOf
<1>3. PICK o \in 1 .. k : o = PartOf(parts, k, x) /\ x \in Elements(parts[o])
  BY <1>2
<1>4. \A p \in 1 .. k : x \in Elements(parts[p]) => p = o
  BY <1>3 DEF IsCut
<1> QED
  BY <1>3, <1>4

\* The lengths of the parts add up to the number of the elements.
LEMMA LengthsAddUp ==
  ASSUME NEW V, IsFiniteSet(V), NEW k \in Nat, NEW parts, IsCut(parts, V, k),
         NEW t \in [1 .. k -> Int], \A p \in 1 .. k : t[p] = Len(parts[p])
  PROVE  SumFunction(t) = Cardinality(V)
<1> DEFINE f == [x \in V |-> 1]
           place == [x \in V |-> PartOf(parts, k, x)]
<1>1. f \in [V -> Int] /\ \A x \in V : f[x] = 1
  OBVIOUS
<1>2. /\ place \in [V -> 1 .. k]
      /\ \A x \in V : \A p \in 1 .. k : x \in Elements(parts[p]) <=> place[x] = p
  <2>1. \A x \in V : PartOf(parts, k, x) \in 1 .. k
    BY PartOfIs
  <2>2. \A x \in V : \A p \in 1 .. k : x \in Elements(parts[p]) <=> PartOf(parts, k, x) = p
    BY PartOfIs
  <2>3. \A x \in V : place[x] = PartOf(parts, k, x)
    BY Zenon
  <2>4. place \in [V -> 1 .. k]
    BY <2>1
  <2> HIDE DEF place
  <2> QED
    BY <2>2, <2>3, <2>4, Zenon
<1> HIDE DEF f, place
<1>3. \A p \in 1 .. k : t[p] = Adding(f, V)[{x \in V : place[x] = p}]
  <2> SUFFICES ASSUME NEW p \in 1 .. k  PROVE t[p] = Adding(f, V)[{x \in V : place[x] = p}]
    OBVIOUS
  <2>1. PICK E : E = Elements(parts[p])
    OBVIOUS
  <2>2. E \in SUBSET V /\ {x \in V : place[x] = p} = E
    BY <1>2, <2>1 DEF IsCut
  <2>3. Lists(parts[p], E)
    BY <2>1 DEF IsCut
  <2>4. IsFiniteSet(E) /\ Cardinality(E) = Len(parts[p])
    BY <2>3, ListLength
  <2> DEFINE g == [x \in E |-> 1]
  <2>5. g \in [E -> Int] /\ (\A x \in E : g[x] = 1) /\ \A x \in E : g[x] = f[x]
    BY <1>1, <2>2
  <2> HIDE DEF g
  <2>6. SumFunction(g) = Cardinality(E)
    BY <2>4, <2>5, SumOfOnes
  <2>7. SumFunction(g) = Adding(f, V)[E]
    BY <1>1, <2>2, <2>5, SumOfPart
  <2>8. t[p] = Len(parts[p])
    OBVIOUS
  <2> QED
    BY <2>2, <2>4, <2>6, <2>7, <2>8
<1>4. GroupSums(t, f, V, place, k)
  BY <1>3, Zenon DEF GroupSums
<1>5. SumFunction(f) = SumFunction(t)
  BY <1>1, <1>2, <1>4, SumOfGroups
<1>6. SumFunction(f) = Cardinality(V)
  BY <1>1, SumOfOnes
<1> QED
  BY <1>5, <1>6

\* A rank wants at least one micro-batch, and not more than it has rows.
LEMMA WantedIs ==
  ASSUME NEW n \in Nat \ {0}, NEW lens \in [1 .. n -> Nat \ {0}], NEW m \in Nat \ {0}
  PROVE  MicroBatchesWanted(lens, m) \in 1 .. n
<1>1. PICK t \in Nat : t = Total(lens) /\ t > 0
  BY TotalIs
<1>2. Len(lens) = n
  OBVIOUS
<1>3. PICK x \in Nat : x = t + m - 1 /\ x >= m
  <2>1. t + m - 1 \in Nat /\ t + m - 1 >= m
    BY <1>1
  <2> QED
    BY <2>1
<1>4. x \div m \in Nat /\ x \div m >= 1
  <2>1. PICK q \in Nat : \E r \in 0 .. m - 1 : x = m * q + r
    BY Quotient
  <2>2. PICK r \in 0 .. m - 1 : x = m * q + r
    BY <2>1
  <2>3. q # 0
    <3> SUFFICES ASSUME q = 0  PROVE FALSE
      OBVIOUS
    <3>1. m * 0 = 0
      OBVIOUS
    <3> QED
      BY <1>3, <2>2, <3>1
  <2>4. (q * m + r) \div m = q
    BY DivMod
  <2>5. m * q = q * m
    OBVIOUS
  <2>6. x \div m = q
    BY <2>2, <2>4, <2>5
  <2> QED
    BY <2>3, <2>6
<1>5. CeilDiv(Total(lens), m) = x \div m
  BY <1>1, <1>3, Zenon DEF CeilDiv
<1>6. PICK c \in Nat : c = CeilDiv(Total(lens), m) /\ c >= 1
  BY <1>4, <1>5
<1>7. MicroBatchesWanted(lens, m) = IF c < n THEN c ELSE n
  BY <1>2, <1>6 DEF MicroBatchesWanted
<1> QED
  BY <1>6, <1>7

\* A sequence over some set is one over a larger set.
LEMMA SequenceOver ==
  ASSUME NEW V, NEW W, V \subseteq W, NEW s \in Seq(V)
  PROVE  s \in Seq(W)
<1>1. PICK m \in Nat : m = Len(s) /\ s \in [1 .. m -> V]
  OBVIOUS
<1>2. \A q \in 1 .. m : s[q] \in W
  BY <1>1
<1>3. s \in [1 .. m -> W]
  BY <1>1, <1>2
<1> QED
  BY <1>3
================================================================================
