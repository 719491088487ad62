----------------------------- MODULE TenantsProofs -----------------------------
(* What holds of the parts between a caller and the data of tenants for every  *)
(* value of the constants.  Each part has an invariant of its own: RateInv,    *)
(* AuthInv, and, for the evidence of tenants, TenancyInv and MeterInv.         *)
EXTENDS Tenants, TLAPS, FiniteSetTheorems, SequenceTheorems, WellFoundedInduction

--------------------------------------------------------------------------------
(* Lists, recursion and sums *)
LEMMA LeastNat ==
    ASSUME NEW T \in SUBSET Nat, T # {}
    PROVE  \E n \in T : \A m \in T : n <= m
<1>1. PICK n \in T : \A m \in T : ~(<<m, n>> \in OpToRel(<, Nat))
  BY NatLessThanWellFounded, WFMin
<1>2. \A m \in T : ~(m < n)
  BY <1>1 DEF OpToRel
<1> QED
  BY <1>2

(* R does not go round in circles on S. *)
StrictOrder(R, S) ==
    /\ \A x \in S : <<x, x>> \notin R
    /\ \A x, y, z \in S : <<x, y>> \in R /\ <<y, z>> \in R => <<x, z>> \in R

(* A finite set has an element that precedes no other: one with the fewest     *)
(* elements after it.                                                          *)
LEMMA LastElement ==
    ASSUME NEW R, NEW S, IsFiniteSet(S), S # {}, StrictOrder(R, S)
    PROVE  \E m \in S : \A x \in S : <<m, x>> \notin R
<1> DEFINE After(x) == {y \in S : <<x, y>> \in R}
           sizes == {Cardinality(After(x)) : x \in S}
<1>1. \A x \in S : IsFiniteSet(After(x)) /\ Cardinality(After(x)) \in Nat
  BY FS_Subset, FS_CardinalityType
<1>2. sizes \in SUBSET Nat /\ sizes # {}
  BY <1>1
<1>3. PICK n \in sizes : \A m \in sizes : n <= m
  BY <1>2, LeastNat
<1>4. PICK m \in S : n = Cardinality(After(m))
  BY <1>3
<1>5. ASSUME NEW x \in S, <<m, x>> \in R PROVE FALSE
  <2>1. After(x) \subseteq After(m) /\ x \in After(m) /\ x \notin After(x)
    BY <1>5 DEF StrictOrder
  <2>2. Cardinality(After(x)) < Cardinality(After(m))
    <3>1. After(x) # After(m)
      BY <2>1
    <3> HIDE DEF After
    <3>2. Cardinality(After(x)) <= Cardinality(After(m)) /\ Cardinality(After(x)) # Cardinality(After(m))
      BY <1>1, <2>1, <3>1, FS_Subset
    <3> QED
      BY <1>1, <3>2
  <2>3. Cardinality(After(x)) \in sizes
    OBVIOUS
  <2> HIDE DEF sizes, After
  <2> QED
    BY <1>1, <1>3, <1>4, <2>2, <2>3
<1> QED
  BY <1>5

(* The sequences that list S in the order R: each element once, none before    *)
(* one that precedes it.                                                       *)
ListsOf(S, R) ==
    {s \in [1..Cardinality(S) -> S] :
        /\ \A i, j \in 1..Cardinality(S) : i # j => s[i] # s[j]
        /\ \A i, j \in 1..Cardinality(S) : i < j => <<s[j], s[i]>> \notin R}

LEMMA ListExists ==
    ASSUME NEW R, NEW S, IsFiniteSet(S), StrictOrder(R, S)
    PROVE  ListsOf(S, R) # {}
<1> DEFINE bad == {n \in Nat : \E U \in SUBSET S : Cardinality(U) = n /\ ListsOf(U, R) = {}}
<1>1. ASSUME bad # {} PROVE FALSE
  <2>1. PICK n \in bad : \A m \in bad : n <= m
    BY <1>1, LeastNat
  <2>2. PICK U \in SUBSET S : Cardinality(U) = n /\ ListsOf(U, R) = {}
    BY <2>1
  <2>3. IsFiniteSet(U) /\ StrictOrder(R, U)
    BY <2>2, FS_Subset DEF StrictOrder
  <2>4. CASE U = {}
    <3>1. n = 0
      BY <2>2, <2>4, FS_EmptySet
    <3>2. [i \in 1..0 |-> i] \in ListsOf(U, R)
      BY <2>2, <2>4, <3>1 DEF ListsOf
    <3> QED
      BY <2>2, <3>2
  <2>5. CASE U # {}
    <3>1. PICK m \in U : \A x \in U : <<m, x>> \notin R
      BY <2>3, <2>5, LastElement
    <3> DEFINE V == U \ {m}
    <3>2. IsFiniteSet(V) /\ Cardinality(V) = n - 1 /\ n \in Nat /\ n - 1 \in Nat
      <4>1. n \in Nat /\ n # 0
        BY <2>1, <2>2, <2>3, <2>5, FS_EmptySet
      <4>2. IsFiniteSet(V) /\ Cardinality(V) = n - 1
        BY <2>2, <2>3, <3>1, FS_RemoveElement
      <4> QED
        BY <4>1, <4>2
    <3>3. V \in SUBSET S /\ n - 1 \notin bad
      <4>1. n - 1 < n
        BY <3>2
      <4> QED
        BY <2>1, <3>2, <4>1
    <3>4. PICK s \in ListsOf(V, R) : TRUE
      BY <3>2, <3>3
    <3> DEFINE u == [i \in 1..n |-> IF i = n THEN m ELSE s[i]]
    <3>5. /\ \A i \in 1..(n - 1) : u[i] = s[i] /\ s[i] \in U /\ s[i] # m
          /\ u[n] = m
      <4>1. n \in 1..n /\ \A i \in 1..(n - 1) : i \in 1..n /\ i # n
        BY <3>2
      <4>2. \A i \in 1..(n - 1) : s[i] \in V
        BY <3>2, <3>4 DEF ListsOf
      <4> QED
        BY <4>1, <4>2
    <3>6. \A i, j \in 1..(n - 1) : (i # j => s[i] # s[j]) /\ (i < j => <<s[j], s[i]>> \notin R)
      BY <3>2, <3>4 DEF ListsOf
    <3>7. \A i \in 1..n : i = n \/ i \in 1..(n - 1)
      BY <3>2
    <3>8. u \in [1..n -> U]
      BY <3>5, <3>7
    <3> HIDE DEF u, V
    <3>9. \A i, j \in 1..n : i # j => u[i] # u[j]
      BY <3>5, <3>6, <3>7
    <3>10. \A i, j \in 1..n : i < j => <<u[j], u[i]>> \notin R
      <4>1. \A i, j \in 1..n : i < j => i # n
        BY <3>2
      <4> QED
        BY <3>1, <3>5, <3>6, <3>7, <4>1
    <3>11. u \in ListsOf(U, R)
      BY <2>2, <3>8, <3>9, <3>10 DEF ListsOf
    <3> QED
      BY <2>2, <3>11
  <2> QED
    BY <2>4, <2>5
<1>2. Cardinality(S) \in Nat /\ S \in SUBSET S
  BY FS_CardinalityType
<1> QED
  BY <1>1, <1>2

(* A list has every element: as many places as there are elements. *)
LEMMA ListIsOnto ==
    ASSUME NEW S, IsFiniteSet(S), NEW s \in [1..Cardinality(S) -> S],
           \A i, j \in 1..Cardinality(S) : i # j => s[i] # s[j]
    PROVE  \A x \in S : \E i \in 1..Cardinality(S) : s[i] = x
<1> DEFINE n == Cardinality(S)
           T == {s[i] : i \in 1..n}
<1>1. n \in Nat
  BY FS_CardinalityType
<1>2. s \in Bijection(1..n, T)
  BY DEF Bijection, Injection, Surjection, IsInjective
<1>3. Cardinality(T) = n
  BY <1>1, <1>2, FS_CountingElements DEF ExistsBijection
<1>4. T \subseteq S
  OBVIOUS
<1>5. T = S
  BY <1>3, <1>4, FS_Subset
<1> QED
  BY <1>5

(* A function by recursion on the naturals up to N, with a step G. *)
Recursive(f, N, b, G) == f[0] = b /\ \A n \in 1..N : f[n] = G[<<n, f[n - 1]>>]

LEMMA Recursion ==
    ASSUME NEW N \in Nat, NEW V, NEW b \in V, NEW G \in [(1..N) \X V -> V]
    PROVE  \E f \in [0..N -> V] : Recursive(f, N, b, G)
<1> DEFINE Upto(k, f) == f[0] = b /\ \A n \in 1..k : f[n] = G[<<n, f[n - 1]>>]
           bad == {k \in 0..N : ~ \E f \in [0..k -> V] : Upto(k, f)}
<1>1. ASSUME bad # {} PROVE FALSE
  <2>0. bad \in SUBSET Nat
    OBVIOUS
  <2>1. PICK k \in bad : \A m \in bad : k <= m
    <3> HIDE DEF bad
    <3> QED
      BY <1>1, <2>0, LeastNat
  <2>2. k \in 0..N /\ k \in Nat
    BY <2>1
  <2>3. k # 0
    <3> SUFFICES ASSUME k = 0 PROVE FALSE
      OBVIOUS
    <3>1. [i \in 0..0 |-> b] \in [0..k -> V] /\ Upto(k, [i \in 0..0 |-> b])
      BY <2>2
    <3> QED
      BY <2>1, <3>1
  <2>4. k - 1 \in 0..N /\ ~ (k <= k - 1)
    BY <2>2, <2>3
  <2>5. k - 1 \notin bad
    BY <2>1, <2>4
  <2>6. PICK g \in [0..(k - 1) -> V] : Upto(k - 1, g)
    BY <2>4, <2>5
  <2> DEFINE f == [n \in 0..k |-> IF n = k THEN G[<<k, g[k - 1]>>] ELSE g[n]]
  <2>7. /\ f[k] = G[<<k, g[k - 1]>>]
        /\ \A n \in 0..(k - 1) : f[n] = g[n] /\ n \in 0..k
        /\ \A n \in 0..k : n = k \/ n \in 0..(k - 1)
    BY <2>2, <2>3
  <2>8. f \in [0..k -> V]
    <3>1. k \in 1..N /\ g[k - 1] \in V
      BY <2>2, <2>3, <2>6
    <3>2. G[<<k, g[k - 1]>>] \in V
      BY <3>1
    <3> QED
      BY <2>2, <2>6, <3>2
  <2> HIDE DEF f
  <2>9. f[0] = b
    BY <2>2, <2>3, <2>6, <2>7
  <2>10. ASSUME NEW n \in 1..k PROVE f[n] = G[<<n, f[n - 1]>>]
    <3>1. n - 1 \in 0..(k - 1)
      BY <2>2
    <3>2. CASE n = k
      BY <2>7, <3>1, <3>2
    <3>3. CASE n # k
      <4>1. n \in 1..(k - 1) /\ n \in 0..(k - 1)
        BY <2>2, <3>3
      <4> QED
        BY <2>6, <2>7, <3>1, <4>1
    <3> QED
      BY <3>2, <3>3
  <2> QED
    BY <2>1, <2>8, <2>9, <2>10
<1>2. PICK f \in [0..N -> V] : Upto(N, f)
  BY <1>1
<1> QED
  BY <1>2 DEF Recursive

(* The element that a fold takes next. *)
Pick(T) == CHOOSE x \in T : TRUE

Numbers(f, S) == \A x \in S : f[x] \in Nat

(* g sums f over every part of S, taking away one element at a time. *)
IsSum(g, f, S) ==
    g = [T \in SUBSET S |-> IF T = {} THEN 0 ELSE f[Pick(T)] + g[T \ {Pick(T)}]]

LEMMA PickIn == \A T : T # {} => Pick(T) \in T
BY DEF Pick

(* A property of the parts of a finite set fails, if at all, for a smallest one. *)
LEMMA SmallestPart ==
    ASSUME NEW S, IsFiniteSet(S), NEW B \in SUBSET SUBSET S, B # {}
    PROVE  \E T \in B : IsFiniteSet(T) /\ \A x \in T : T \ {x} \notin B
<1> DEFINE sizes == {Cardinality(T) : T \in B}
<1>1. \A T \in B : IsFiniteSet(T) /\ Cardinality(T) \in Nat
  BY FS_Subset, FS_CardinalityType
<1>2. sizes \in SUBSET Nat /\ sizes # {}
  BY <1>1
<1>3. PICK n \in sizes : \A m \in sizes : n <= m
  <2> HIDE DEF sizes
  <2> QED
    BY <1>2, LeastNat
<1>4. PICK T \in B : n = Cardinality(T)
  BY <1>3
<1>5. ASSUME NEW x \in T, T \ {x} \in B PROVE FALSE
  <2>1. Cardinality(T \ {x}) = n - 1
    BY <1>1, <1>4, FS_RemoveElement
  <2>2. n <= n - 1 /\ n \in Nat
    BY <1>1, <1>3, <1>4, <1>5, <2>1
  <2> QED
    BY <2>2
<1> QED
  BY <1>1, <1>5

LEMMA SumExists ==
    ASSUME NEW S, IsFiniteSet(S), NEW f, Numbers(f, S)
    PROVE  \E g \in [SUBSET S -> Nat] : IsSum(g, f, S)
<1> DEFINE Parts(k) == {T \in SUBSET S : Cardinality(T) <= k}
           Good(k, g) == \A T \in Parts(k) : g[T] = IF T = {} THEN 0 ELSE f[Pick(T)] + g[T \ {Pick(T)}]
           bad == {k \in Nat : ~ \E g \in [Parts(k) -> Nat] : Good(k, g)}
<1>1. \A T \in SUBSET S : IsFiniteSet(T) /\ Cardinality(T) \in Nat /\ Cardinality(T) <= Cardinality(S)
  BY FS_Subset, FS_CardinalityType
<1>2. \A T \in SUBSET S : T # {} =>
         /\ Pick(T) \in S /\ f[Pick(T)] \in Nat
         /\ T \ {Pick(T)} \in SUBSET S /\ Cardinality(T \ {Pick(T)}) = Cardinality(T) - 1
         /\ Cardinality(T) # 0
  BY <1>1, PickIn, FS_RemoveElement, FS_EmptySet DEF Numbers
<1>3. ASSUME bad # {} PROVE FALSE
  <2>0. bad \in SUBSET Nat
    OBVIOUS
  <2>1. PICK k \in bad : \A m \in bad : k <= m
    <3> HIDE DEF bad
    <3> QED
      BY <1>3, <2>0, LeastNat
  <2>2. k \in Nat
    BY <2>1
  <2>3. CASE k = 0
    <3> DEFINE g == [T \in Parts(0) |-> 0]
    <3>1. \A T \in Parts(0) : T = {}
      BY <1>1, FS_EmptySet
    <3>2. g \in [Parts(k) -> Nat] /\ Good(k, g)
      BY <2>3, <3>1
    <3> QED
      BY <2>1, <3>2
  <2>4. CASE k # 0
    <3>1. k - 1 \in Nat /\ ~ (k <= k - 1)
      BY <2>2, <2>4
    <3>2. k - 1 \notin bad
      BY <2>1, <3>1
    <3>3. PICK h \in [Parts(k - 1) -> Nat] : Good(k - 1, h)
      BY <3>1, <3>2
    <3> DEFINE g == [T \in Parts(k) |-> IF T = {} THEN 0 ELSE f[Pick(T)] + h[T \ {Pick(T)}]]
    <3>4. \A T \in Parts(k) : T # {} => T \ {Pick(T)} \in Parts(k - 1)
      BY <1>1, <1>2, <2>2
    <3>5. g \in [Parts(k) -> Nat]
      BY <1>2, <3>3, <3>4
    <3>6. Parts(k - 1) \subseteq Parts(k)
      BY <1>1, <2>2
    <3>7. \A T \in Parts(k - 1) : g[T] = h[T]
      BY <3>3, <3>6
    <3> HIDE DEF g, Parts
    <3>8. \A T \in Parts(k) : g[T] = IF T = {} THEN 0 ELSE f[Pick(T)] + h[T \ {Pick(T)}]
      BY DEF g
    <3>9. Good(k, g)
      BY <3>4, <3>7, <3>8
    <3> QED
      BY <2>1, <3>5, <3>9
  <2> QED
    BY <2>3, <2>4
<1>4. Cardinality(S) \in Nat /\ Parts(Cardinality(S)) = SUBSET S
  BY <1>1
<1>5. PICK g \in [Parts(Cardinality(S)) -> Nat] : Good(Cardinality(S), g)
  BY <1>3, <1>4
<1>6. \A T \in SUBSET S : g[T] = IF T = {} THEN 0 ELSE f[Pick(T)] + g[T \ {Pick(T)}]
  BY <1>4, <1>5
<1>7. g \in [SUBSET S -> Nat]
  BY <1>4, <1>5
<1> HIDE DEF Parts, Good, bad
<1> QED
  BY <1>6, <1>7 DEF IsSum

LEMMA SumEq ==
    ASSUME NEW S, NEW f, NEW g, IsSum(g, f, S)
    PROVE  \A T \in SUBSET S : g[T] = IF T = {} THEN 0 ELSE f[Pick(T)] + g[T \ {Pick(T)}]
BY DEF IsSum

(* Total is such a sum. *)
LEMMA TotalIsSum ==
    ASSUME NEW S, NEW f
    PROVE  Meters!Total(f, S) = (CHOOSE g : IsSum(g, f, S))[S]
BY DEF Meters!Total, Meters!MapThenSumSet, Meters!MapThenFoldSet, IsSum, Pick

LEMMA SumIsNat ==
    ASSUME NEW S, IsFiniteSet(S), NEW f, Numbers(f, S), NEW g, IsSum(g, f, S)
    PROVE  \A T \in SUBSET S : g[T] \in Nat
<1> DEFINE B == {T \in SUBSET S : g[T] \notin Nat}
<1>1. ASSUME B # {} PROVE FALSE
  <2>1. PICK T \in B : \A x \in T : T \ {x} \notin B
    BY <1>1, SmallestPart
  <2>2. g[T] = IF T = {} THEN 0 ELSE f[Pick(T)] + g[T \ {Pick(T)}]
    BY SumEq
  <2>3. T # {} => Pick(T) \in T /\ f[Pick(T)] \in Nat /\ g[T \ {Pick(T)}] \in Nat
    BY <2>1, PickIn DEF Numbers
  <2> QED
    BY <2>2, <2>3
<1> QED
  BY <1>1

(* It does not matter which element is taken away. *)
LEMMA SumRemove ==
    ASSUME NEW S, IsFiniteSet(S), NEW f, Numbers(f, S), NEW g, IsSum(g, f, S)
    PROVE  \A T \in SUBSET S : \A x \in T : g[T] = f[x] + g[T \ {x}]
<1> DEFINE B == {T \in SUBSET S : \E x \in T : g[T] # f[x] + g[T \ {x}]}
<1>1. ASSUME B # {} PROVE FALSE
  <2>1. PICK T \in B : \A x \in T : T \ {x} \notin B
    BY <1>1, SmallestPart
  <2>2. PICK x \in T : g[T] # f[x] + g[T \ {x}]
    BY <2>1
  <2> DEFINE p == Pick(T)
             U == T \ {x}
             V == T \ {p}
             W == (T \ {x}) \ {p}
  <2>3. p \in T /\ g[T] = f[p] + g[V]
    BY SumEq, PickIn
  <2>4. p # x
    BY <2>2, <2>3
  <2>5. g[U] = f[p] + g[U \ {p}]
    BY <2>1, <2>3, <2>4
  <2>6. g[V] = f[x] + g[V \ {x}]
    BY <2>1, <2>3, <2>4
  <2>7. V \ {x} = W /\ U \ {p} = W
    OBVIOUS
  <2>8. f[p] \in Nat /\ f[x] \in Nat /\ g[W] \in Nat
    BY <2>3, SumIsNat DEF Numbers
  <2>9. g[T] # f[x] + g[U]
    BY <2>2
  <2> HIDE DEF p, U, V, W, B
  <2>10. g[T] = f[p] + (f[x] + g[W]) /\ g[U] = f[p] + g[W]
    BY <2>3, <2>5, <2>6, <2>7
  <2> QED
    BY <2>8, <2>9, <2>10
<1> QED
  BY <1>1

(* Two sums agree where what they sum agrees. *)
LEMMA SumAgree ==
    ASSUME NEW S, IsFiniteSet(S), NEW f, NEW g, IsSum(g, f, S),
           NEW R, NEW k, NEW h, IsSum(h, k, R), S \subseteq R, \A x \in S : f[x] = k[x]
    PROVE  \A T \in SUBSET S : g[T] = h[T]
<1> DEFINE B == {T \in SUBSET S : g[T] # h[T]}
<1>1. ASSUME B # {} PROVE FALSE
  <2>1. PICK T \in B : \A x \in T : T \ {x} \notin B
    BY <1>1, SmallestPart
  <2>2. g[T] = IF T = {} THEN 0 ELSE f[Pick(T)] + g[T \ {Pick(T)}]
    BY SumEq
  <2>3. h[T] = IF T = {} THEN 0 ELSE k[Pick(T)] + h[T \ {Pick(T)}]
    <3>1. \A Q \in SUBSET R : h[Q] = IF Q = {} THEN 0 ELSE k[Pick(Q)] + h[Q \ {Pick(Q)}]
      BY SumEq
    <3> HIDE DEF B
    <3>2. T \in SUBSET R
      BY <2>1 DEF B
    <3> QED
      BY <3>1, <3>2
  <2>4. T # {} => Pick(T) \in T /\ f[Pick(T)] = k[Pick(T)] /\ g[T \ {Pick(T)}] = h[T \ {Pick(T)}]
    BY <2>1, PickIn
  <2> QED
    BY <2>1, <2>2, <2>3, <2>4
<1> QED
  BY <1>1

LEMMA TotalPick ==
    ASSUME NEW S, IsFiniteSet(S), NEW f, Numbers(f, S)
    PROVE  \E g : IsSum(g, f, S) /\ Meters!Total(f, S) = g[S]
<1>1. IsSum(CHOOSE g : IsSum(g, f, S), f, S)
  BY SumExists
<1> QED
  BY <1>1, TotalIsSum

(* What a total is. *)
LEMMA TotalNat ==
    ASSUME NEW S, IsFiniteSet(S), NEW f, Numbers(f, S)
    PROVE  Meters!Total(f, S) \in Nat
BY TotalPick, SumIsNat

LEMMA TotalEmpty == ASSUME NEW f PROVE Meters!Total(f, {}) = 0
<1>1. PICK g : IsSum(g, f, {}) /\ Meters!Total(f, {}) = g[{}]
  BY TotalPick, FS_EmptySet DEF Numbers
<1>2. g[{}] = 0
  BY <1>1, SumEq
<1> QED
  BY <1>1, <1>2

LEMMA TotalRemove ==
    ASSUME NEW S, IsFiniteSet(S), NEW f, Numbers(f, S), NEW x \in S
    PROVE  Meters!Total(f, S) = f[x] + Meters!Total(f, S \ {x})
<1> DEFINE R == S \ {x}
<1>1. PICK g : IsSum(g, f, S) /\ Meters!Total(f, S) = g[S]
  BY TotalPick
<1>2. IsFiniteSet(R) /\ Numbers(f, R) /\ R \subseteq S
  BY FS_Subset DEF Numbers
<1>3. PICK h : IsSum(h, f, R) /\ Meters!Total(f, R) = h[R]
  BY <1>2, TotalPick
<1>4. h[R] = g[R]
  <2> HIDE DEF R
  <2> QED
    BY <1>1, <1>2, <1>3, SumAgree
<1>5. g[S] = f[x] + g[R]
  BY <1>1, SumRemove
<1> QED
  BY <1>1, <1>3, <1>4, <1>5

(* Totals grow with what they add up. *)
LEMMA TotalMono ==
    ASSUME NEW S, IsFiniteSet(S), NEW f, NEW k, Numbers(f, S), Numbers(k, S),
           \A x \in S : f[x] <= k[x]
    PROVE  Meters!Total(f, S) <= Meters!Total(k, S)
<1> DEFINE B == {T \in SUBSET S : ~ (Meters!Total(f, T) <= Meters!Total(k, T))}
<1>1. ASSUME B # {} PROVE FALSE
  <2>1. PICK T \in B : IsFiniteSet(T) /\ \A x \in T : T \ {x} \notin B
    <3>1. B \in SUBSET SUBSET S
      OBVIOUS
    <3> HIDE DEF B
    <3> QED
      BY <1>1, <3>1, SmallestPart
  <2>2. CASE T = {}
    BY <2>1, <2>2, TotalEmpty
  <2>3. CASE T # {}
    <3>1. PICK x \in T : TRUE
      BY <2>3
    <3> DEFINE R == T \ {x}
    <3>2. IsFiniteSet(R) /\ Numbers(f, T) /\ Numbers(k, T) /\ Numbers(f, R) /\ Numbers(k, R)
      BY <2>1, FS_Subset DEF Numbers
    <3>3. Meters!Total(f, R) <= Meters!Total(k, R)
      BY <2>1, <3>1
    <3>4. Meters!Total(f, T) = f[x] + Meters!Total(f, R) /\ Meters!Total(k, T) = k[x] + Meters!Total(k, R)
      BY <2>1, <3>1, <3>2, TotalRemove
    <3>5. Meters!Total(f, R) \in Nat /\ Meters!Total(k, R) \in Nat
      BY <3>2, TotalNat
    <3>6. f[x] \in Nat /\ k[x] \in Nat /\ f[x] <= k[x]
      BY <3>2 DEF Numbers
    <3>7. ~ (Meters!Total(f, T) <= Meters!Total(k, T))
      BY <2>1
    <3> HIDE DEF R, B
    <3> QED
      BY <3>3, <3>4, <3>5, <3>6, <3>7
  <2> QED
    BY <2>2, <2>3
<1> QED
  BY <1>1

LEMMA TotalSame ==
    ASSUME NEW S, IsFiniteSet(S), NEW f, NEW k, Numbers(f, S), \A x \in S : f[x] = k[x]
    PROVE  Meters!Total(f, S) = Meters!Total(k, S)
<1>1. Numbers(k, S)
  BY DEF Numbers
<1>2. PICK g : IsSum(g, f, S) /\ Meters!Total(f, S) = g[S]
  BY TotalPick
<1>3. PICK h : IsSum(h, k, S) /\ Meters!Total(k, S) = h[S]
  BY <1>1, TotalPick
<1> QED
  BY <1>2, <1>3, SumAgree

(* The total over two sets without common elements. *)
LEMMA TotalUnion ==
    ASSUME NEW S, IsFiniteSet(S), NEW R, IsFiniteSet(R), S \cap R = {},
           NEW f, Numbers(f, S \cup R)
    PROVE  Meters!Total(f, S \cup R) = Meters!Total(f, S) + Meters!Total(f, R)
<1> DEFINE B == {T \in SUBSET S : Meters!Total(f, T \cup R) # Meters!Total(f, T) + Meters!Total(f, R)}
<1>0. Meters!Total(f, R) \in Nat
  BY TotalNat DEF Numbers
<1>1. ASSUME B # {} PROVE FALSE
  <2>1. PICK T \in B : IsFiniteSet(T) /\ \A x \in T : T \ {x} \notin B
    <3>1. B \in SUBSET SUBSET S
      OBVIOUS
    <3> HIDE DEF B
    <3> QED
      BY <1>1, <3>1, SmallestPart
  <2>2. CASE T = {}
    <3>1. T \cup R = R
      BY <2>2
    <3>2. Meters!Total(f, T) = 0
      BY <2>2, TotalEmpty
    <3> QED
      BY <1>0, <2>1, <3>1, <3>2
  <2>3. CASE T # {}
    <3>1. PICK x \in T : TRUE
      BY <2>3
    <3> DEFINE U == T \ {x}
               all == T \cup R
    <3>2. IsFiniteSet(U) /\ IsFiniteSet(all)
      BY <2>1, FS_Subset, FS_Union
    <3>3. Numbers(f, T) /\ Numbers(f, U) /\ Numbers(f, all)
      BY DEF Numbers
    <3>4. all \ {x} = U \cup R /\ x \in all
      BY <3>1
    <3>5. Meters!Total(f, U \cup R) = Meters!Total(f, U) + Meters!Total(f, R)
      BY <2>1, <3>1
    <3>6. Meters!Total(f, T) = f[x] + Meters!Total(f, U)
      BY <2>1, <3>1, <3>3, TotalRemove
    <3>7. Meters!Total(f, all) = f[x] + Meters!Total(f, U \cup R)
      BY <3>2, <3>3, <3>4, TotalRemove
    <3>8. f[x] \in Nat /\ Meters!Total(f, U) \in Nat
      BY <3>2, <3>3, TotalNat DEF Numbers
    <3>9. Meters!Total(f, all) # Meters!Total(f, T) + Meters!Total(f, R)
      BY <2>1
    <3> HIDE DEF U, all, B
    <3> QED
      BY <1>0, <3>5, <3>6, <3>7, <3>8, <3>9
  <2> QED
    BY <2>2, <2>3
<1> QED
  BY <1>1

--------------------------------------------------------------------------------
(* RateLimit *)
(* A finite set of numbers that is not empty has a least element: the one with *)
(* the smallest set of elements up to it.                                      *)
LEMMA LeastElement ==
    ASSUME NEW S, IsFiniteSet(S), S # {}, S \subseteq Int
    PROVE  \E m \in S : \A n \in S : m <= n
<1> DEFINE Upto(k) == {l \in S : l <= k}
           sets == {U \in SUBSET S : \E k \in S : U = Upto(k)}
<1>1. IsWellFoundedOn(StrictSubsetOrdering(S), SUBSET S)
  BY FS_StrictSubsetOrderingWellFounded, FS_FiniteSubsetsOfFinite
<1>2. PICK k \in S : TRUE
  OBVIOUS
<1>3. Upto(k) \in sets
  OBVIOUS
<1>4. PICK U \in sets : \A V \in sets : <<V, U>> \notin StrictSubsetOrdering(S)
  BY <1>1, <1>3, WFMin
<1>5. PICK m \in S : U = Upto(m)
  BY <1>4
<1>6. ASSUME NEW n \in S, n < m PROVE FALSE
  <2>1. n \in Int /\ m \in Int /\ \A l \in S : l \in Int
    OBVIOUS
  <2>2. Upto(n) \subseteq Upto(m) /\ m \in Upto(m) /\ m \notin Upto(n)
    <3>1. \A l \in S : l <= n => l <= m
      BY <1>6, <2>1
    <3>2. m <= m /\ ~ (m <= n)
      BY <1>6, <2>1
    <3> QED
      BY <3>1, <3>2
  <2>3. Upto(n) \in sets /\ U \in SUBSET S /\ Upto(n) \in SUBSET S
    BY <1>4
  <2> HIDE DEF Upto, sets
  <2> QED
    BY <1>4, <1>5, <2>2, <2>3 DEF StrictSubsetOrdering
<1>7. \A n \in S : n \in Int /\ m \in Int /\ ~ (n < m)
  BY <1>6
<1> QED
  BY <1>7

Window == window_seconds * TicksPerSecond

(* The window is not empty. *)
LEMMA WindowIs == Window \in Nat \ {0} /\ Limiter!Window = Window
BY LimiterAssumption DEF Window, Limiter!Window

Sorted(s) == \A i, j \in DOMAIN s : i <= j => s[i] <= s[j]

(* popleft takes a prefix, of hits that have expired, and leaves none of them. *)
LEMMA UnexpiredIs ==
    ASSUME NEW times \in Seq(Nat), Sorted(times), rateNow \in Nat
    PROVE  LET u == Limiter!Unexpired(times)
           IN /\ u \in Seq(Nat)
              /\ \A i \in DOMAIN u : u[i] >= rateNow - Window
              /\ \E k \in 0..Len(times) :
                    /\ Len(u) = Len(times) - k
                    /\ \A i \in DOMAIN u : u[i] = times[k + i]
                    /\ \A i \in 1..k : times[i] < rateNow - Window
<1> DEFINE u == Limiter!Unexpired(times)
           live == {i \in DOMAIN times : times[i] >= rateNow - Window}
           n == Len(times)
<1>0. Window \in Nat /\ n \in Nat /\ DOMAIN times = 1..n
  BY WindowIs
<1>1. u = IF live = {} THEN <<>> ELSE SubSeq(times, Limiter!Min(live), Len(times))
  BY WindowIs DEF Limiter!Unexpired
<1>2. CASE live = {}
  <2>1. u = <<>>
    BY <1>1, <1>2
  <2>2. u \in Seq(Nat) /\ Len(u) = 0 /\ DOMAIN u = {}
    BY <2>1
  <2>3. \A i \in 1..n : times[i] < rateNow - Window
    BY <1>0, <1>2
  <2> HIDE DEF u, live
  <2>4. n \in 0..Len(times) /\ Len(u) = Len(times) - n
    BY <1>0, <2>2 DEF n
  <2>5. \A i \in DOMAIN u : FALSE
    BY <2>2
  <2> HIDE DEF n
  <2>6. \E k \in 0..Len(times) :
            /\ Len(u) = Len(times) - k
            /\ \A i \in DOMAIN u : u[i] = times[k + i]
            /\ \A i \in 1..k : times[i] < rateNow - Window
    BY <2>3, <2>4, <2>5
  <2> QED
    BY <2>2, <2>5, <2>6 DEF u
<1>3. CASE live # {}
  <2>1. IsFiniteSet(live) /\ live \subseteq Int
    <3>1. live \subseteq 1..n /\ 1 \in Int /\ n \in Int
      BY <1>0
    <3> HIDE DEF live, n
    <3>2. IsFiniteSet(1..n)
      BY <3>1, FS_Interval
    <3>3. IsFiniteSet(live)
      BY <3>1, <3>2, FS_Subset
    <3>4. live \subseteq Int
      BY <3>1
    <3> QED
      BY <3>3, <3>4
  <2>2. \E m \in live : \A l \in live : m <= l
    BY <1>3, <2>1, LeastElement
  <2> DEFINE m == Limiter!Min(live)
  <2>3. m \in live /\ \A l \in live : m <= l
    BY <2>2 DEF Limiter!Min
  <2>4. u = SubSeq(times, m, n)
    BY <1>1, <1>3
  <2> HIDE DEF m, u
  <2>5. m \in 1..n /\ times[m] >= rateNow - Window
    BY <1>0, <2>3
  <2> HIDE DEF n
  <2>6. /\ u \in Seq(Nat) /\ Len(u) = n - m + 1
        /\ \A i \in 1..(n - m + 1) : u[i] = times[m + i - 1]
    BY <1>0, <2>4, <2>5, SubSeqProperties DEF n
  <2>7. DOMAIN u = 1..(n - m + 1)
    <3>1. u \in Seq(Nat) /\ Len(u) = n - m + 1
      BY <2>6
    <3>2. DOMAIN u = 1..Len(u)
      BY <3>1
    <3> QED
      BY <3>1, <3>2
  <2>8. \A i \in DOMAIN u : u[i] = times[(m - 1) + i] /\ m + i - 1 \in DOMAIN times /\ m <= m + i - 1
    BY <1>0, <2>5, <2>6, <2>7
  <2>9. \A i \in DOMAIN u : u[i] >= rateNow - Window
    <3> SUFFICES ASSUME NEW i \in DOMAIN u PROVE u[i] >= rateNow - Window
      OBVIOUS
    <3>1. m + i - 1 \in DOMAIN times /\ m \in DOMAIN times /\ m <= m + i - 1 /\ u[i] = times[m + i - 1]
      BY <1>0, <2>5, <2>6, <2>7, <2>8
    <3>2. times[m] <= times[m + i - 1]
      BY <3>1 DEF Sorted
    <3>3. times[m] \in Nat /\ times[m + i - 1] \in Nat
      BY <3>1
    <3> QED
      BY <1>0, <2>5, <3>1, <3>2, <3>3
  <2>10. \A i \in 1..(m - 1) : times[i] < rateNow - Window
    <3> SUFFICES ASSUME NEW i \in 1..(m - 1) PROVE times[i] < rateNow - Window
      OBVIOUS
    <3>1. i \in DOMAIN times /\ ~ (m <= i)
      BY <1>0, <2>5
    <3>2. i \notin live
      BY <2>3, <3>1
    <3>3. times[i] \in Nat
      BY <3>1
    <3> QED
      BY <1>0, <3>1, <3>2, <3>3
  <2>11. m - 1 \in 0..n /\ Len(u) = n - (m - 1)
    BY <1>0, <2>5, <2>6
  <2> QED
    BY <2>6, <2>8, <2>9, <2>10, <2>11 DEF u, n
<1> QED
  BY <1>2, <1>3

(* The hits kept of a client are the last ones that passed, and what was       *)
(* dropped has expired: hence no more than requests pass in a window.  A       *)
(* client that was sent away came early because of a hit that will have        *)
(* expired when it is told to come back.                                       *)
Limited(h, p, retry, now) ==
    /\ h \in Seq(Nat) /\ p \in Seq(Nat) /\ retry \in Nat
    /\ Len(h) <= requests /\ Len(h) <= Len(p)
    /\ Sorted(p)
    /\ \A i \in DOMAIN p : p[i] <= now
    /\ \A i \in DOMAIN h : h[i] = p[Len(p) - Len(h) + i]
    /\ \A i \in 1..(Len(p) - Len(h)) : p[i] < now - Window
    /\ \A i \in DOMAIN p : i > requests => p[i - requests] + Window < p[i]
    /\ retry # 0 /\ Len(h) = requests => h[1] + Window < retry

RateInv ==
    /\ rateNow \in Nat
    /\ DOMAIN hits = Callers /\ DOMAIN passed = Callers /\ DOMAIN retryAt = Callers
    /\ \A c \in Callers : Limited(hits[c], passed[c], retryAt[c], rateNow)

(* The hits of a client are in the order they were let through. *)
LEMMA HitsSorted ==
    ASSUME NEW h, NEW p, NEW retry, NEW now, Limited(h, p, retry, now) PROVE Sorted(h)
<1> SUFFICES ASSUME NEW i \in DOMAIN h, NEW j \in DOMAIN h, i <= j PROVE h[i] <= h[j]
  BY DEF Sorted
<1>1. /\ Len(h) \in Nat /\ Len(p) \in Nat /\ Len(h) <= Len(p)
      /\ DOMAIN h = 1..Len(h) /\ DOMAIN p = 1..Len(p)
  <2>1. h \in Seq(Nat) /\ p \in Seq(Nat) /\ Len(h) <= Len(p)
    BY DEF Limited
  <2> QED
    BY <2>1
<1> DEFINE a == Len(p) - Len(h) + i
           b == Len(p) - Len(h) + j
<1>2. a \in DOMAIN p /\ b \in DOMAIN p /\ a <= b
  BY <1>1
<1>3. h[i] = p[a] /\ h[j] = p[b]
  BY DEF Limited
<1> HIDE DEF a, b
<1> QED
  BY <1>2, <1>3 DEF Limited, Sorted

(* Dropping the expired hits, of a caller or in the sweep, loses nothing. *)
LEMMA LimitedUnexpired ==
    ASSUME NEW h, NEW p, NEW retry, Limited(h, p, retry, rateNow), rateNow \in Nat
    PROVE  Limited(Limiter!Unexpired(h), p, retry, rateNow)
<1> DEFINE u == Limiter!Unexpired(h)
<1>0. h \in Seq(Nat) /\ p \in Seq(Nat)
  BY DEF Limited
<1>1. Sorted(h) /\ h \in Seq(Nat) /\ p \in Seq(Nat) /\ Len(h) \in Nat /\ Len(p) \in Nat /\ Window \in Nat
  <2>1. Sorted(h) /\ Window \in Nat
    BY HitsSorted, WindowIs
  <2> QED
    BY <1>0, <2>1
<1>2. PICK k \in 0..Len(h) :
         /\ Len(u) = Len(h) - k
         /\ \A i \in DOMAIN u : u[i] = h[k + i]
         /\ \A i \in 1..k : h[i] < rateNow - Window
  BY <1>1, UnexpiredIs
<1>3. u \in Seq(Nat)
  BY <1>1, UnexpiredIs
<1> HIDE DEF u
<1>4. /\ Len(u) \in Nat /\ DOMAIN u = 1..Len(u) /\ DOMAIN h = 1..Len(h) /\ DOMAIN p = 1..Len(p)
      /\ requests \in Nat \ {0} /\ k \in Nat /\ Len(h) <= requests /\ Len(h) <= Len(p)
  BY <1>1, <1>3, LimiterAssumption DEF Limited
<1>5. Len(u) <= requests /\ Len(u) <= Len(p)
  BY <1>1, <1>2, <1>4
<1>6. ASSUME NEW i \in DOMAIN u PROVE u[i] = p[Len(p) - Len(u) + i]
  <2>1. k + i \in DOMAIN h /\ u[i] = h[k + i]
    <3>1. i \in 1..Len(u) /\ Len(u) = Len(h) - k
      BY <1>2, <1>4
    <3>2. k + i \in 1..Len(h)
      <4>1. \A a, b, x \in Nat : \A y \in 1..b : b = a - x => x + y \in 1..a
        OBVIOUS
      <4> QED
        BY <1>1, <1>4, <3>1, <4>1
    <3> QED
      BY <1>2, <1>4, <3>2
  <2>2. h[k + i] = p[Len(p) - Len(h) + (k + i)]
    BY <2>1 DEF Limited
  <2>3. Len(p) - Len(h) + (k + i) = Len(p) - Len(u) + i
    BY <1>1, <1>2, <1>4
  <2> QED
    BY <2>1, <2>2, <2>3
<1>7. ASSUME NEW i \in 1..(Len(p) - Len(u)) PROVE p[i] < rateNow - Window
  <2>1. CASE i \in 1..(Len(p) - Len(h))
    BY <2>1 DEF Limited
  <2>2. CASE i \notin 1..(Len(p) - Len(h))
    <3> DEFINE j == i - (Len(p) - Len(h))
    <3>1. j \in 1..k /\ j \in DOMAIN h /\ Len(p) - Len(h) + j = i
      BY <1>1, <1>2, <1>4, <2>2
    <3>2. h[j] = p[Len(p) - Len(h) + j]
      BY <3>1 DEF Limited
    <3>3. h[j] < rateNow - Window
      BY <1>2, <3>1
    <3> HIDE DEF j
    <3> QED
      BY <3>1, <3>2, <3>3
  <2> QED
    BY <2>1, <2>2
<1>8. ASSUME retry # 0, Len(u) = requests PROVE u[1] + Window < retry
  <2>1. k = 0 /\ Len(h) = requests /\ 1 \in DOMAIN u
    BY <1>1, <1>2, <1>4, <1>8
  <2>2. u[1] = h[1]
    BY <1>2, <2>1
  <2> QED
    BY <1>8, <2>1, <2>2 DEF Limited
<1> QED
  BY <1>3, <1>5, <1>6, <1>7, <1>8 DEF Limited, u

(* Retry-After, in whole seconds, is past the expiry of the oldest hit. *)
LEMMA RetryIsLate ==
    ASSUME NEW oldest \in Nat, rateNow \in Nat
    PROVE  LET at == rateNow + Limiter!retry_after(oldest) * TicksPerSecond
           IN at \in Nat /\ oldest + Window < at
<1> DEFINE a == oldest + Window - rateNow
           seconds == a \div TicksPerSecond + 1
           s == IF seconds < 1 THEN 1 ELSE seconds
<1>1. Window \in Nat /\ a \in Int /\ TicksPerSecond \in Nat \ {0}
  BY WindowIs, LimiterAssumption
<1>2. Limiter!retry_after(oldest) = s
  BY WindowIs DEF Limiter!retry_after
<1>3. seconds \in Int /\ a < seconds * TicksPerSecond
  <2> HIDE DEF a
  <2>1. a \div TicksPerSecond \in Int
    BY <1>1
  <2>2. a < (a \div TicksPerSecond + 1) * TicksPerSecond
    BY <1>1
  <2> QED
    BY <2>1, <2>2
<1> HIDE DEF seconds
<1>4. s \in Nat \ {0} /\ seconds <= s
  BY <1>3
<1> HIDE DEF s
<1>5. seconds * TicksPerSecond <= s * TicksPerSecond /\ s * TicksPerSecond \in Nat
  <2>1. \A x, y \in Int, z \in Nat : x <= y => x * z <= y * z
    OBVIOUS
  <2>2. \A y, z \in Nat : y * z \in Nat
    OBVIOUS
  <2> QED
    BY <1>1, <1>3, <1>4, <2>1, <2>2
<1>6. a < s * TicksPerSecond
  <2> DEFINE x == seconds * TicksPerSecond
             y == s * TicksPerSecond
  <2>1. x \in Int /\ y \in Int /\ x <= y /\ a < x /\ a \in Int
    BY <1>1, <1>3, <1>5
  <2> HIDE DEF x, y, a
  <2>2. a < y
    BY <2>1
  <2> QED
    BY <2>2 DEF y
<1>7. rateNow + s * TicksPerSecond \in Nat /\ oldest + Window < rateNow + s * TicksPerSecond
  <2> DEFINE y == s * TicksPerSecond
  <2>1. y \in Nat /\ oldest + Window - rateNow < y
    BY <1>5, <1>6
  <2> HIDE DEF y
  <2>2. rateNow + y \in Nat /\ oldest + Window < rateNow + y
    BY <1>1, <2>1
  <2> QED
    BY <2>2 DEF y
<1> QED
  BY <1>2, <1>7

(* A request let through is the last hit of its client, and the one "requests" *)
(* before it has been dropped as expired.                                      *)
LEMMA LetThrough ==
    ASSUME NEW h, NEW p, NEW retry, NEW now \in Nat, Limited(h, p, retry, now), Len(h) < requests
    PROVE  Limited(Append(h, now), Append(p, now), 0, now)
<1> DEFINE k == Len(h)
           n == Len(p)
           g == Append(h, now)
           q == Append(p, now)
<1>0. h \in Seq(Nat) /\ p \in Seq(Nat)
  BY DEF Limited
<1>1. /\ g \in Seq(Nat) /\ Len(g) = k + 1 /\ DOMAIN g = 1..(k + 1)
      /\ g[k + 1] = now /\ \A i \in 1..k : g[i] = h[i]
  BY <1>0
<1>2. /\ q \in Seq(Nat) /\ Len(q) = n + 1 /\ DOMAIN q = 1..(n + 1)
      /\ q[n + 1] = now /\ \A i \in 1..n : q[i] = p[i]
  BY <1>0
<1>3. /\ k \in Nat /\ n \in Nat /\ DOMAIN h = 1..k /\ DOMAIN p = 1..n
      /\ Window \in Nat /\ requests \in Nat \ {0}
  BY <1>0, WindowIs, LimiterAssumption
<1>4. /\ k < requests /\ k <= n
      /\ \A i \in 1..n : p[i] <= now
      /\ \A i, j \in 1..n : i <= j => p[i] <= p[j]
      /\ \A i \in 1..k : h[i] = p[n - k + i]
      /\ \A i \in 1..(n - k) : p[i] < now - Window
      /\ \A i \in 1..n : i > requests => p[i - requests] + Window < p[i]
  BY <1>3 DEF Limited, Sorted
<1> HIDE DEF k, n, g, q
<1>5. Len(g) <= requests /\ Len(g) <= Len(q)
  BY <1>1, <1>2, <1>3, <1>4
<1>6. \A i \in DOMAIN q : q[i] <= now
  BY <1>2, <1>3, <1>4
<1>7. Sorted(q)
  <2> SUFFICES ASSUME NEW i \in 1..(n + 1), NEW j \in 1..(n + 1), i <= j PROVE q[i] <= q[j]
    BY <1>2 DEF Sorted
  <2>1. CASE j = n + 1
    BY <1>2, <1>6, <2>1
  <2>2. CASE j # n + 1
    <3>1. i \in 1..n /\ j \in 1..n
      BY <1>3, <2>2
    <3> QED
      BY <1>2, <1>4, <3>1
  <2> QED
    BY <2>1, <2>2
<1>8. ASSUME NEW i \in DOMAIN g PROVE g[i] = q[Len(q) - Len(g) + i]
  <2>1. Len(q) - Len(g) + i = n - k + i
    BY <1>1, <1>2, <1>3
  <2>2. CASE i = k + 1
    <3>1. n - k + i = n + 1
      BY <1>3, <2>2
    <3> QED
      BY <1>1, <1>2, <2>1, <2>2, <3>1
  <2>3. CASE i # k + 1
    <3>1. i \in 1..k /\ n - k + i \in 1..n
      BY <1>1, <1>3, <1>4, <2>3
    <3> QED
      BY <1>1, <1>2, <1>4, <2>1, <3>1
  <2> QED
    BY <2>2, <2>3
<1>9. ASSUME NEW i \in 1..(Len(q) - Len(g)) PROVE q[i] < now - Window
  <2>1. i \in 1..(n - k) /\ i \in 1..n
    BY <1>1, <1>2, <1>3, <1>4
  <2> QED
    BY <1>2, <1>4, <2>1
<1>10. ASSUME NEW i \in DOMAIN q, i > requests PROVE q[i - requests] + Window < q[i]
  <2>1. CASE i = n + 1
    <3>1. i - requests \in 1..(n - k) /\ i - requests \in 1..n
      BY <1>3, <1>4, <1>10, <2>1
    <3>2. q[i - requests] = p[i - requests] /\ q[i] = now
      BY <1>2, <2>1, <3>1
    <3>3. p[i - requests] < now - Window /\ p[i - requests] \in Nat
      BY <1>0, <1>3, <1>4, <3>1
    <3> QED
      BY <1>3, <3>2, <3>3
  <2>2. CASE i # n + 1
    <3>1. i \in 1..n /\ i - requests \in 1..n
      BY <1>2, <1>3, <1>10, <2>2
    <3> QED
      BY <1>2, <1>4, <1>10, <3>1
  <2> QED
    BY <2>1, <2>2
<1> QED
  BY <1>1, <1>2, <1>5, <1>6, <1>7, <1>8, <1>9, <1>10 DEF Limited, g, q

(* A client that is sent away keeps its hits, and is told when the oldest of   *)
(* them will have expired.                                                     *)
LEMMA SentAway ==
    ASSUME NEW h, NEW p, NEW retry, Limited(h, p, retry, rateNow), Len(h) >= requests, rateNow \in Nat
    PROVE  Limited(h, p, rateNow + Limiter!retry_after(h[1]) * TicksPerSecond, rateNow)
<1> DEFINE at == rateNow + Limiter!retry_after(h[1]) * TicksPerSecond
<1>1. h \in Seq(Nat)
  BY DEF Limited
<1>2. 1 \in DOMAIN h
  BY <1>1, LimiterAssumption
<1>3. h[1] \in Nat
  BY <1>1, <1>2
<1>4. at \in Nat /\ h[1] + Window < at
  BY <1>3, RetryIsLate
<1> HIDE DEF at
<1>5. Limited(h, p, at, rateNow)
  BY <1>4 DEF Limited
<1> QED
  BY <1>5 DEF at

(* What has expired stays expired. *)
LEMMA ClockGoesOn ==
    ASSUME NEW h, NEW p, NEW retry, NEW now \in Nat, Limited(h, p, retry, now)
    PROVE  Limited(h, p, retry, now + 1)
<1> DEFINE later == now + 1
<1>1. h \in Seq(Nat) /\ p \in Seq(Nat) /\ Window \in Nat /\ later \in Nat /\ now < later
  BY WindowIs DEF Limited
<1> HIDE DEF later
<1>2. \A i \in DOMAIN p : p[i] \in Nat
  BY <1>1
<1>3. \A i \in DOMAIN p : p[i] <= later
  <2> SUFFICES ASSUME NEW i \in DOMAIN p PROVE p[i] <= later
    OBVIOUS
  <2>1. p[i] <= now /\ p[i] \in Nat
    BY <1>2 DEF Limited
  <2> QED
    BY <1>1, <2>1
<1>4. \A i \in 1..(Len(p) - Len(h)) : p[i] < later - Window
  <2> SUFFICES ASSUME NEW i \in 1..(Len(p) - Len(h)) PROVE p[i] < later - Window
    OBVIOUS
  <2>1. p[i] < now - Window
    BY DEF Limited
  <2>2. i \in DOMAIN p
    BY <1>1
  <2> QED
    BY <1>1, <1>2, <2>1, <2>2
<1>5. Limited(h, p, retry, later)
  BY <1>3, <1>4 DEF Limited
<1> QED
  BY <1>5 DEF later

(* Every step of the middleware keeps every client limited. *)
LEMMA RateStep ==
    ASSUME RateInv, Limiter!Next PROVE RateInv'
<1> USE DEF RateInv
<1>1. CASE Limiter!Tick
  <2>1. UNCHANGED <<hits, passed, retryAt>> /\ rateNow' = rateNow + 1
    BY <1>1 DEF Limiter!Tick
  <2>2. \A c \in Callers : Limited(hits[c], passed[c], retryAt[c], rateNow + 1)
    BY ClockGoesOn
  <2>3. \A c \in Callers : Limited(hits[c], passed[c], retryAt[c], rateNow)'
    BY <2>1, <2>2 DEF Limited, Sorted
  <2> QED
    BY <2>1, <2>3
<1>2. ASSUME NEW c \in Callers, Limiter!Call(c) PROVE RateInv'
  <2> DEFINE swept  == Limiter!_sweep_expired
             kept   == swept.hits
             recent == Limiter!Unexpired(kept[c])
  <2>1. DOMAIN kept = Callers /\ \A d \in Callers : Limited(kept[d], passed[d], retryAt[d], rateNow)
    <3>1. CASE rateNow - lastSweep < Limiter!Window
      <4>1. kept = hits
        BY <3>1 DEF Limiter!_sweep_expired
      <4> QED
        BY <4>1
    <3>2. CASE ~ (rateNow - lastSweep < Limiter!Window)
      <4>1. kept = [d \in Callers |-> Limiter!Unexpired(hits[d])]
        BY <3>2 DEF Limiter!_sweep_expired
      <4>2. \A d \in Callers : Limited(Limiter!Unexpired(hits[d]), passed[d], retryAt[d], rateNow)
        BY LimitedUnexpired
      <4> HIDE DEF kept
      <4> QED
        BY <4>1, <4>2
    <3> QED
      BY <3>1, <3>2
  <2>2. Limited(recent, passed[c], retryAt[c], rateNow)
    <3> HIDE DEF kept
    <3> QED
      BY <2>1, LimitedUnexpired
  <2>3. /\ rateNow' = rateNow
        /\ IF Len(recent) >= requests
           THEN /\ hits' = [kept EXCEPT ![c] = recent]
                /\ retryAt' = [retryAt EXCEPT ![c] = rateNow + Limiter!retry_after(recent[1]) * TicksPerSecond]
                /\ UNCHANGED passed
           ELSE /\ hits' = [kept EXCEPT ![c] = Append(recent, rateNow)]
                /\ retryAt' = [retryAt EXCEPT ![c] = 0]
                /\ passed' = [passed EXCEPT ![c] = Append(@, rateNow)]
    BY <1>2 DEF Limiter!Call
  <2> HIDE DEF kept, recent
  <2>4. /\ DOMAIN hits' = Callers /\ DOMAIN passed' = Callers /\ DOMAIN retryAt' = Callers
        /\ \A d \in Callers \ {c} : hits'[d] = kept[d] /\ passed'[d] = passed[d] /\ retryAt'[d] = retryAt[d]
    BY <2>1, <2>3
  <2>5. Limited(hits'[c], passed'[c], retryAt'[c], rateNow)
    <3>1. CASE Len(recent) >= requests
      <4>1. /\ hits'[c] = recent /\ passed'[c] = passed[c]
            /\ retryAt'[c] = rateNow + Limiter!retry_after(recent[1]) * TicksPerSecond
        BY <2>1, <2>3, <3>1
      <4>2. Limited(recent, passed[c], rateNow + Limiter!retry_after(recent[1]) * TicksPerSecond, rateNow)
        BY <2>2, <3>1, SentAway
      <4> QED
        BY <4>1, <4>2
    <3>2. CASE ~ (Len(recent) >= requests)
      <4>1. /\ hits'[c] = Append(recent, rateNow) /\ passed'[c] = Append(passed[c], rateNow)
            /\ retryAt'[c] = 0
        BY <2>1, <2>3, <3>2
      <4>2. Len(recent) < requests
        <5>1. recent \in Seq(Nat)
          BY <2>2 DEF Limited
        <5>2. Len(recent) \in Nat /\ requests \in Nat
          BY <5>1, LimiterAssumption
        <5> QED
          BY <3>2, <5>2
      <4>3. Limited(Append(recent, rateNow), Append(passed[c], rateNow), 0, rateNow)
        BY <2>2, <4>2, LetThrough
      <4> QED
        BY <4>1, <4>3
    <3> QED
      BY <3>1, <3>2
  <2>6. \A d \in Callers : Limited(hits'[d], passed'[d], retryAt'[d], rateNow)
    BY <2>1, <2>4, <2>5
  <2>7. \A d \in Callers : Limited(hits[d], passed[d], retryAt[d], rateNow)'
    BY <2>3, <2>6 DEF Limited, Sorted
  <2> QED
    BY <2>3, <2>4, <2>7
<1> QED
  BY <1>1, <1>2 DEF Limiter!Next

(* No client has a hit at first. *)
LEMMA RateInit ==
    ASSUME Limiter!Init PROVE RateInv
<1>1. Window \in Nat /\ rateNow \in Nat /\ requests \in Nat
  BY WindowIs, LimiterAssumption DEF Limiter!Init
<1>2. \A c \in Callers : hits[c] = <<>> /\ passed[c] = <<>> /\ retryAt[c] = 0
  BY DEF Limiter!Init
<1>3. Limited(<<>>, <<>>, 0, rateNow)
  BY <1>1 DEF Limited, Sorted
<1>4. \A c \in Callers : Limited(hits[c], passed[c], retryAt[c], rateNow)
  BY <1>2, <1>3
<1> QED
  BY <1>1, <1>4 DEF Limiter!Init, RateInv

(* Two hits of a window are less than "requests" apart, so they fill at most   *)
(* an interval of that length.                                                 *)
LEMMA WindowHolds ==
    ASSUME NEW h, NEW p, NEW retry, NEW now \in Nat, Limited(h, p, retry, now), NEW t \in Nat
    PROVE  Cardinality({i \in DOMAIN p : p[i] \in t..(t + Window)}) <= requests
<1> DEFINE I == {i \in DOMAIN p : p[i] \in t..(t + Window)}
<1>1. /\ p \in Seq(Nat) /\ Len(p) \in Nat /\ DOMAIN p = 1..Len(p)
      /\ Window \in Nat /\ requests \in Nat \ {0}
  <2>1. p \in Seq(Nat)
    BY DEF Limited
  <2> QED
    BY <2>1, WindowIs, LimiterAssumption
<1>2. IsFiniteSet(I) /\ I \subseteq Int
  <2>1. I \subseteq 1..Len(p) /\ 1 \in Int /\ Len(p) \in Int
    BY <1>1
  <2> HIDE DEF I
  <2>2. IsFiniteSet(1..Len(p))
    BY <2>1, FS_Interval
  <2>3. IsFiniteSet(I)
    BY <2>1, <2>2, FS_Subset
  <2>4. I \subseteq Int
    BY <2>1
  <2> QED
    BY <2>3, <2>4
<1>3. CASE I = {}
  <2>1. Cardinality(I) = 0
    BY <1>3, FS_EmptySet
  <2>2. 0 <= requests
    BY <1>1
  <2> HIDE DEF I
  <2>3. Cardinality(I) <= requests
    BY <2>1, <2>2
  <2> QED
    BY <2>3 DEF I
<1>4. CASE I # {}
  <2>1. PICK m \in I : \A l \in I : m <= l
    BY <1>2, <1>4, LeastElement
  <2>2. I \subseteq m..(m + requests - 1)
    <3> SUFFICES ASSUME NEW i \in I, ~ (i <= m + requests - 1) PROVE FALSE
      BY <1>1, <1>2, <2>1
    <3>1. i \in 1..Len(p) /\ m \in 1..Len(p) /\ m <= i
      BY <1>1, <2>1
    <3>1a. Len(p) \in Nat /\ requests \in Nat \ {0} /\ Window \in Nat
      BY <1>1
    <3>2. i - requests \in 1..Len(p) /\ m <= i - requests /\ i > requests
      BY <3>1, <3>1a
    <3>3. p[m] <= p[i - requests] /\ p[i - requests] + Window < p[i]
      BY <1>1, <3>1, <3>2 DEF Limited, Sorted
    <3>4. p[m] \in Nat /\ p[i - requests] \in Nat /\ p[i] \in Nat
      <4>1. \A j \in 1..Len(p) : p[j] \in Nat
        BY <1>1
      <4> QED
        BY <3>1, <3>2, <4>1
    <3>5. t <= p[m] /\ p[i] <= t + Window
      OBVIOUS
    <3>6. \A a, b, c \in Nat : ~ (a <= b /\ b + Window < c /\ t <= a /\ c <= t + Window)
      BY <1>1
    <3> QED
      BY <3>3, <3>4, <3>5, <3>6
  <2>3. m \in Int /\ m + requests - 1 \in Int
    BY <1>1, <1>2
  <2> HIDE DEF I
  <2>4. IsFiniteSet(m..(m + requests - 1)) /\ Cardinality(m..(m + requests - 1)) = requests
    <3>1. /\ IsFiniteSet(m..(m + requests - 1))
          /\ Cardinality(m..(m + requests - 1)) =
                IF m > m + requests - 1 THEN 0 ELSE (m + requests - 1) - m + 1
      BY <2>3, FS_Interval
    <3>2. ~ (m > m + requests - 1) /\ (m + requests - 1) - m + 1 = requests
      BY <1>1, <2>3
    <3> QED
      BY <3>1, <3>2
  <2>5. Cardinality(I) <= Cardinality(m..(m + requests - 1))
    BY <2>2, <2>4, FS_Subset
  <2>6. Cardinality(I) <= requests
    BY <2>4, <2>5
  <2> QED
    BY <2>6 DEF I
<1> QED
  BY <1>3, <1>4

(* The two halves of RateFair. *)
LEMMA RateInvImplies ==
    ASSUME RateInv PROVE Limiter!RateFair
<1> SUFFICES ASSUME NEW c \in Callers
             PROVE  /\ \A t \in 0..rateNow :
                          Limiter!Cardinality({i \in DOMAIN passed[c] :
                              passed[c][i] \in t..(t + Limiter!Window)}) <= requests
                    /\ (retryAt[c] # 0 /\ rateNow >= retryAt[c]) =>
                          Len(Limiter!Unexpired(hits[c])) < requests
  BY DEF Limiter!RateFair
<1>1. Limited(hits[c], passed[c], retryAt[c], rateNow) /\ rateNow \in Nat
  BY DEF RateInv
<1>2. \A S : Limiter!Cardinality(S) = Cardinality(S)
  BY DEF Limiter!Cardinality, Cardinality
<1>3. \A t \in Nat : Cardinality({i \in DOMAIN passed[c] : passed[c][i] \in t..(t + Window)}) <= requests
  BY <1>1, WindowHolds
<1>4. \A t \in 0..rateNow :
          Limiter!Cardinality({i \in DOMAIN passed[c] :
              passed[c][i] \in t..(t + Limiter!Window)}) <= requests
  <2> SUFFICES ASSUME NEW t \in 0..rateNow
               PROVE Limiter!Cardinality({i \in DOMAIN passed[c] :
                         passed[c][i] \in t..(t + Limiter!Window)}) <= requests
    OBVIOUS
  <2>1. t \in Nat
    BY <1>1
  <2> QED
    BY <1>2, <1>3, <2>1, WindowIs
<1>5. ASSUME retryAt[c] # 0, rateNow >= retryAt[c] PROVE Len(Limiter!Unexpired(hits[c])) < requests
  <2> DEFINE u == Limiter!Unexpired(hits[c])
  <2>1. Limited(u, passed[c], retryAt[c], rateNow)
    BY <1>1, LimitedUnexpired
  <2>2. hits[c] \in Seq(Nat) /\ Sorted(hits[c])
    BY <1>1, HitsSorted DEF Limited
  <2>3. \A i \in DOMAIN u : u[i] >= rateNow - Window
    BY <1>1, <2>2, UnexpiredIs
  <2> HIDE DEF u
  <2>4. /\ u \in Seq(Nat) /\ Len(u) <= requests /\ retryAt[c] \in Nat
        /\ Len(u) = requests => u[1] + Window < retryAt[c]
    BY <1>5, <2>1 DEF Limited
  <2>5. Len(u) # requests
    <3> SUFFICES ASSUME Len(u) = requests PROVE FALSE
      OBVIOUS
    <3>1. 1 \in DOMAIN u
      BY <2>4, LimiterAssumption
    <3>2. u[1] \in Nat /\ u[1] >= rateNow - Window /\ u[1] + Window < retryAt[c] /\ Window \in Nat
      BY <2>3, <2>4, <3>1, WindowIs
    <3> QED
      BY <1>1, <1>5, <2>4, <3>2
  <2>6. Len(u) \in Nat /\ requests \in Nat
    BY <2>4, LimiterAssumption
  <2> QED
    BY <2>4, <2>5, <2>6 DEF u
<1> QED
  BY <1>4, <1>5

--------------------------------------------------------------------------------
(* ApiKeys *)
CacheEntry == [key : KeyHashes, expires : Nat]

(* How late a key was known to be active: until it was revoked, or until now. *)
ActiveUntil(revoked, now) ==
    [k \in KeyHashes |-> IF revoked[k] = Never THEN now ELSE revoked[k]]

(* The cache holds a key once, and for at most ttl longer than it was active. *)
Cached(s, until) ==
    /\ s \in Seq(CacheEntry)
    /\ \A i, j \in DOMAIN s : s[i].key = s[j].key => i = j
    /\ \A i \in DOMAIN s : s[i].expires <= until[s[i].key] + ttl

(* A request has a row, or an entry of the cache, that its key had when the    *)
(* request began.                                                              *)
Resolved(q, until, now) ==
    /\ DOMAIN q = {"key", "began", "found", "afterClear", "stage"}
    /\ q.key \in KeyHashes /\ q.began \in Nat /\ q.began <= now
    /\ q.stage \in {"query", "answered", "granted"}
    /\ q.stage = "answered" /\ q.found => q.began <= until[q.key]
    /\ q.stage = "granted" => q.began <= until[q.key] \/ q.began < until[q.key] + ttl

AuthInv ==
    /\ authNow \in Nat
    /\ DOMAIN revokedAt = KeyHashes
    /\ \A k \in KeyHashes : revokedAt[k] = Never \/ (revokedAt[k] \in Nat /\ revokedAt[k] <= authNow)
    /\ Cached(cache, ActiveUntil(revokedAt, authNow)) /\ Len(cache) <= max_entries
    /\ DOMAIN auth = Callers
    /\ \A r \in Callers : auth[r] # Idle => Resolved(auth[r], ActiveUntil(revokedAt, authNow), authNow)

(* RemoveAt takes one entry out and keeps the others in their order. *)
LEMMA RemoveAtIs ==
    ASSUME NEW S, NEW s \in Seq(S), NEW i \in DOMAIN s
    PROVE  LET t == Auth!RemoveAt(s, i)
           IN /\ t \in Seq(S) /\ Len(t) = Len(s) - 1
              /\ \A j \in DOMAIN t : t[j] = s[IF j < i THEN j ELSE j + 1]
<1> DEFINE n == Len(s)
           a == SubSeq(s, 1, i - 1)
           b == SubSeq(s, i + 1, n)
           t == a \o b
<1>1. n \in Nat /\ i \in 1..n /\ DOMAIN s = 1..n /\ \A j \in 1..n : s[j] \in S
  OBVIOUS
<1> HIDE DEF n
<1>2. a \in Seq(S) /\ Len(a) = i - 1 /\ \A j \in 1..(i - 1) : a[j] = s[j]
  <2>1. 1 \in Int /\ i - 1 \in Int /\ \A j \in 1..(i - 1) : s[j] \in S
    BY <1>1
  <2>2. /\ a \in Seq(S) /\ Len(a) = IF 1 <= i - 1 THEN (i - 1) - 1 + 1 ELSE 0
        /\ \A j \in 1..((i - 1) - 1 + 1) : a[j] = s[1 + j - 1]
    BY <2>1, SubSeqProperties
  <2> HIDE DEF a
  <2>3. (i - 1) - 1 + 1 = i - 1 /\ (~ (1 <= i - 1) => i - 1 = 0)
    BY <1>1
  <2>4. Len(a) = i - 1
    BY <2>2, <2>3
  <2>5. ASSUME NEW j \in 1..(i - 1) PROVE a[j] = s[j]
    <3>1. 1 + j - 1 = j
      OBVIOUS
    <3> QED
      BY <2>2, <2>3, <3>1
  <2> QED
    BY <2>2, <2>4, <2>5
<1>3. b \in Seq(S) /\ Len(b) = n - i /\ \A j \in 1..(n - i) : b[j] = s[i + j]
  <2>1. i + 1 \in Int /\ n \in Int /\ \A j \in (i + 1)..n : s[j] \in S
    BY <1>1
  <2>2. /\ b \in Seq(S) /\ Len(b) = IF i + 1 <= n THEN n - (i + 1) + 1 ELSE 0
        /\ \A j \in 1..(n - (i + 1) + 1) : b[j] = s[(i + 1) + j - 1]
    BY <2>1, SubSeqProperties
  <2> HIDE DEF b
  <2>3. n - (i + 1) + 1 = n - i /\ (~ (i + 1 <= n) => n - i = 0)
    BY <1>1
  <2>4. Len(b) = n - i
    BY <2>2, <2>3
  <2>5. ASSUME NEW j \in 1..(n - i) PROVE b[j] = s[i + j]
    <3>1. (i + 1) + j - 1 = i + j
      BY <1>1
    <3> QED
      BY <2>2, <2>3, <3>1
  <2> QED
    BY <2>2, <2>4, <2>5
<1> HIDE DEF a, b
<1>4. /\ t \in Seq(S) /\ Len(t) = Len(a) + Len(b)
      /\ \A j \in 1..(Len(a) + Len(b)) : t[j] = IF j <= Len(a) THEN a[j] ELSE b[j - Len(a)]
  BY <1>2, <1>3, ConcatProperties
<1>5. Auth!RemoveAt(s, i) = t
  BY DEF Auth!RemoveAt, a, b, n
<1> HIDE DEF t
<1>6. Len(t) = n - 1 /\ DOMAIN t = 1..(n - 1)
  BY <1>1, <1>2, <1>3, <1>4
<1>7. ASSUME NEW j \in DOMAIN t PROVE t[j] = s[IF j < i THEN j ELSE j + 1]
  <2>1. j \in 1..(n - 1) /\ j \in 1..(Len(a) + Len(b))
    BY <1>1, <1>2, <1>3, <1>6
  <2>2. CASE j < i
    <3>1. j <= Len(a) /\ j \in 1..(i - 1)
      BY <1>1, <1>2, <2>1, <2>2
    <3> QED
      BY <1>2, <1>4, <2>1, <2>2, <3>1
  <2>3. CASE ~ (j < i)
    <3>1. ~ (j <= Len(a)) /\ j - Len(a) \in 1..(n - i) /\ i + (j - Len(a)) = j + 1
      BY <1>1, <1>2, <2>1, <2>3
    <3> QED
      BY <1>3, <1>4, <2>1, <2>3, <3>1
  <2> QED
    BY <2>2, <2>3
<1> QED
  BY <1>4, <1>5, <1>6, <1>7 DEF n

(* Taking a key out of the cache leaves the others. *)
LEMMA CachedWithout ==
    ASSUME NEW until, NEW k \in KeyHashes, Cached(cache, until)
    PROVE  LET t == Auth!Without(k)
           IN /\ Cached(t, until)
              /\ \A i \in DOMAIN t : t[i].key # k
              /\ Len(t) = IF Auth!Position(k) = {} THEN Len(cache) ELSE Len(cache) - 1
<1>1. cache \in Seq(CacheEntry)
  BY DEF Cached
<1>2. CASE Auth!Position(k) = {}
  <2>1. Auth!Without(k) = cache
    BY <1>2 DEF Auth!Without
  <2>2. \A i \in DOMAIN cache : cache[i].key # k
    BY <1>2 DEF Auth!Position
  <2> QED
    BY <1>2, <2>1, <2>2
<1>3. CASE Auth!Position(k) # {}
  <2> DEFINE p == CHOOSE i \in Auth!Position(k) : TRUE
             t == Auth!RemoveAt(cache, p)
  <2>1. p \in DOMAIN cache /\ cache[p].key = k
    BY <1>3 DEF Auth!Position
  <2>2. Auth!Without(k) = t
    BY <1>3 DEF Auth!Without
  <2> HIDE DEF p
  <2>3. /\ t \in Seq(CacheEntry) /\ Len(t) = Len(cache) - 1
        /\ \A j \in DOMAIN t : t[j] = cache[IF j < p THEN j ELSE j + 1]
    BY <1>1, <2>1, RemoveAtIs
  <2> HIDE DEF t
  <2> DEFINE old(j) == IF j < p THEN j ELSE j + 1
  <2>4. \A j \in DOMAIN t : old(j) \in DOMAIN cache /\ old(j) # p /\ t[j] = cache[old(j)]
    <3>1. /\ Len(cache) \in Nat /\ DOMAIN cache = 1..Len(cache)
          /\ DOMAIN t = 1..(Len(cache) - 1) /\ p \in 1..Len(cache)
      BY <1>1, <2>1, <2>3
    <3> QED
      BY <2>3, <3>1
  <2>5. \A i, j \in DOMAIN t : old(i) = old(j) => i = j
    <3>1. DOMAIN t \subseteq Nat /\ p \in Nat
      BY <1>1, <2>1, <2>3
    <3> QED
      BY <3>1
  <2> HIDE DEF old
  <2>6. \A i \in DOMAIN t : t[i].key # k
    BY <2>1, <2>4 DEF Cached
  <2>7. \A i, j \in DOMAIN t : t[i].key = t[j].key => i = j
    BY <2>4, <2>5 DEF Cached
  <2>8. \A i \in DOMAIN t : t[i].expires <= until[t[i].key] + ttl
    BY <2>4 DEF Cached
  <2> QED
    BY <1>3, <2>2, <2>3, <2>6, <2>7, <2>8 DEF Cached
<1> QED
  BY <1>2, <1>3

(* An entry of a key that the cache does not hold may be put last. *)
LEMMA CachedAppend ==
    ASSUME NEW until, NEW t, NEW e \in CacheEntry, Cached(t, until),
           \A i \in DOMAIN t : t[i].key # e.key, e.expires <= until[e.key] + ttl
    PROVE  Cached(Append(t, e), until) /\ Len(Append(t, e)) = Len(t) + 1
<1>1. t \in Seq(CacheEntry)
  BY DEF Cached
<1> DEFINE n == Len(t)
           u == Append(t, e)
<1>2. /\ u \in Seq(CacheEntry) /\ Len(u) = n + 1 /\ n \in Nat /\ DOMAIN t = 1..n
      /\ DOMAIN u = 1..(n + 1) /\ u[n + 1] = e /\ \A i \in 1..n : u[i] = t[i]
  BY <1>1
<1> HIDE DEF u, n
<1>3. \A i \in DOMAIN u : (i \in DOMAIN t /\ u[i] = t[i]) \/ (i = n + 1 /\ u[i] = e)
  BY <1>2
<1>4. \A i, j \in DOMAIN u : u[i].key = u[j].key => i = j
  BY <1>3 DEF Cached
<1>5. \A i \in DOMAIN u : u[i].expires <= until[u[i].key] + ttl
  BY <1>3 DEF Cached
<1> QED
  BY <1>2, <1>4, <1>5 DEF Cached, u, n

(* The least recently used entry may give way. *)
LEMMA CachedTail ==
    ASSUME NEW until, NEW t, Cached(t, until), t # <<>>
    PROVE  Cached(Tail(t), until) /\ Len(Tail(t)) = Len(t) - 1
<1>1. t \in Seq(CacheEntry)
  BY DEF Cached
<1> DEFINE u == Tail(t)
<1>2. u \in Seq(CacheEntry) /\ Len(u) = Len(t) - 1 /\ \A i \in 1..Len(u) : u[i] = t[i + 1]
  BY <1>1, HeadTailProperties
<1> HIDE DEF u
<1>3. \A i \in DOMAIN u : i \in Nat /\ i + 1 \in DOMAIN t /\ u[i] = t[i + 1]
  <2>1. Len(t) \in Nat /\ DOMAIN t = 1..Len(t) /\ DOMAIN u = 1..(Len(t) - 1) /\ Len(u) = Len(t) - 1
    BY <1>1, <1>2
  <2> QED
    BY <1>2, <2>1
<1>4. \A i, j \in DOMAIN u : u[i].key = u[j].key => i = j
  <2> SUFFICES ASSUME NEW i \in DOMAIN u, NEW j \in DOMAIN u, u[i].key = u[j].key PROVE i = j
    OBVIOUS
  <2>1. i + 1 = j + 1
    BY <1>3 DEF Cached
  <2> QED
    BY <1>3, <2>1
<1>5. \A i \in DOMAIN u : u[i].expires <= until[u[i].key] + ttl
  BY <1>3 DEF Cached
<1> QED
  BY <1>2, <1>4, <1>5 DEF Cached, u

(* ActiveUntil, by whether the key is active. *)
LEMMA UntilIs ==
    ASSUME AuthInv
    PROVE  \A k \in KeyHashes :
              LET until == ActiveUntil(revokedAt, authNow)
              IN /\ until[k] \in Nat /\ until[k] <= authNow
                 /\ Auth!IsActive(k) => until[k] = authNow
                 /\ ~ Auth!IsActive(k) => until[k] = revokedAt[k]
BY AuthAssumption DEF AuthInv, ActiveUntil, Auth!IsActive

(* Keys stay active until later, never until earlier. *)
LEMMA UntilGrows ==
    ASSUME NEW s, NEW now \in Nat, NEW at \in Nat, now <= at,
           NEW before \in [KeyHashes -> Nat], NEW until \in [KeyHashes -> Nat],
           \A k \in KeyHashes : before[k] <= until[k]
    PROVE  /\ Cached(s, before) => Cached(s, until)
           /\ \A q : Resolved(q, before, now) => Resolved(q, until, at)
<1>1. ttl \in Nat
  BY AuthAssumption
<1>2. \A k \in KeyHashes : before[k] \in Nat /\ until[k] \in Nat
  OBVIOUS
<1>3. ASSUME Cached(s, before) PROVE Cached(s, until)
  <2>1. s \in Seq(CacheEntry)
    BY <1>3 DEF Cached
  <2>2. \A i \in DOMAIN s : s[i].key \in KeyHashes /\ s[i].expires \in Nat
    <3>1. \A i \in DOMAIN s : s[i] \in CacheEntry
      BY <2>1
    <3> QED
      BY <3>1 DEF CacheEntry
  <2>3. \A i \in DOMAIN s : s[i].expires <= before[s[i].key] + ttl
    BY <1>3 DEF Cached
  <2>4. \A i \in DOMAIN s : s[i].expires <= until[s[i].key] + ttl
    BY <1>1, <1>2, <2>2, <2>3
  <2> QED
    BY <1>3, <2>4 DEF Cached
<1>4. ASSUME NEW q, Resolved(q, before, now) PROVE Resolved(q, until, at)
  <2>1. q.key \in KeyHashes /\ q.began \in Nat /\ q.began <= now
    BY <1>4 DEF Resolved
  <2>2. q.began <= at
    BY <2>1
  <2>3. q.began <= before[q.key] => q.began <= until[q.key]
    BY <1>2, <2>1
  <2>4. q.began < before[q.key] + ttl => q.began < until[q.key] + ttl
    BY <1>1, <1>2, <2>1
  <2> QED
    BY <1>4, <2>1, <2>2, <2>3, <2>4 DEF Resolved
<1> QED
  BY <1>3, <1>4

(* A hit moves its entry; the entry says how long the key was active. *)
LEMMA GetCached ==
    ASSUME NEW until, NEW k \in KeyHashes, Cached(cache, until), Len(cache) <= max_entries,
           authNow \in Nat, until[k] \in Nat
    PROVE  LET cached == Auth!_get_cached_api_key(k)
           IN /\ Cached(cached.cache, until)
              /\ Len(cached.cache) <= max_entries
              /\ cached.hit => authNow < until[k] + ttl
<1> DEFINE cached == Auth!_get_cached_api_key(k)
           valid  == {e \in Auth!Entry(k) : e.expires > authNow}
           rest   == Auth!Without(k)
<1>1. cached.hit = (valid # {}) /\ cached.cache = IF valid = {} THEN rest ELSE Append(rest, CHOOSE e \in valid : TRUE)
  BY DEF Auth!_get_cached_api_key
<1>2. /\ Cached(rest, until)
      /\ \A i \in DOMAIN rest : rest[i].key # k
      /\ Len(rest) = IF Auth!Position(k) = {} THEN Len(cache) ELSE Len(cache) - 1
  BY CachedWithout
<1>3. cache \in Seq(CacheEntry) /\ Len(cache) \in Nat /\ max_entries \in Nat
  <2>1. cache \in Seq(CacheEntry)
    BY DEF Cached
  <2> QED
    BY <2>1, AuthAssumption
<1> HIDE DEF cached, rest
<1>4. CASE valid = {}
  <2>1. Len(rest) <= max_entries
    BY <1>2, <1>3
  <2> QED
    BY <1>1, <1>2, <1>4, <2>1 DEF cached
<1>5. CASE valid # {}
  <2> DEFINE e == CHOOSE x \in valid : TRUE
  <2>1. e \in valid
    BY <1>5
  <2>2. PICK i \in Auth!Position(k) : e = cache[i]
    BY <2>1 DEF Auth!Entry
  <2> HIDE DEF e
  <2>3. i \in DOMAIN cache /\ cache[i].key = k /\ Auth!Position(k) # {} /\ e.expires > authNow
    BY <2>1, <2>2 DEF Auth!Position
  <2>4. e \in CacheEntry /\ e.key = k /\ e.expires <= until[k] + ttl
    BY <1>3, <2>2, <2>3 DEF Cached
  <2>5. Cached(Append(rest, e), until) /\ Len(Append(rest, e)) = Len(rest) + 1
    BY <1>2, <2>4, CachedAppend
  <2>6. cached.cache = Append(rest, e)
    BY <1>1, <1>5 DEF e
  <2>7. Len(rest) + 1 = Len(cache)
    BY <1>2, <1>3, <2>3
  <2>8. Len(cached.cache) <= max_entries
    BY <2>5, <2>6, <2>7
  <2>9. authNow < until[k] + ttl
    <3>1. e.expires \in Nat /\ ttl \in Nat
      BY <2>4, AuthAssumption DEF CacheEntry
    <3> QED
      BY <2>3, <2>4, <3>1
  <2> QED
    BY <2>5, <2>6, <2>8, <2>9 DEF cached
<1> QED
  BY <1>4, <1>5 DEF cached

(* The row is cached from when the request began; the oldest entry gives way. *)
LEMMA CacheKey ==
    ASSUME NEW until, NEW k \in KeyHashes, NEW began \in Nat, Cached(cache, until),
           Len(cache) <= max_entries, until[k] \in Nat, began <= until[k]
    PROVE  LET s == Auth!_cache_api_key(k, began)
           IN Cached(s, until) /\ Len(s) <= max_entries
<1> DEFINE rest   == Auth!Without(k)
           e      == [key |-> k, expires |-> began + ttl]
           longer == Append(rest, e)
           s      == Auth!_cache_api_key(k, began)
<1>1. s = IF ttl <= 0 THEN cache
          ELSE IF Len(longer) > max_entries THEN Tail(longer) ELSE longer
  BY DEF Auth!_cache_api_key
<1>2. /\ Cached(rest, until)
      /\ \A i \in DOMAIN rest : rest[i].key # k
      /\ Len(rest) = IF Auth!Position(k) = {} THEN Len(cache) ELSE Len(cache) - 1
  BY CachedWithout
<1>3. Len(cache) \in Nat /\ max_entries \in Nat \ {0} /\ ttl \in Nat
  <2>1. cache \in Seq(CacheEntry)
    BY DEF Cached
  <2> QED
    BY <2>1, AuthAssumption
<1>4. e \in CacheEntry /\ e.key = k /\ e.expires <= until[k] + ttl
  BY <1>3 DEF CacheEntry
<1> HIDE DEF rest, e, s
<1>5. Cached(longer, until) /\ Len(longer) = Len(rest) + 1
  BY <1>2, <1>4, CachedAppend
<1>6. Len(longer) <= max_entries + 1 /\ Len(longer) \in Int
  BY <1>2, <1>3, <1>5
<1> HIDE DEF longer
<1>7. CASE ttl <= 0
  BY <1>1, <1>7 DEF s
<1>8. CASE ~ (ttl <= 0) /\ Len(longer) > max_entries
  <2>1. s = Tail(longer)
    BY <1>1, <1>8
  <2>2. longer # <<>>
    BY <1>3, <1>8
  <2>3. Cached(Tail(longer), until) /\ Len(Tail(longer)) = Len(longer) - 1
    BY <1>5, <2>2, CachedTail
  <2>4. Len(Tail(longer)) <= max_entries
    BY <1>3, <1>6, <2>3
  <2> QED
    BY <2>1, <2>3, <2>4 DEF s
<1>9. CASE ~ (ttl <= 0) /\ ~ (Len(longer) > max_entries)
  <2>1. s = longer
    BY <1>1, <1>9
  <2>2. Len(longer) <= max_entries
    BY <1>3, <1>6, <1>9
  <2> QED
    BY <1>5, <2>1, <2>2 DEF s
<1> QED
  BY <1>7, <1>8, <1>9 DEF s

(* A step that leaves the clock and the table alone, and changes one request. *)
LEMMA OneRequest ==
    ASSUME AuthInv, UNCHANGED <<authNow, revokedAt>>, NEW r \in Callers, NEW q,
           Cached(cache', ActiveUntil(revokedAt, authNow)), Len(cache') <= max_entries,
           DOMAIN auth' = Callers, \A d \in Callers \ {r} : auth'[d] = auth[d], auth'[r] = q,
           q # Idle => Resolved(q, ActiveUntil(revokedAt, authNow), authNow)
    PROVE  AuthInv'
<1> DEFINE until == ActiveUntil(revokedAt, authNow)
<1>1. until' = until
  BY DEF ActiveUntil
<1>2. \A d \in Callers : auth'[d] # Idle => Resolved(auth'[d], until, authNow)
  BY DEF AuthInv
<1> HIDE DEF until
<1>3. Cached(cache, until)' /\ \A d \in Callers : auth'[d] # Idle => Resolved(auth[d], until, authNow)'
  BY <1>1, <1>2 DEF Cached, Resolved, CacheEntry, until
<1> QED
  BY <1>1, <1>3 DEF AuthInv, until

(* Every step of a request, of an operator and of the clock keeps AuthInv. *)
LEMMA AuthStep ==
    ASSUME AuthInv, Auth!Next PROVE AuthInv'
<1> DEFINE until == ActiveUntil(revokedAt, authNow)
           later == ActiveUntil(revokedAt', authNow')
<1>0. /\ authNow \in Nat /\ ttl \in Nat /\ until \in [KeyHashes -> Nat]
      /\ Cached(cache, until) /\ Len(cache) <= max_entries /\ DOMAIN auth = Callers
      /\ \A r \in Callers : auth[r] # Idle => Resolved(auth[r], until, authNow)
  <2>1. until \in [KeyHashes -> Nat]
    BY AuthAssumption DEF AuthInv, ActiveUntil
  <2> QED
    BY <2>1, AuthAssumption DEF AuthInv
<1>1. ASSUME UNCHANGED <<cache, auth>>, authNow' \in Nat, authNow <= authNow',
             DOMAIN revokedAt' = KeyHashes,
             \A k \in KeyHashes : \/ revokedAt'[k] = Never
                                  \/ revokedAt'[k] \in Nat /\ revokedAt'[k] <= authNow',
             \A k \in KeyHashes : until[k] <= later[k]
      PROVE  AuthInv'
  <2>1. later \in [KeyHashes -> Nat]
    BY <1>1, AuthAssumption DEF ActiveUntil
  <2> HIDE DEF until, later
  <2>2. Cached(cache, later) /\ \A q : Resolved(q, until, authNow) => Resolved(q, later, authNow')
    <3>1. \A now, at \in Nat : now <= at =>
              (Cached(cache, until) => Cached(cache, later)) /\ \A q : Resolved(q, until, now) => Resolved(q, later, at)
      BY <1>0, <1>1, <2>1, UntilGrows
    <3> QED
      BY <1>0, <1>1, <3>1
  <2>3. \A r \in Callers : auth[r] # Idle => Resolved(auth[r], later, authNow')
    BY <1>0, <2>2
  <2>4. later = ActiveUntil(revokedAt, authNow)'
    BY DEF later, ActiveUntil
  <2>5. Cached(cache, ActiveUntil(revokedAt, authNow))'
    BY <1>1, <2>2, <2>4 DEF Cached, CacheEntry
  <2>6. \A r \in Callers : auth'[r] # Idle => Resolved(auth[r], ActiveUntil(revokedAt, authNow), authNow)'
    BY <1>1, <2>3, <2>4 DEF Resolved
  <2> QED
    BY <1>0, <1>1, <2>5, <2>6 DEF AuthInv
<1>2. CASE Auth!Tick
  <2>1. UNCHANGED <<cache, auth, revokedAt>> /\ authNow' = authNow + 1
    BY <1>2 DEF Auth!Tick
  <2>2. \A k \in KeyHashes : until[k] <= later[k]
    BY <2>1, AuthAssumption DEF AuthInv, ActiveUntil
  <2>3. \A k \in KeyHashes : revokedAt'[k] = Never \/ (revokedAt'[k] \in Nat /\ revokedAt'[k] <= authNow')
    BY <2>1 DEF AuthInv
  <2>4. authNow' \in Nat /\ authNow <= authNow' /\ DOMAIN revokedAt' = KeyHashes
    BY <1>0, <2>1 DEF AuthInv
  <2> HIDE DEF until, later
  <2> QED
    BY <1>1, <2>1, <2>2, <2>3, <2>4
<1>3. ASSUME NEW k \in KeyHashes, Auth!RevokeKey(k) PROVE AuthInv'
  <2>1. /\ UNCHANGED <<cache, auth, authNow>> /\ revokedAt[k] = Never
        /\ revokedAt' = [revokedAt EXCEPT ![k] = authNow]
    BY <1>3 DEF Auth!RevokeKey, Auth!IsActive
  <2>2. DOMAIN revokedAt' = KeyHashes /\ revokedAt'[k] = authNow /\ \A j \in KeyHashes \ {k} : revokedAt'[j] = revokedAt[j]
    BY <2>1 DEF AuthInv
  <2>3. \A j \in KeyHashes : until[j] <= later[j]
    BY <1>0, <2>1, <2>2, AuthAssumption DEF AuthInv, ActiveUntil
  <2>4. \A j \in KeyHashes : revokedAt'[j] = Never \/ (revokedAt'[j] \in Nat /\ revokedAt'[j] <= authNow')
    BY <1>0, <2>1, <2>2 DEF AuthInv
  <2>5. authNow' \in Nat /\ authNow <= authNow'
    BY <1>0, <2>1
  <2> HIDE DEF until, later
  <2> QED
    BY <1>1, <2>1, <2>2, <2>3, <2>4, <2>5
<1>4. CASE Auth!clear_auth_cache
  <2>1. UNCHANGED <<authNow, revokedAt, auth>> /\ cache' = <<>>
    BY <1>4 DEF Auth!clear_auth_cache
  <2>2. Cached(<<>>, ActiveUntil(revokedAt', authNow')) /\ Len(<<>>) <= max_entries
    BY AuthAssumption DEF Cached
  <2>3. Cached(cache, ActiveUntil(revokedAt, authNow))' /\ Len(cache') <= max_entries
    BY <2>1, <2>2 DEF Cached, CacheEntry, ActiveUntil
  <2>4. \A r \in Callers : auth'[r] # Idle => Resolved(auth[r], ActiveUntil(revokedAt, authNow), authNow)'
    BY <1>0, <2>1 DEF Resolved, ActiveUntil
  <2> QED
    BY <2>1, <2>3, <2>4 DEF AuthInv
<1>5. ASSUME NEW r \in Callers, NEW k \in KeyHashes, Auth!Resolve(r, k) PROVE AuthInv'
  <2> DEFINE cached == Auth!_get_cached_api_key(k)
             q == [key |-> k, began |-> authNow, found |-> cached.hit, afterClear |-> k \in cleared,
                   stage |-> IF cached.hit THEN "granted" ELSE "query"]
  <2>1. /\ UNCHANGED <<authNow, revokedAt>> /\ cache' = cached.cache
        /\ auth' = [auth EXCEPT ![r] = q]
    BY <1>5 DEF Auth!Resolve
  <2>2. /\ Cached(cached.cache, until) /\ Len(cached.cache) <= max_entries
        /\ cached.hit => authNow < until[k] + ttl
    <3> HIDE DEF until
    <3> QED
      BY <1>0, GetCached
  <2> HIDE DEF cached, until
  <2>3. Resolved(q, until, authNow)
    BY <1>0, <2>2 DEF Resolved
  <2> HIDE DEF q
  <2>4. DOMAIN auth' = Callers /\ auth'[r] = q /\ \A d \in Callers \ {r} : auth'[d] = auth[d]
    BY <1>0, <2>1
  <2> QED
    BY <2>1, <2>2, <2>3, <2>4, OneRequest DEF until
<1>6. ASSUME NEW r \in Callers, Auth!SelectKey(r) PROVE AuthInv'
  <2> DEFINE k == auth[r].key
  <2>1. /\ UNCHANGED <<authNow, revokedAt, cache>> /\ auth[r] # Idle
        /\ auth' = [auth EXCEPT ![r].stage = "answered", ![r].found = Auth!IsActive(k)]
    BY <1>6 DEF Auth!SelectKey
  <2>2. Resolved(auth[r], until, authNow)
    BY <1>0, <2>1
  <2> DEFINE q == [auth[r] EXCEPT !.stage = "answered", !.found = Auth!IsActive(k)]
  <2>3. Auth!IsActive(k) => until[k] = authNow
    BY <2>2, UntilIs DEF Resolved
  <2> HIDE DEF until
  <2>4. Resolved(q, until, authNow)
    <3>1. /\ DOMAIN q = DOMAIN auth[r] /\ q.key = k /\ q.began = auth[r].began
          /\ q.stage = "answered" /\ q.found = Auth!IsActive(k)
      BY <2>2 DEF Resolved
    <3> HIDE DEF q
    <3> QED
      BY <2>2, <2>3, <3>1 DEF Resolved
  <2>5. DOMAIN auth' = Callers /\ auth'[r] = q /\ \A d \in Callers \ {r} : auth'[d] = auth[d]
    BY <1>0, <2>1
  <2>6. Cached(cache', until) /\ Len(cache') <= max_entries
    BY <1>0, <2>1
  <2> HIDE DEF q
  <2> QED
    BY <2>1, <2>4, <2>5, <2>6, OneRequest DEF until
<1>7. ASSUME NEW r \in Callers, Auth!Grant(r) PROVE AuthInv'
  <2> DEFINE k == auth[r].key
             began == auth[r].began
  <2>1. /\ UNCHANGED <<authNow, revokedAt>> /\ auth[r] # Idle /\ auth[r].stage = "answered" /\ auth[r].found
        /\ cache' = Auth!_cache_api_key(k, began)
        /\ auth' = [auth EXCEPT ![r].stage = "granted"]
    BY <1>7 DEF Auth!Grant
  <2>2. Resolved(auth[r], until, authNow)
    BY <1>0, <2>1
  <2>3. k \in KeyHashes /\ began \in Nat /\ began <= until[k] /\ until[k] \in Nat
    BY <1>0, <2>1, <2>2 DEF Resolved
  <2> DEFINE q == [auth[r] EXCEPT !.stage = "granted"]
  <2> HIDE DEF until
  <2>4. Cached(cache', until) /\ Len(cache') <= max_entries
    BY <1>0, <2>1, <2>3, CacheKey
  <2>5. Resolved(q, until, authNow)
    <3>1. /\ DOMAIN q = DOMAIN auth[r] /\ q.key = k /\ q.began = began /\ q.stage = "granted"
      BY <2>2 DEF Resolved
    <3> HIDE DEF q
    <3> QED
      BY <2>2, <2>3, <3>1 DEF Resolved
  <2>6. DOMAIN auth' = Callers /\ auth'[r] = q /\ \A d \in Callers \ {r} : auth'[d] = auth[d]
    BY <1>0, <2>1
  <2> HIDE DEF q
  <2> QED
    BY <2>1, <2>4, <2>5, <2>6, OneRequest DEF until
<1>8. ASSUME NEW r \in Callers, Auth!Deny(r) \/ Auth!Finish(r) PROVE AuthInv'
  <2>1. /\ UNCHANGED <<authNow, revokedAt>> /\ auth[r] # Idle
        /\ cache' = cache \/ cache' = Auth!Without(auth[r].key)
        /\ auth' = [auth EXCEPT ![r] = Idle]
    BY <1>8 DEF Auth!Deny, Auth!Finish
  <2>2. auth[r].key \in KeyHashes
    BY <1>0, <2>1 DEF Resolved
  <2> HIDE DEF until
  <2>3. Cached(cache', until) /\ Len(cache') <= max_entries
    <3>1. CASE cache' = cache
      BY <1>0, <3>1
    <3>2. CASE cache' = Auth!Without(auth[r].key)
      <4>1. /\ Cached(cache', until)
            /\ Len(cache') = Len(cache) \/ Len(cache') = Len(cache) - 1
        BY <1>0, <2>2, <3>2, CachedWithout
      <4>2. cache \in Seq(CacheEntry)
        BY <1>0 DEF Cached
      <4>3. Len(cache) \in Nat /\ max_entries \in Nat
        BY <4>2, AuthAssumption
      <4> QED
        BY <1>0, <4>1, <4>3
    <3> QED
      BY <2>1, <3>1, <3>2
  <2>4. DOMAIN auth' = Callers /\ auth'[r] = Idle /\ \A d \in Callers \ {r} : auth'[d] = auth[d]
    BY <1>0, <2>1
  <2> QED
    BY <2>1, <2>3, <2>4, OneRequest DEF until
<1> QED
  BY <1>2, <1>3, <1>4, <1>5, <1>6, <1>7, <1>8 DEF Auth!Next

(* The cache is empty at first. *)
LEMMA AuthInit ==
    ASSUME Auth!Init PROVE AuthInv
BY AuthAssumption DEF Auth!Init, AuthInv, Cached

(* RevocationBounded follows; the keys of the cache are counted by a bijection. *)
LEMMA AuthInvImplies ==
    ASSUME AuthInv PROVE Auth!RevocationBounded
<1> DEFINE until == ActiveUntil(revokedAt, authNow)
<1>1. ASSUME NEW r \in Auth!Granted, ~ Auth!IsActive(auth[r].key)
      PROVE  \/ auth[r].began <= revokedAt[auth[r].key]
             \/ auth[r].began < revokedAt[auth[r].key] + ttl
  <2>1. r \in Callers /\ auth[r] # Idle /\ auth[r].stage = "granted"
    BY DEF Auth!Granted
  <2>2. Resolved(auth[r], until, authNow)
    BY <2>1 DEF AuthInv
  <2>3. until[auth[r].key] = revokedAt[auth[r].key]
    BY <1>1, <2>2, UntilIs DEF Resolved
  <2> HIDE DEF until
  <2> QED
    BY <2>1, <2>2, <2>3 DEF Resolved
<1>2. Len(cache) <= max_entries
  BY DEF AuthInv
<1>3. Auth!Cardinality({cache[i].key : i \in DOMAIN cache}) = Len(cache)
  <2> DEFINE K == {cache[i].key : i \in DOMAIN cache}
             n == Len(cache)
             f == [i \in 1..n |-> cache[i].key]
  <2>1. cache \in Seq(CacheEntry)
    BY DEF AuthInv, Cached
  <2>2. n \in Nat /\ DOMAIN cache = 1..n
    BY <2>1
  <2>3. \A i, j \in 1..n : f[i] = f[j] => i = j
    BY <2>2 DEF AuthInv, Cached
  <2>4. \A x \in K : \E i \in 1..n : f[i] = x
    BY <2>2
  <2>5. f \in [1..n -> K]
    BY <2>2
  <2> HIDE DEF f, n, K
  <2>6. f \in Bijection(1..n, K)
    BY <2>3, <2>4, <2>5 DEF Bijection, Injection, Surjection, IsInjective
  <2>7. Cardinality(K) = n
    BY <2>2, <2>6, FS_CountingElements DEF ExistsBijection
  <2>8. Auth!Cardinality(K) = Cardinality(K)
    BY DEF Auth!Cardinality, Cardinality
  <2> QED
    BY <2>7, <2>8 DEF K, n
<1> QED
  BY <1>1, <1>2, <1>3 DEF Auth!RevocationBounded

--------------------------------------------------------------------------------
(* Tenancy: isolation *)
Mine(by, t) == by.tenant = t /\ by.role \in {"OWNER", "MEMBER"}

RowOf(row, t) == row.tenant = t /\ Mine(row.by, t)

SourceOf(row, sources) == \E s \in sources : s.tenant = row.tenant /\ s.name = row.source

(* The tables of TenantIsolation, with what the proof needs of their types. *)
Isolated(sources, runs, claims, reports, links, overlays) ==
    /\ \A row \in sources \cup claims \cup reports : RowOf(row, row.tenant)
    /\ DOMAIN runs = RunIds
    /\ \A r \in RunIds : runs[r] # NoRow =>
          runs[r] \in Evidence!Runs /\ RowOf(runs[r], runs[r].tenant) /\ SourceOf(runs[r], sources)
    /\ \A k \in DOMAIN overlays : overlays[k] # NoRow => Mine(overlays[k].by, k[1])
    /\ \A row \in claims :
          row.run \in RunIds /\ runs[row.run] # NoRow /\ runs[row.run].tenant = row.tenant
    /\ \A a \in links : \E r \in reports : r.id = a.report /\ r.tenant = a.tenant

(* What a request of tenant t has flushed may be committed at any later time. *)
SoundWrites(w, t, sources, runs) ==
    /\ \A row \in w.source \cup w.claim \cup w.report : RowOf(row, t)
    /\ w.run # NoRow =>
          /\ w.run[1] \in RunIds /\ w.run[2] \in Evidence!Runs
          /\ RowOf(w.run[2], t) /\ SourceOf(w.run[2], sources)
          /\ runs[w.run[1]] = NoRow \/ runs[w.run[1]].tenant = t
    /\ w.overlay # NoRow => w.overlay[1][1] = t /\ Mine(w.overlay[2].by, t)
    /\ \A row \in w.claim : row.run \in RunIds /\ runs[row.run] # NoRow /\ runs[row.run].tenant = t
    /\ \A a \in w.association : \E r \in w.report : r.id = a.report /\ r.tenant = a.tenant

(* A request was let in with the role the user had in the tenant of the path. *)
Presented(q) ==
    /\ DOMAIN q = {"user", "tenant", "role", "granted", "writes"}
    /\ q.user \in Users /\ q.tenant \in Tenants /\ q.role = q.granted

HasFlushed(q) == q # Idle /\ q.writes # NoRow

WritesRun(q, r) == HasFlushed(q) /\ q.writes.run # NoRow /\ q.writes.run[1] = r

TenancyInv ==
    /\ Isolated(source, run, claim, report, association, overlay)
    /\ DOMAIN request = Callers
    /\ \A c \in Callers : request[c] # Idle => Presented(request[c])
    /\ \A c \in Callers : HasFlushed(request[c]) =>
          SoundWrites(request[c].writes, request[c].tenant, source, run)
    /\ \A c, d \in Callers, r \in RunIds :
          c # d /\ WritesRun(request[c], r) /\ WritesRun(request[d], r) => run[r] # NoRow

(* The tables are empty at first. *)
LEMMA TenancyInit ==
    ASSUME Evidence!Init PROVE TenancyInv
BY DEF Evidence!Init, TenancyInv, Isolated, HasFlushed, WritesRun

(* A step that leaves the tables alone and ends or admits one request. *)
LEMMA OneCaller ==
    ASSUME TenancyInv, UNCHANGED <<source, run, claim, report, association, overlay>>,
           NEW c \in Callers, NEW q, DOMAIN request' = Callers, request'[c] = q,
           \A d \in Callers \ {c} : request'[d] = request[d],
           q # Idle => Presented(q),
           HasFlushed(q) => SoundWrites(q.writes, q.tenant, source, run),
           \A r \in RunIds, d \in Callers \ {c} :
              WritesRun(q, r) /\ WritesRun(request[d], r) => run[r] # NoRow
    PROVE  TenancyInv'
<1>1. Isolated(source, run, claim, report, association, overlay)'
  BY DEF TenancyInv, Isolated, RowOf, Mine, SourceOf
<1>2. \A d \in Callers : request'[d] # Idle => Presented(request'[d])
  BY DEF TenancyInv
<1>3. \A d \in Callers : HasFlushed(request'[d]) =>
          SoundWrites(request'[d].writes, request'[d].tenant, source, run)
  BY DEF TenancyInv
<1>4. \A e, d \in Callers, r \in RunIds :
          e # d /\ WritesRun(request'[e], r) /\ WritesRun(request'[d], r) => run[r] # NoRow
  BY DEF TenancyInv
<1>5. \A d \in Callers : HasFlushed(request'[d]) =>
          SoundWrites(request'[d].writes, request'[d].tenant, source', run')
  BY <1>3
<1> QED
  BY <1>1, <1>2, <1>4, <1>5 DEF TenancyInv

(* A use case that flushes sound writes, and no run that another is opening. *)
LEMMA FlushIsSound ==
    ASSUME TenancyInv, NEW c \in Callers, Evidence!Writing(c), NEW w, Evidence!Flush(c, w),
           SoundWrites(w, request[c].tenant, source, run),
           w.run # NoRow => \/ run[w.run[1]] # NoRow
                            \/ \A d \in Callers : ~ WritesRun(request[d], w.run[1])
    PROVE  TenancyInv'
<1>1. request[c] # Idle /\ Presented(request[c])
  BY DEF Evidence!Writing, TenancyInv
<1>2. /\ request' = [request EXCEPT ![c].writes = w]
      /\ UNCHANGED <<source, run, claim, report, association, overlay>>
  BY DEF Evidence!Flush, Evidence!tables
<1> DEFINE q == [request[c] EXCEPT !.writes = w]
<1>3. DOMAIN request' = Callers /\ request'[c] = q /\ \A d \in Callers \ {c} : request'[d] = request[d]
  BY <1>2 DEF TenancyInv
<1>4. /\ DOMAIN q = DOMAIN request[c] /\ q.writes = w /\ q.tenant = request[c].tenant
      /\ q.user = request[c].user /\ q.role = request[c].role /\ q.granted = request[c].granted
  BY <1>1 DEF Presented
<1> HIDE DEF q
<1>5. Presented(q)
  BY <1>1, <1>4 DEF Presented
<1>6. SoundWrites(q.writes, q.tenant, source, run)
  BY <1>4
<1>7. \A r \in RunIds, d \in Callers \ {c} :
         WritesRun(q, r) /\ WritesRun(request[d], r) => run[r] # NoRow
  BY <1>4 DEF WritesRun
<1> QED
  BY <1>2, <1>3, <1>5, <1>6, <1>7, OneCaller

(* What a use case writes in the name of its request. *)
LEMMA AuthorIsMine ==
    ASSUME TenancyInv, NEW c \in Callers, Evidence!Writing(c)
    PROVE  /\ request[c].tenant \in Tenants
           /\ Evidence!Author(c) \in Evidence!Authors
           /\ Mine(Evidence!Author(c), request[c].tenant)
BY DEF TenancyInv, Presented, Evidence!Writing, Evidence!_require_write_role, Evidence!Author,
       Evidence!Authors, Evidence!TenantRole, Mine

(* The policies: each use case flushes sound writes. *)
LEMMA RegisterIsSound ==
    ASSUME TenancyInv, NEW c \in Callers, NEW name \in Names, Evidence!register_source(c, name)
    PROVE  TenancyInv'
<1> DEFINE t == request[c].tenant
           row == [tenant |-> t, name |-> name, by |-> Evidence!Author(c)]
           w == [Evidence!NoWrites EXCEPT !.source = {row}]
<1>1. Evidence!Writing(c) /\ Evidence!Flush(c, w)
  BY DEF Evidence!register_source, Evidence!RegisterTenantSource
<1>2. RowOf(row, t)
  BY <1>1, AuthorIsMine DEF RowOf
<1>3. /\ w.source = {row} /\ w.run = NoRow /\ w.claim = {} /\ w.report = {} /\ w.association = {}
      /\ w.overlay = NoRow
  BY DEF Evidence!NoWrites
<1> HIDE DEF w, row
<1>4. SoundWrites(w, t, source, run)
  BY <1>2, <1>3 DEF SoundWrites
<1> QED
  BY <1>1, <1>3, <1>4, FlushIsSound

(* A run is opened on a source of the tenant, under an id no one else opens. *)
LEMMA OpenIsSound ==
    ASSUME TenancyInv, NEW c \in Callers, NEW r \in RunIds, NEW name \in Names,
           Evidence!open_ingestion_run(c, r, name)
    PROVE  TenancyInv'
<1> DEFINE t == request[c].tenant
           row == [tenant |-> t, source |-> name, status |-> "RUNNING", by |-> Evidence!Author(c)]
           w == [Evidence!NoWrites EXCEPT !.run = <<r, row>>]
<1>1. /\ Evidence!Writing(c) /\ Evidence!Flush(c, w) /\ run[r] = NoRow
      /\ \A d \in Evidence!Flushed : request[d].writes.run # NoRow => request[d].writes.run[1] # r
      /\ \E s \in Evidence!tenant_isolation(c, source) : s.name = name
  BY DEF Evidence!open_ingestion_run, Evidence!OpenTenantIngestionRun
<1>2. RowOf(row, t) /\ row \in Evidence!Runs
  BY <1>1, AuthorIsMine DEF RowOf, Evidence!Runs, Evidence!TenantIngestionRunStatus
<1>3. SourceOf(row, source)
  BY <1>1 DEF SourceOf, Evidence!tenant_isolation, Evidence!current_setting
<1>4. /\ w.source = {} /\ w.run = <<r, row>> /\ w.claim = {} /\ w.report = {} /\ w.association = {}
      /\ w.overlay = NoRow
  BY DEF Evidence!NoWrites
<1>5. \A d \in Callers : ~ WritesRun(request[d], r)
  BY <1>1 DEF WritesRun, HasFlushed, Evidence!Flushed
<1> HIDE DEF w, row
<1>6. SoundWrites(w, t, source, run)
  BY <1>1, <1>2, <1>3, <1>4 DEF SoundWrites
<1> QED
  BY <1>1, <1>4, <1>5, <1>6, FlushIsSound

(* The claims of a batch are of the request's tenant, and so is their run. *)
LEMMA BatchIsSound ==
    ASSUME TenancyInv, NEW c \in Callers, NEW r \in RunIds, NEW batch \in Batches,
           Evidence!submit_claims_batch(c, r, batch)
    PROVE  TenancyInv'
<1> DEFINE t == request[c].tenant
           n == Evidence!Cardinality(batch)
           rows == Evidence!add_many(c, r, batch)
           w == Evidence!Meter([Evidence!NoWrites EXCEPT !.claim = rows], "TENANT_CLAIM_INGESTED", n)
<1>1. /\ Evidence!Writing(c) /\ Evidence!Flush(c, w)
      /\ run[r] # NoRow /\ run[r].tenant = t
  BY DEF Evidence!submit_claims_batch, Evidence!SubmitTenantClaimsBatch, Evidence!OwnRun
<1>2. \A row \in rows : row.tenant = t /\ row.run = r /\ row.by = Evidence!Author(c)
  BY DEF Evidence!add_many
<1> HIDE DEF rows, n
<1>3. /\ w.source = {} /\ w.run = NoRow /\ w.claim = rows /\ w.report = {} /\ w.association = {}
      /\ w.overlay = NoRow
  BY DEF Evidence!NoWrites, Evidence!Meter
<1>4. \A row \in rows : RowOf(row, t)
  BY <1>1, <1>2, AuthorIsMine DEF RowOf
<1> HIDE DEF w
<1>5. SoundWrites(w, t, source, run)
  BY <1>1, <1>2, <1>3, <1>4 DEF SoundWrites
<1> QED
  BY <1>1, <1>3, <1>5, FlushIsSound

(* Completing a run changes its status only. *)
LEMMA CompleteIsSound ==
    ASSUME TenancyInv, NEW c \in Callers, NEW r \in RunIds, NEW status \in Evidence!TenantIngestionRunStatus,
           Evidence!complete_ingestion_run(c, r, status)
    PROVE  TenancyInv'
<1> DEFINE t == request[c].tenant
           row == [run[r] EXCEPT !.status = status]
           w == Evidence!Meter([Evidence!NoWrites EXCEPT !.run = Evidence!update_status(r, status)],
                               "TENANT_INGESTION_RUN_COMPLETED", 1)
<1>1. /\ Evidence!Writing(c) /\ Evidence!Flush(c, w)
      /\ run[r] # NoRow /\ run[r].tenant = t
  BY DEF Evidence!complete_ingestion_run, Evidence!CompleteTenantIngestionRun, Evidence!OwnRun
<1>2. run[r] \in Evidence!Runs /\ RowOf(run[r], t) /\ SourceOf(run[r], source)
  BY <1>1 DEF TenancyInv, Isolated
<1>3. row \in Evidence!Runs /\ row.tenant = run[r].tenant /\ row.by = run[r].by /\ row.source = run[r].source
  BY <1>2 DEF Evidence!Runs
<1>4. /\ w.source = {} /\ w.run = <<r, row>> /\ w.claim = {} /\ w.report = {} /\ w.association = {}
      /\ w.overlay = NoRow
  BY DEF Evidence!NoWrites, Evidence!Meter, Evidence!update_status
<1> HIDE DEF w, row
<1>5. RowOf(row, t) /\ SourceOf(row, source)
  BY <1>2, <1>3 DEF RowOf, SourceOf
<1>6. SoundWrites(w, t, source, run)
  BY <1>1, <1>3, <1>4, <1>5 DEF SoundWrites
<1> QED
  BY <1>1, <1>4, <1>6, FlushIsSound

(* A report is stored with its association. *)
LEMMA ReportIsSound ==
    ASSUME TenancyInv, NEW c \in Callers, NEW narrative, NEW attested, NEW event,
           Evidence!submit_safety_report(c, narrative, attested, event)
    PROVE  TenancyInv'
<1> DEFINE t == request[c].tenant
           row(id) == [id |-> id, tenant |-> t, text |-> Evidence!run_deidentification(narrative),
                       by |-> Evidence!Author(c)]
           links(id) == IF event = NoRow THEN {} ELSE {[tenant |-> t, event |-> event, report |-> id]}
           w(id) == Evidence!Meter([Evidence!NoWrites EXCEPT !.report = {row(id)}, !.association = links(id)],
                                   "TENANT_REPORT_FILED", 1)
<1>1. PICK id \in Evidence!NewReportIds(1) : Evidence!Writing(c) /\ Evidence!Flush(c, w(id))
  BY DEF Evidence!submit_safety_report, Evidence!SubmitTenantSafetyReport
<1>2. RowOf(row(id), t) /\ row(id).id = id
  BY <1>1, AuthorIsMine DEF RowOf
<1>3. \A a \in links(id) : a.report = id /\ a.tenant = t
  OBVIOUS
<1>4. /\ w(id).source = {} /\ w(id).run = NoRow /\ w(id).claim = {} /\ w(id).report = {row(id)}
      /\ w(id).association = links(id) /\ w(id).overlay = NoRow
  BY DEF Evidence!NoWrites, Evidence!Meter
<1> HIDE DEF w, row, links
<1>5. SoundWrites(w(id), t, source, run)
  BY <1>2, <1>3, <1>4 DEF SoundWrites, RowOf
<1> QED
  BY <1>1, <1>4, <1>5, FlushIsSound

(* An overlay is keyed by the tenant of the request. *)
LEMMA OverlayIsSound ==
    ASSUME TenancyInv, NEW c \in Callers, NEW event, NEW text, Evidence!upsert_event_overlay(c, event, text)
    PROVE  TenancyInv'
<1> DEFINE t == request[c].tenant
           row(now) == [text |-> text, at |-> now, by |-> Evidence!Author(c)]
           w(now) == [Evidence!NoWrites EXCEPT !.overlay = <<<<t, event>>, row(now)>>]
<1>1. PICK now \in {clock, clock + 1} : Evidence!Writing(c) /\ Evidence!Flush(c, w(now))
  BY DEF Evidence!upsert_event_overlay, Evidence!UpsertTenantEventOverlay, Evidence!upsert
<1>2. Mine(row(now).by, t)
  BY <1>1, AuthorIsMine
<1>3. /\ w(now).source = {} /\ w(now).run = NoRow /\ w(now).claim = {} /\ w(now).report = {}
      /\ w(now).association = {} /\ w(now).overlay = <<<<t, event>>, row(now)>>
  BY DEF Evidence!NoWrites
<1> HIDE DEF w, row
<1>4. SoundWrites(w(now), t, source, run)
  BY <1>2, <1>3 DEF SoundWrites
<1> QED
  BY <1>1, <1>3, <1>4, FlushIsSound

(* Runs and sources stay: what was sound remains so. *)
LEMMA SoundForGood ==
    ASSUME NEW w, NEW t, NEW sources, NEW later, NEW runs, NEW now,
           SoundWrites(w, t, sources, runs), sources \subseteq later,
           \A r \in RunIds : runs[r] # NoRow => now[r] # NoRow /\ now[r].tenant = runs[r].tenant,
           w.run # NoRow /\ runs[w.run[1]] = NoRow => now[w.run[1]] = NoRow
    PROVE  SoundWrites(w, t, later, now)
<1>1. w.run # NoRow => SourceOf(w.run[2], later)
  BY DEF SoundWrites, SourceOf
<1>2. w.run # NoRow => now[w.run[1]] = NoRow \/ now[w.run[1]].tenant = t
  BY DEF SoundWrites
<1>3. \A row \in w.claim : row.run \in RunIds /\ now[row.run] # NoRow /\ now[row.run].tenant = t
  BY DEF SoundWrites
<1> QED
  BY <1>1, <1>2, <1>3 DEF SoundWrites

(* Committing sound writes keeps the tables isolated and the others' writes sound. *)
LEMMA CommitIsSound ==
    ASSUME TenancyInv, NEW c \in Callers, Evidence!Commit(c)
    PROVE  TenancyInv'
<1> DEFINE w == request[c].writes
           t == request[c].tenant
<1>1. /\ request[c] # Idle /\ w # NoRow
      /\ source' = source \cup w.source
      /\ run' = IF w.run = NoRow THEN run ELSE [run EXCEPT ![w.run[1]] = w.run[2]]
      /\ claim' = claim \cup w.claim
      /\ report' = report \cup w.report
      /\ association' = association \cup w.association
      /\ overlay' = IF w.overlay = NoRow THEN overlay
                    ELSE [overlay EXCEPT ![w.overlay[1]] = w.overlay[2]]
      /\ request' = [request EXCEPT ![c] = Idle]
  BY DEF Evidence!Commit
<1>2. HasFlushed(request[c]) /\ SoundWrites(w, t, source, run)
  BY <1>1 DEF TenancyInv, HasFlushed
<1>3. DOMAIN request' = Callers /\ request'[c] = Idle /\ \A d \in Callers \ {c} : request'[d] = request[d]
  BY <1>1 DEF TenancyInv
<1> HIDE DEF w, t
<1>4. /\ DOMAIN run' = RunIds
      /\ \A r \in RunIds : run'[r] = run[r] \/ (w.run # NoRow /\ r = w.run[1] /\ run'[r] = w.run[2])
      /\ w.run # NoRow => run'[w.run[1]] = w.run[2]
  <2>1. DOMAIN run = RunIds /\ (w.run # NoRow => w.run[1] \in RunIds)
    BY <1>2 DEF TenancyInv, Isolated, SoundWrites
  <2> QED
    BY <1>1, <2>1
<1>5. NoRow \notin Evidence!Runs
  BY EvidenceAssumption
<1>6. \A r \in RunIds : run[r] # NoRow => run'[r] # NoRow /\ run'[r].tenant = run[r].tenant
  BY <1>2, <1>4, <1>5 DEF SoundWrites, RowOf
<1>7. Isolated(source', run', claim', report', association', overlay')
  <2>1. \A row \in source' \cup claim' \cup report' : RowOf(row, row.tenant)
    BY <1>1, <1>2 DEF TenancyInv, Isolated, SoundWrites, RowOf
  <2>2. \A r \in RunIds : run'[r] # NoRow =>
           run'[r] \in Evidence!Runs /\ RowOf(run'[r], run'[r].tenant) /\ SourceOf(run'[r], source')
    <3> SUFFICES ASSUME NEW r \in RunIds, run'[r] # NoRow
                 PROVE  run'[r] \in Evidence!Runs /\ RowOf(run'[r], run'[r].tenant) /\ SourceOf(run'[r], source)
      BY <1>1 DEF SourceOf
    <3>1. CASE run'[r] = run[r]
      BY <3>1 DEF TenancyInv, Isolated
    <3>2. CASE w.run # NoRow /\ run'[r] = w.run[2]
      BY <1>2, <3>2 DEF SoundWrites, RowOf
    <3> QED
      BY <1>4, <3>1, <3>2
  <2>3. \A k \in DOMAIN overlay' : overlay'[k] # NoRow => Mine(overlay'[k].by, k[1])
    <3>1. CASE w.overlay = NoRow
      BY <1>1, <3>1 DEF TenancyInv, Isolated
    <3>2. CASE w.overlay # NoRow
      <4>1. /\ DOMAIN overlay' = DOMAIN overlay
            /\ \A k \in DOMAIN overlay : overlay'[k] = overlay[k] \/ (k = w.overlay[1] /\ overlay'[k] = w.overlay[2])
        BY <1>1, <3>2
      <4>2. w.overlay[1][1] = t /\ Mine(w.overlay[2].by, t)
        BY <1>2, <3>2 DEF SoundWrites
      <4> QED
        BY <4>1, <4>2 DEF TenancyInv, Isolated
    <3> QED
      BY <3>1, <3>2
  <2>4. \A row \in claim' :
           row.run \in RunIds /\ run'[row.run] # NoRow /\ run'[row.run].tenant = row.tenant
    <3> SUFFICES ASSUME NEW row \in claim'
                 PROVE  row.run \in RunIds /\ run[row.run] # NoRow /\ run[row.run].tenant = row.tenant
      BY <1>6
    <3>1. CASE row \in claim
      BY <3>1 DEF TenancyInv, Isolated
    <3>2. CASE row \in w.claim
      BY <1>2, <3>2 DEF SoundWrites, RowOf
    <3> QED
      BY <1>1, <3>1, <3>2
  <2>5. \A a \in association' : \E r \in report' : r.id = a.report /\ r.tenant = a.tenant
    BY <1>1, <1>2 DEF TenancyInv, Isolated, SoundWrites
  <2> QED
    BY <1>4, <2>1, <2>2, <2>3, <2>4, <2>5 DEF Isolated
<1>8. ASSUME NEW d \in Callers, HasFlushed(request'[d])
      PROVE  SoundWrites(request'[d].writes, request'[d].tenant, source', run')
  <2>1. d # c /\ request'[d] = request[d]
    BY <1>3, <1>8 DEF HasFlushed
  <2> DEFINE v == request[d].writes
             s == request[d].tenant
  <2>2. SoundWrites(v, s, source, run)
    BY <1>8, <2>1 DEF TenancyInv
  <2>3. v.run # NoRow /\ run[v.run[1]] = NoRow => run'[v.run[1]] = NoRow
    <3> SUFFICES ASSUME v.run # NoRow, run[v.run[1]] = NoRow PROVE run'[v.run[1]] = NoRow
      OBVIOUS
    <3>1. v.run[1] \in RunIds /\ WritesRun(request[d], v.run[1])
      BY <1>8, <2>1, <2>2 DEF SoundWrites, WritesRun
    <3>2. ~ WritesRun(request[c], v.run[1])
      BY <2>1, <3>1 DEF TenancyInv
    <3>3. ~ (w.run # NoRow /\ v.run[1] = w.run[1])
      BY <1>2, <3>2 DEF WritesRun, w
    <3> QED
      BY <1>4, <3>1, <3>3
  <2>4. source \subseteq source'
    BY <1>1
  <2> HIDE DEF v, s
  <2>5. SoundWrites(v, s, source', run')
    BY <1>6, <2>2, <2>3, <2>4, SoundForGood
  <2> QED
    BY <2>1, <2>5 DEF v, s
<1>9. \A e, d \in Callers, r \in RunIds :
         e # d /\ WritesRun(request'[e], r) /\ WritesRun(request'[d], r) => run'[r] # NoRow
  <2> SUFFICES ASSUME NEW e \in Callers, NEW d \in Callers, NEW r \in RunIds, e # d,
                      WritesRun(request'[e], r), WritesRun(request'[d], r)
               PROVE  run'[r] # NoRow
    OBVIOUS
  <2>1. e # c /\ d # c
    BY <1>3 DEF WritesRun, HasFlushed
  <2>2. run[r] # NoRow
    BY <1>3, <2>1 DEF TenancyInv
  <2> QED
    BY <1>6, <2>2
<1>10. \A d \in Callers : request'[d] # Idle => Presented(request'[d])
  BY <1>3 DEF TenancyInv
<1> QED
  BY <1>3, <1>7, <1>8, <1>9, <1>10 DEF TenancyInv

(* Every step of a request, and every change around it. *)
LEMMA TenancyStep ==
    ASSUME TenancyInv, Evidence!Next PROVE TenancyInv'
<1>1. ASSUME UNCHANGED <<source, run, claim, report, association, overlay, request>> PROVE TenancyInv'
  BY <1>1 DEF TenancyInv, Isolated, RowOf, Mine, SourceOf
<1>2. ASSUME NEW x \in Changes, Evidence!ChangeMembership(x[1], x[2], x[3]) PROVE TenancyInv'
  BY <1>1, <1>2 DEF Evidence!ChangeMembership, Evidence!tables
<1>3. ASSUME NEW t \in Closing, Evidence!DeactivateTenant(t) PROVE TenancyInv'
  BY <1>1, <1>3 DEF Evidence!DeactivateTenant, Evidence!tables
<1>4. ASSUME NEW c \in Callers, NEW key \in ApiKeys, NEW t \in Tenants,
             Evidence!require_tenant_membership(c, key, t)
      PROVE  TenancyInv'
  <2> DEFINE q == [user |-> key.user, tenant |-> t, role |-> Evidence!get_for_user_in_tenant(key.user, t),
                   granted |-> member[<<key.user, t>>], writes |-> NoRow]
  <2>1. /\ UNCHANGED <<source, run, claim, report, association, overlay>>
        /\ request' = [request EXCEPT ![c] = q]
    BY <1>4 DEF Evidence!require_tenant_membership, Evidence!tables
  <2>2. Presented(q) /\ ~ HasFlushed(q)
    BY EvidenceAssumption DEF Presented, HasFlushed, Evidence!get_for_user_in_tenant
  <2> HIDE DEF q
  <2>3. DOMAIN request' = Callers /\ request'[c] = q /\ \A d \in Callers \ {c} : request'[d] = request[d]
    BY <2>1 DEF TenancyInv
  <2>4. \A r \in RunIds : ~ WritesRun(q, r)
    BY <2>2 DEF WritesRun
  <2> QED
    BY <2>1, <2>2, <2>3, <2>4, OneCaller
<1>5. ASSUME NEW c \in Callers, Evidence!RollBack(c) PROVE TenancyInv'
  <2>1. /\ UNCHANGED <<source, run, claim, report, association, overlay>>
        /\ request' = [request EXCEPT ![c] = Idle]
    BY <1>5 DEF Evidence!RollBack, Evidence!tables
  <2>2. DOMAIN request' = Callers /\ request'[c] = Idle /\ \A d \in Callers \ {c} : request'[d] = request[d]
    BY <2>1 DEF TenancyInv
  <2>3. ~ HasFlushed(Idle) /\ \A r \in RunIds : ~ WritesRun(Idle, r)
    BY DEF WritesRun, HasFlushed
  <2> QED
    BY <2>1, <2>2, <2>3, OneCaller
<1>6. ASSUME NEW c \in Callers, Evidence!Handle(c) PROVE TenancyInv'
  BY <1>6, RegisterIsSound, OpenIsSound, BatchIsSound, CompleteIsSound, ReportIsSound, OverlayIsSound
     DEF Evidence!Handle
<1>7. ASSUME NEW e \in Duplicates, Evidence!MergeDuplicateEvents(e) PROVE TenancyInv'
  BY <1>1, <1>7 DEF Evidence!MergeDuplicateEvents, Evidence!tables
<1>8. ASSUME NEW e \in Existing, Evidence!ReProjectEvent(e) PROVE TenancyInv'
  BY <1>1, <1>8 DEF Evidence!ReProjectEvent, Evidence!tables
<1>9. ASSUME Evidence!Read PROVE TenancyInv'
  BY <1>1, <1>9 DEF Evidence!Read, Evidence!list_events, Evidence!resolve_cursor, Evidence!next_page,
                    Evidence!tables
<1> QED
  BY <1>2, <1>3, <1>4, <1>5, <1>6, <1>7, <1>8, <1>9, CommitIsSound DEF Evidence!Next

(* Isolated is TenantIsolation. *)
LEMMA TenancyInvImplies ==
    ASSUME TenancyInv PROVE Evidence!TenantIsolation
BY DEF TenancyInv, Isolated, RowOf, Mine, SourceOf, Evidence!TenantIsolation, Evidence!Owned

--------------------------------------------------------------------------------
(* Tenancy: metering *)
CLAIM  == "TENANT_CLAIM_INGESTED"
REPORT == "TENANT_REPORT_FILED"
CLOSED == "TENANT_INGESTION_RUN_COMPLETED"

RowsFor(rows, t) == {r \in rows : r.tenant = t}

Completed(runs, t) ==
    {r \in RunIds : runs[r] # NoRow /\ runs[r].tenant = t /\ runs[r].status # "RUNNING"}

(* MeteredExactly, over the cardinalities the library speaks of. *)
MeteredTables(used, claims, reports, runs) ==
    \A t \in Tenants :
        /\ used[<<t, CLAIM>>] = Cardinality(RowsFor(claims, t))
        /\ used[<<t, REPORT>>] = Cardinality(RowsFor(reports, t))
        /\ used[<<t, CLOSED>>] >= Cardinality(Completed(runs, t))

(* The meter of a transaction says how many rows it is about to store. *)
MeteredWrites(w) ==
    /\ IsFiniteSet(w.claim) /\ IsFiniteSet(w.report)
    /\ w.metric \in Evidence!MetricKind \cup {NoRow} /\ w.quantity \in Nat
    /\ IF w.metric = CLAIM THEN w.quantity = Cardinality(w.claim) ELSE w.claim = {}
    /\ IF w.metric = REPORT THEN w.quantity = Cardinality(w.report) ELSE w.report = {}
    /\ w.run # NoRow /\ w.run[2].status # "RUNNING" => w.metric = CLOSED /\ w.quantity = 1

(* Rows that are not stored yet are stored by one transaction only. *)
Unstored(w, claims, reports) == w.claim \cap claims = {} /\ w.report \cap reports = {}

MeterInv ==
    /\ DOMAIN usage = Tenants \X Evidence!MetricKind
    /\ \A k \in Tenants \X Evidence!MetricKind : usage[k] \in Nat
    /\ IsFiniteSet(claim) /\ IsFiniteSet(report)
    /\ MeteredTables(usage, claim, report, run)
    /\ \A c \in Callers : HasFlushed(request[c]) =>
          MeteredWrites(request[c].writes) /\ Unstored(request[c].writes, claim, report)
    /\ \A c, d \in Callers : c # d /\ HasFlushed(request[c]) /\ HasFlushed(request[d]) =>
          Unstored(request[c].writes, request[d].writes.claim, request[d].writes.report)

(* Cardinality, as Tenancy counts. *)
LEMMA EvidenceCardinality == \A S : Evidence!Cardinality(S) = Cardinality(S)
BY DEF Evidence!Cardinality, Cardinality

(* Nothing is stored and nothing is metered at first. *)
LEMMA MeterInit ==
    ASSUME Evidence!Init PROVE MeterInv
<1>1. \A t : RowsFor({}, t) = {} /\ Completed(run, t) = {}
  BY DEF RowsFor, Completed, Evidence!Init
<1>2. IsFiniteSet({}) /\ Cardinality({}) = 0
  BY FS_EmptySet
<1>3. \A t \in Tenants : usage[<<t, CLAIM>>] = 0 /\ usage[<<t, REPORT>>] = 0 /\ usage[<<t, CLOSED>>] = 0
  BY DEF Evidence!Init, Evidence!MetricKind, CLAIM, REPORT, CLOSED
<1>4. claim = {} /\ report = {}
  BY DEF Evidence!Init
<1>5. MeteredTables(usage, claim, report, run)
  <2> SUFFICES ASSUME NEW t \in Tenants
               PROVE  /\ usage[<<t, CLAIM>>] = Cardinality(RowsFor(claim, t))
                      /\ usage[<<t, REPORT>>] = Cardinality(RowsFor(report, t))
                      /\ usage[<<t, CLOSED>>] >= Cardinality(Completed(run, t))
    BY DEF MeteredTables
  <2>1. RowsFor(claim, t) = {} /\ RowsFor(report, t) = {} /\ Completed(run, t) = {}
    BY <1>1, <1>4
  <2> QED
    BY <1>2, <1>3, <2>1
<1> QED
  BY <1>2, <1>5 DEF Evidence!Init, MeterInv, HasFlushed

AllOf(rows, t) == \A r \in rows : r.tenant = t

(* Storing new rows of one tenant counts for that tenant only. *)
LEMMA CountRows ==
    ASSUME NEW S, NEW T, IsFiniteSet(S), IsFiniteSet(T), T \cap S = {}, NEW t, AllOf(T, t), NEW s
    PROVE  Cardinality(RowsFor(S \cup T, s)) =
              Cardinality(RowsFor(S, s)) + (IF s = t THEN Cardinality(T) ELSE 0)
<1> DEFINE R == RowsFor(S, s)
<1>1. R \subseteq S
  BY DEF RowsFor
<1> HIDE DEF R
<1>2. IsFiniteSet(R)
  BY <1>1, FS_Subset
<1>3. Cardinality(R) \in Nat /\ Cardinality(T) \in Nat
  BY <1>2, FS_CardinalityType
<1>4. CASE s = t
  <2>1. RowsFor(S \cup T, s) = R \cup T /\ R \cap T = {}
    BY <1>4 DEF RowsFor, AllOf, R
  <2>2. Cardinality(R \cup T) = Cardinality(R) + Cardinality(T) - Cardinality(R \cap T)
    BY <1>2, FS_Union
  <2>3. Cardinality(R \cap T) = 0
    BY <2>1, FS_EmptySet
  <2>4. Cardinality(R \cup T) = Cardinality(R) + Cardinality(T)
    BY <1>3, <2>2, <2>3
  <2> QED
    BY <1>4, <2>1, <2>4 DEF R
<1>5. CASE s # t
  <2>1. RowsFor(S \cup T, s) = R
    BY <1>5 DEF RowsFor, AllOf, R
  <2>2. Cardinality(R) = Cardinality(R) + 0
    BY <1>3
  <2> QED
    BY <1>5, <2>1, <2>2 DEF R
<1> QED
  BY <1>4, <1>5

(* A step that leaves the tables alone and changes one request. *)
LEMMA OneMeter ==
    ASSUME MeterInv, UNCHANGED <<claim, report, run, usage>>, NEW c \in Callers, NEW q,
           request'[c] = q, \A d \in Callers \ {c} : request'[d] = request[d],
           HasFlushed(q) => /\ MeteredWrites(q.writes) /\ Unstored(q.writes, claim, report)
                            /\ \A d \in Callers \ {c} : HasFlushed(request[d]) =>
                                  Unstored(q.writes, request[d].writes.claim, request[d].writes.report)
    PROVE  MeterInv'
<1>1. MeteredTables(usage', claim', report', run')
  BY DEF MeterInv
<1>2. \A d \in Callers : HasFlushed(request'[d]) =>
          MeteredWrites(request'[d].writes) /\ Unstored(request'[d].writes, claim', report')
  BY DEF MeterInv
<1>3. \A e, d \in Callers : e # d /\ HasFlushed(request'[e]) /\ HasFlushed(request'[d]) =>
          Unstored(request'[e].writes, request'[d].writes.claim, request'[d].writes.report)
  <2> SUFFICES ASSUME NEW e \in Callers, NEW d \in Callers, e # d,
                      HasFlushed(request'[e]), HasFlushed(request'[d])
               PROVE  Unstored(request'[e].writes, request'[d].writes.claim, request'[d].writes.report)
    OBVIOUS
  <2>1. CASE e = c
    BY <2>1
  <2>2. CASE d = c
    <3>1. Unstored(request'[d].writes, request'[e].writes.claim, request'[e].writes.report)
      BY <2>2
    <3> QED
      BY <3>1 DEF Unstored
  <2>3. CASE e # c /\ d # c
    BY <2>3 DEF MeterInv
  <2> QED
    BY <2>1, <2>2, <2>3
<1> QED
  BY <1>1, <1>2, <1>3 DEF MeterInv

(* A use case that flushes metered rows no other transaction has. *)
LEMMA FlushIsMetered ==
    ASSUME TenancyInv, MeterInv, NEW c \in Callers, Evidence!Writing(c), NEW w, Evidence!Flush(c, w),
           MeteredWrites(w),
           \A row \in w.claim : row \notin claim \cup Evidence!Pending("claim"),
           \A row \in w.report : row \notin report \cup Evidence!Pending("report")
    PROVE  MeterInv'
<1>1. request[c] # Idle /\ Presented(request[c])
  BY DEF Evidence!Writing, TenancyInv
<1>2. request' = [request EXCEPT ![c].writes = w] /\ UNCHANGED <<claim, report, run, usage>>
  BY DEF Evidence!Flush, Evidence!tables
<1> DEFINE q == [request[c] EXCEPT !.writes = w]
<1>3. request'[c] = q /\ \A d \in Callers \ {c} : request'[d] = request[d]
  BY <1>2 DEF TenancyInv
<1>4. q.writes = w
  BY <1>1 DEF Presented
<1> HIDE DEF q
<1>5. Unstored(w, claim, report)
  BY DEF Unstored
<1>6. ASSUME NEW d \in Callers \ {c}, HasFlushed(request[d])
      PROVE  Unstored(w, request[d].writes.claim, request[d].writes.report)
  <2>1. d \in Evidence!Flushed
    BY <1>6 DEF HasFlushed, Evidence!Flushed
  <2>2. /\ request[d].writes.claim \subseteq Evidence!Pending("claim")
        /\ request[d].writes.report \subseteq Evidence!Pending("report")
    BY <2>1 DEF Evidence!Pending
  <2> QED
    BY <2>2 DEF Unstored
<1> QED
  BY <1>2, <1>3, <1>4, <1>5, <1>6, OneMeter

(* New ids are not among the rows'. *)
LEMMA NewRows ==
    ASSUME NEW ids, NEW rows, NEW n
    PROVE  /\ Evidence!NewIds(ids, rows, n) \subseteq ids
           /\ \A row : row.id \in Evidence!NewIds(ids, rows, n) => row \notin rows
BY DEF Evidence!NewIds

(* SetToSeq lists a finite set, each member once. *)
LEMMA ListedOnce ==
    ASSUME NEW S, IsFiniteSet(S)
    PROVE  LET s == Evidence!SetToSeq(S)
           IN /\ Cardinality(S) \in Nat /\ DOMAIN s = 1..Cardinality(S)
              /\ \A i \in 1..Cardinality(S) : s[i] \in S
              /\ \A i, j \in 1..Cardinality(S) : s[i] = s[j] => i = j
<1> DEFINE n == Cardinality(S)
           s == Evidence!SetToSeq(S)
<1>1. n \in Nat /\ ExistsBijection(1..n, S)
  BY FS_CardinalityType
<1>2. PICK f : f \in Bijection(1..n, S)
  BY <1>1 DEF ExistsBijection
<1>3. f \in [1..n -> S] /\ \A i, j \in DOMAIN f : f[i] = f[j] => i = j
  BY <1>2 DEF Bijection, Injection, IsInjective
<1> HIDE DEF n
<1>4. s = CHOOSE g \in [1..n -> S] : \A i, j \in DOMAIN g : g[i] = g[j] => i = j
  BY EvidenceCardinality DEF Evidence!SetToSeq, Evidence!IsInjective, n
<1> HIDE DEF s
<1>5. s \in [1..n -> S] /\ \A i, j \in DOMAIN s : s[i] = s[j] => i = j
  <2> DEFINE Fits(g) == \A i, j \in DOMAIN g : g[i] = g[j] => i = j
             All == [1..n -> S]
  <2>1. f \in All /\ Fits(f)
    BY <1>3
  <2>2. s = CHOOSE g \in All : Fits(g)
    BY <1>4
  <2> HIDE DEF Fits, All
  <2>3. s \in All /\ Fits(s)
    BY <2>1, <2>2
  <2> QED
    BY <2>3 DEF Fits, All
<1>6. DOMAIN s = 1..n /\ \A i \in 1..n : s[i] \in S
  BY <1>5
<1> QED
  BY <1>1, <1>5, <1>6 DEF n, s

(* The claims of a batch are as many as the batch. *)
LEMMA BatchIsMetered ==
    ASSUME TenancyInv, MeterInv, NEW c \in Callers, NEW r \in RunIds, NEW batch \in Batches,
           Evidence!submit_claims_batch(c, r, batch)
    PROVE  MeterInv'
<1> DEFINE n == Cardinality(batch)
           new == Evidence!NewClaimIds(n)
           ids == Evidence!SetToSeq(new)
           seq == Evidence!SetToSeq(batch)
           row(i) == [id |-> ids[i], tenant |-> request[c].tenant, run |-> r, event |-> seq[i].event,
                      kind |-> seq[i].kind, by |-> Evidence!Author(c)]
           rows == {row(i) : i \in DOMAIN seq}
           w == Evidence!Meter([Evidence!NoWrites EXCEPT !.claim = rows], CLAIM, n)
<1>1. Evidence!Writing(c) /\ Evidence!Flush(c, w) /\ Cardinality(new) = n
  BY EvidenceCardinality
     DEF Evidence!submit_claims_batch, Evidence!SubmitTenantClaimsBatch, Evidence!add_many, CLAIM
<1>2. IsFiniteSet(batch) /\ IsFiniteSet(new)
  <2>1. new \subseteq ClaimIds
    BY NewRows DEF Evidence!NewClaimIds
  <2>2. IsFiniteSet(ClaimIds) /\ IsFiniteSet(batch)
    BY EvidenceAssumption
  <2> HIDE DEF new
  <2> QED
    BY <2>1, <2>2, FS_Subset
<1> HIDE DEF new
<1>3. n \in Nat /\ DOMAIN seq = 1..n
  BY <1>2, ListedOnce
<1>4. \A i \in 1..n : ids[i] \in new
  BY <1>1, <1>2, ListedOnce
<1>5. \A i, j \in 1..n : ids[i] = ids[j] => i = j
  BY <1>1, <1>2, ListedOnce
<1> HIDE DEF n, ids, seq
<1>6. IsFiniteSet(rows) /\ Cardinality(rows) = n
  <2> DEFINE f == [i \in 1..n |-> row(i)]
  <2>1. f \in [1..n -> rows] /\ \A x \in rows : \E i \in 1..n : f[i] = x
    BY <1>3
  <2>2. \A i, j \in 1..n : f[i] = f[j] => i = j
    BY <1>5
  <2> HIDE DEF f, rows
  <2>3. f \in Bijection(1..n, rows)
    BY <2>1, <2>2 DEF Bijection, Injection, Surjection, IsInjective
  <2>4. ExistsBijection(1..n, rows)
    BY <2>3 DEF ExistsBijection
  <2> QED
    BY <1>3, <2>4, FS_CountingElements, FS_NatBijection
<1>7. \A x \in rows : x \notin claim \cup Evidence!Pending("claim")
  <2>1. \A x \in rows : x.id \in new
    BY <1>3, <1>4
  <2> HIDE DEF rows
  <2> QED
    BY <2>1, NewRows DEF new, Evidence!NewClaimIds
<1> HIDE DEF rows
<1>8. /\ w.run = NoRow /\ w.claim = rows /\ w.report = {} /\ w.metric = CLAIM /\ w.quantity = n
  BY DEF Evidence!NoWrites, Evidence!Meter
<1> HIDE DEF w
<1>9. MeteredWrites(w)
  BY <1>3, <1>6, <1>8, FS_EmptySet DEF MeteredWrites, Evidence!MetricKind, CLAIM, REPORT
<1> QED
  BY <1>1, <1>7, <1>8, <1>9, FlushIsMetered

(* A report is metered as one. *)
LEMMA ReportIsMetered ==
    ASSUME TenancyInv, MeterInv, NEW c \in Callers, NEW narrative, NEW attested, NEW event,
           Evidence!submit_safety_report(c, narrative, attested, event)
    PROVE  MeterInv'
<1> DEFINE t == request[c].tenant
           row(id) == [id |-> id, tenant |-> t, text |-> Evidence!run_deidentification(narrative),
                       by |-> Evidence!Author(c)]
           links(id) == IF event = NoRow THEN {} ELSE {[tenant |-> t, event |-> event, report |-> id]}
           w(id) == Evidence!Meter([Evidence!NoWrites EXCEPT !.report = {row(id)}, !.association = links(id)],
                                   REPORT, 1)
<1>1. PICK id \in Evidence!NewReportIds(1) : Evidence!Writing(c) /\ Evidence!Flush(c, w(id))
  BY DEF Evidence!submit_safety_report, Evidence!SubmitTenantSafetyReport, REPORT
<1>2. row(id) \notin report \cup Evidence!Pending("report")
  BY NewRows DEF Evidence!NewReportIds
<1> HIDE DEF links, row
<1>3. /\ w(id).run = NoRow /\ w(id).claim = {} /\ w(id).report = {row(id)}
      /\ w(id).metric = REPORT /\ w(id).quantity = 1
  BY DEF Evidence!NoWrites, Evidence!Meter
<1> HIDE DEF w
<1>4. IsFiniteSet({row(id)}) /\ Cardinality({row(id)}) = 1 /\ IsFiniteSet({})
  BY FS_EmptySet, FS_Singleton
<1>5. MeteredWrites(w(id))
  BY <1>3, <1>4 DEF MeteredWrites, Evidence!MetricKind, CLAIM, REPORT
<1> QED
  BY <1>1, <1>2, <1>3, <1>5, FlushIsMetered

(* A completed run is metered as one. *)
LEMMA CompleteIsMetered ==
    ASSUME TenancyInv, MeterInv, NEW c \in Callers, NEW r \in RunIds, NEW status,
           Evidence!complete_ingestion_run(c, r, status)
    PROVE  MeterInv'
<1> DEFINE w == Evidence!Meter([Evidence!NoWrites EXCEPT !.run = Evidence!update_status(r, status)], CLOSED, 1)
<1>1. Evidence!Writing(c) /\ Evidence!Flush(c, w)
  BY DEF Evidence!complete_ingestion_run, Evidence!CompleteTenantIngestionRun, CLOSED
<1>2. w.claim = {} /\ w.report = {} /\ w.metric = CLOSED /\ w.quantity = 1
  BY DEF Evidence!NoWrites, Evidence!Meter
<1> HIDE DEF w
<1>3. MeteredWrites(w)
  BY <1>2, FS_EmptySet DEF MeteredWrites, Evidence!MetricKind, CLAIM, REPORT, CLOSED
<1> QED
  BY <1>1, <1>2, <1>3, FlushIsMetered

(* Sources, overlays and opened runs are not metered. *)
LEMMA OthersAreNotMetered ==
    ASSUME TenancyInv, MeterInv, NEW c \in Callers,
           \/ \E name \in Names : Evidence!register_source(c, name)
           \/ \E r \in RunIds, name \in Names : Evidence!open_ingestion_run(c, r, name)
           \/ \E e \in Events, text \in Texts : Evidence!upsert_event_overlay(c, e, text)
    PROVE  MeterInv'
<1>1. ASSUME Evidence!Writing(c), NEW w, Evidence!Flush(c, w), w.claim = {}, w.report = {},
             w.metric = NoRow, w.quantity = 0, w.run # NoRow => w.run[2].status = "RUNNING"
      PROVE  MeterInv'
  <2>1. MeteredWrites(w)
    BY <1>1, FS_EmptySet, EvidenceAssumption DEF MeteredWrites, Evidence!MetricKind, CLAIM, REPORT
  <2> QED
    BY <1>1, <2>1, FlushIsMetered
<1>2. ASSUME NEW name \in Names, Evidence!register_source(c, name) PROVE MeterInv'
  <2> DEFINE row == [tenant |-> request[c].tenant, name |-> name, by |-> Evidence!Author(c)]
             w == [Evidence!NoWrites EXCEPT !.source = {row}]
  <2>1. Evidence!Writing(c) /\ Evidence!Flush(c, w)
    BY <1>2 DEF Evidence!register_source, Evidence!RegisterTenantSource
  <2>2. w.claim = {} /\ w.report = {} /\ w.metric = NoRow /\ w.quantity = 0 /\ w.run = NoRow
    BY DEF Evidence!NoWrites
  <2> HIDE DEF w
  <2> QED
    BY <1>1, <2>1, <2>2
<1>3. ASSUME NEW r \in RunIds, NEW name \in Names, Evidence!open_ingestion_run(c, r, name) PROVE MeterInv'
  <2> DEFINE row == [tenant |-> request[c].tenant, source |-> name, status |-> "RUNNING",
                     by |-> Evidence!Author(c)]
             w == [Evidence!NoWrites EXCEPT !.run = <<r, row>>]
  <2>1. Evidence!Writing(c) /\ Evidence!Flush(c, w)
    BY <1>3 DEF Evidence!open_ingestion_run, Evidence!OpenTenantIngestionRun
  <2>2. /\ w.claim = {} /\ w.report = {} /\ w.metric = NoRow /\ w.quantity = 0
        /\ w.run[2].status = "RUNNING"
    BY DEF Evidence!NoWrites
  <2> HIDE DEF w
  <2> QED
    BY <1>1, <2>1, <2>2
<1>4. ASSUME NEW e, NEW text, Evidence!upsert_event_overlay(c, e, text) PROVE MeterInv'
  <2> DEFINE w(now) == [Evidence!NoWrites EXCEPT !.overlay = Evidence!upsert(c, e, text, now)]
  <2>1. PICK now \in {clock, clock + 1} : Evidence!Writing(c) /\ Evidence!Flush(c, w(now))
    BY <1>4 DEF Evidence!upsert_event_overlay, Evidence!UpsertTenantEventOverlay
  <2>2. /\ w(now).claim = {} /\ w(now).report = {} /\ w(now).metric = NoRow
        /\ w(now).quantity = 0 /\ w(now).run = NoRow
    BY DEF Evidence!NoWrites
  <2> HIDE DEF w
  <2> QED
    BY <1>1, <2>1, <2>2
<1> QED
  BY <1>2, <1>3, <1>4

(* The rows of a transaction and its meter are committed together. *)
LEMMA CommitIsMetered ==
    ASSUME TenancyInv, MeterInv, NEW c \in Callers, Evidence!Commit(c)
    PROVE  MeterInv'
<1> DEFINE w == request[c].writes
           t == request[c].tenant
           K == Tenants \X Evidence!MetricKind
<1>1. /\ request[c] # Idle /\ w # NoRow
      /\ run' = IF w.run = NoRow THEN run ELSE [run EXCEPT ![w.run[1]] = w.run[2]]
      /\ claim' = claim \cup w.claim
      /\ report' = report \cup w.report
      /\ usage' = IF w.metric = NoRow THEN usage ELSE [usage EXCEPT ![<<t, w.metric>>] = @ + w.quantity]
      /\ request' = [request EXCEPT ![c] = Idle]
  BY DEF Evidence!Commit
<1>2. HasFlushed(request[c]) /\ SoundWrites(w, t, source, run) /\ t \in Tenants
  BY <1>1 DEF TenancyInv, HasFlushed, Presented
<1>3. MeteredWrites(w) /\ Unstored(w, claim, report)
  BY <1>2 DEF MeterInv
<1>4. request'[c] = Idle /\ \A d \in Callers \ {c} : request'[d] = request[d]
  BY <1>1 DEF TenancyInv
<1> HIDE DEF w, t
<1>5. /\ DOMAIN usage' = K /\ \A k \in K : usage'[k] \in Nat
      /\ \A k \in K : k # <<t, w.metric>> => usage'[k] = usage[k]
      /\ w.metric # NoRow => usage'[<<t, w.metric>>] = usage[<<t, w.metric>>] + w.quantity
  <2>1. DOMAIN usage = K /\ \A k \in K : usage[k] \in Nat
    BY DEF MeterInv
  <2>2. w.metric # NoRow => <<t, w.metric>> \in K /\ w.quantity \in Nat
    BY <1>2, <1>3 DEF MeteredWrites
  <2> HIDE DEF K
  <2>3. CASE w.metric = NoRow
    <3>1. usage' = usage
      BY <1>1, <2>3
    <3> QED
      BY <2>1, <2>3, <3>1
  <2>4. CASE w.metric # NoRow
    <3>1. usage' = [usage EXCEPT ![<<t, w.metric>>] = usage[<<t, w.metric>>] + w.quantity]
      BY <1>1, <2>4
    <3> QED
      BY <2>1, <2>2, <2>4, <3>1
  <2> QED
    BY <2>3, <2>4
<1>6. \A s \in Tenants : <<s, CLAIM>> \in K /\ <<s, REPORT>> \in K /\ <<s, CLOSED>> \in K
  BY DEF Evidence!MetricKind, CLAIM, REPORT, CLOSED
<1>7. IsFiniteSet(claim') /\ IsFiniteSet(report')
  BY <1>1, <1>3, FS_Union DEF MeterInv, MeteredWrites
<1>8. NoRow \notin Evidence!MetricKind
  BY EvidenceAssumption
<1>9. CLAIM # NoRow /\ REPORT # NoRow /\ CLOSED # NoRow /\ CLAIM # REPORT /\ CLAIM # CLOSED /\ REPORT # CLOSED
  BY <1>8 DEF Evidence!MetricKind, CLAIM, REPORT, CLOSED
<1> HIDE DEF K
<1>10. ASSUME NEW s \in Tenants PROVE usage'[<<s, CLAIM>>] = Cardinality(RowsFor(claim', s))
  <2> DEFINE S == claim
             T == w.claim
             u == usage[<<s, CLAIM>>]
             v == usage'[<<s, CLAIM>>]
  <2>1. IsFiniteSet(S) /\ IsFiniteSet(T) /\ T \cap S = {}
    BY <1>3 DEF MeterInv, MeteredWrites, Unstored
  <2>2. AllOf(T, t)
    BY <1>2 DEF SoundWrites, RowOf, AllOf
  <2>3. u = Cardinality(RowsFor(S, s)) /\ u \in Nat
    BY <1>6 DEF MeterInv, MeteredTables, K
  <2>4. v = u + (IF s = t THEN Cardinality(T) ELSE 0)
    <3>1. CASE w.metric = CLAIM
      <4>1. w.quantity = Cardinality(T)
        BY <1>3, <3>1 DEF MeteredWrites
      <4>2. s = t => v = u + w.quantity
        BY <1>5, <1>9, <3>1
      <4>3. s # t => v = u
        BY <1>5, <1>6
      <4> HIDE DEF T, u, v
      <4> QED
        BY <2>3, <4>1, <4>2, <4>3
    <3>2. CASE w.metric # CLAIM
      <4>1. T = {}
        BY <1>3, <3>2 DEF MeteredWrites
      <4>2. Cardinality(T) = 0
        BY <4>1, FS_EmptySet
      <4>3. v = u
        BY <1>5, <1>6, <3>2
      <4> HIDE DEF T, u, v
      <4> QED
        BY <2>3, <4>2, <4>3
    <3> QED
      BY <3>1, <3>2
  <2>5. claim' = S \cup T
    BY <1>1
  <2> HIDE DEF S, T, u, v
  <2>6. Cardinality(RowsFor(S \cup T, s)) =
           Cardinality(RowsFor(S, s)) + (IF s = t THEN Cardinality(T) ELSE 0)
    BY <2>1, <2>2, CountRows
  <2>7. v = Cardinality(RowsFor(S \cup T, s))
    BY <2>3, <2>4, <2>6
  <2> QED
    BY <2>5, <2>7 DEF v
<1>11. ASSUME NEW s \in Tenants PROVE usage'[<<s, REPORT>>] = Cardinality(RowsFor(report', s))
  <2> DEFINE S == report
             T == w.report
             u == usage[<<s, REPORT>>]
             v == usage'[<<s, REPORT>>]
  <2>1. IsFiniteSet(S) /\ IsFiniteSet(T) /\ T \cap S = {}
    BY <1>3 DEF MeterInv, MeteredWrites, Unstored
  <2>2. AllOf(T, t)
    BY <1>2 DEF SoundWrites, RowOf, AllOf
  <2>3. u = Cardinality(RowsFor(S, s)) /\ u \in Nat
    BY <1>6 DEF MeterInv, MeteredTables, K
  <2>4. v = u + (IF s = t THEN Cardinality(T) ELSE 0)
    <3>1. CASE w.metric = REPORT
      <4>1. w.quantity = Cardinality(T)
        BY <1>3, <3>1 DEF MeteredWrites
      <4>2. s = t => v = u + w.quantity
        BY <1>5, <1>9, <3>1
      <4>3. s # t => v = u
        BY <1>5, <1>6
      <4> HIDE DEF T, u, v
      <4> QED
        BY <2>3, <4>1, <4>2, <4>3
    <3>2. CASE w.metric # REPORT
      <4>1. T = {}
        BY <1>3, <3>2 DEF MeteredWrites
      <4>2. Cardinality(T) = 0
        BY <4>1, FS_EmptySet
      <4>3. v = u
        BY <1>5, <1>6, <3>2
      <4> HIDE DEF T, u, v
      <4> QED
        BY <2>3, <4>2, <4>3
    <3> QED
      BY <3>1, <3>2
  <2>5. report' = S \cup T
    BY <1>1
  <2> HIDE DEF S, T, u, v
  <2>6. Cardinality(RowsFor(S \cup T, s)) =
           Cardinality(RowsFor(S, s)) + (IF s = t THEN Cardinality(T) ELSE 0)
    BY <2>1, <2>2, CountRows
  <2>7. v = Cardinality(RowsFor(S \cup T, s))
    BY <2>3, <2>4, <2>6
  <2> QED
    BY <2>5, <2>7 DEF v
<1>12. ASSUME NEW s \in Tenants PROVE usage'[<<s, CLOSED>>] >= Cardinality(Completed(run', s))
  <2> DEFINE old == Completed(run, s)
             new == Completed(run', s)
             r == w.run[1]
             row == w.run[2]
  <2>1. usage[<<s, CLOSED>>] >= Cardinality(old) /\ usage[<<s, CLOSED>>] \in Nat
    BY <1>6 DEF MeterInv, MeteredTables, K
  <2>2. IsFiniteSet(old) /\ IsFiniteSet(new) /\ Cardinality(old) \in Nat /\ Cardinality(new) \in Nat
    <3>1. old \subseteq RunIds /\ new \subseteq RunIds
      BY DEF Completed
    <3> HIDE DEF old, new
    <3>2. IsFiniteSet(old) /\ IsFiniteSet(new)
      BY <3>1, FS_Subset, EvidenceAssumption
    <3> QED
      BY <3>2, FS_CardinalityType
  <2>3. usage'[<<s, CLOSED>>] \in Nat
    BY <1>5, <1>6
  <2>4. /\ DOMAIN run = RunIds
        /\ w.run # NoRow => r \in RunIds /\ row.tenant = t
    BY <1>2 DEF TenancyInv, Isolated, SoundWrites, RowOf
  <2>5. /\ w.run = NoRow => run' = run
        /\ w.run # NoRow => run'[r] = row /\ \A x \in RunIds \ {r} : run'[x] = run[x]
    BY <1>1, <2>4
  <2>6. CASE w.run # NoRow /\ row.status # "RUNNING" /\ s = t
    <3>1. new \subseteq old \cup {r}
      BY <2>4, <2>5, <2>6 DEF Completed
    <3>2. w.metric = CLOSED /\ w.quantity = 1
      BY <1>3, <2>6 DEF MeteredWrites
    <3>3. usage'[<<s, CLOSED>>] = usage[<<s, CLOSED>>] + 1
      BY <1>5, <1>9, <2>6, <3>2
    <3> HIDE DEF old, new
    <3>4. IsFiniteSet(old \cup {r}) /\ Cardinality(old \cup {r}) = IF r \in old THEN Cardinality(old) ELSE Cardinality(old) + 1
      BY <2>2, FS_AddElement
    <3>5. Cardinality(new) <= Cardinality(old \cup {r})
      BY <3>1, <3>4, FS_Subset
    <3>6. Cardinality(old \cup {r}) \in Nat /\ Cardinality(old \cup {r}) <= Cardinality(old) + 1
      BY <2>2, <3>4
    <3>7. usage'[<<s, CLOSED>>] >= Cardinality(new)
      BY <2>1, <2>2, <3>3, <3>5, <3>6
    <3> QED
      BY <3>7 DEF new
  <2>7. CASE ~ (w.run # NoRow /\ row.status # "RUNNING" /\ s = t)
    <3>1. new \subseteq old
      BY <2>4, <2>5, <2>7 DEF Completed
    <3>2. usage'[<<s, CLOSED>>] >= usage[<<s, CLOSED>>]
      <4>1. CASE <<s, CLOSED>> = <<t, w.metric>>
        <5>1. usage'[<<s, CLOSED>>] = usage[<<s, CLOSED>>] + w.quantity /\ w.quantity \in Nat
          BY <1>3, <1>5, <1>9, <4>1 DEF MeteredWrites
        <5> QED
          BY <2>1, <5>1
      <4>2. CASE <<s, CLOSED>> # <<t, w.metric>>
        <5>1. usage'[<<s, CLOSED>>] = usage[<<s, CLOSED>>]
          BY <1>5, <1>6, <4>2
        <5> QED
          BY <2>1, <5>1
      <4> QED
        BY <4>1, <4>2
    <3> HIDE DEF old, new
    <3>3. Cardinality(new) <= Cardinality(old)
      BY <2>2, <3>1, FS_Subset
    <3>4. usage'[<<s, CLOSED>>] >= Cardinality(new)
      BY <2>1, <2>2, <2>3, <3>2, <3>3
    <3> QED
      BY <3>4 DEF new
  <2> QED
    BY <2>6, <2>7
<1>13. MeteredTables(usage', claim', report', run')
  BY <1>10, <1>11, <1>12 DEF MeteredTables
<1>14. ASSUME NEW d \in Callers, HasFlushed(request'[d])
       PROVE  MeteredWrites(request'[d].writes) /\ Unstored(request'[d].writes, claim', report')
  <2>1. d # c /\ request'[d] = request[d]
    BY <1>4, <1>14 DEF HasFlushed
  <2>2. /\ MeteredWrites(request[d].writes) /\ Unstored(request[d].writes, claim, report)
        /\ Unstored(request[d].writes, w.claim, w.report)
    BY <1>2, <1>14, <2>1 DEF MeterInv, w
  <2> QED
    BY <1>1, <2>1, <2>2 DEF Unstored
<1>15. \A e, d \in Callers : e # d /\ HasFlushed(request'[e]) /\ HasFlushed(request'[d]) =>
          Unstored(request'[e].writes, request'[d].writes.claim, request'[d].writes.report)
  <2> SUFFICES ASSUME NEW e \in Callers, NEW d \in Callers, e # d,
                      HasFlushed(request'[e]), HasFlushed(request'[d])
               PROVE  Unstored(request'[e].writes, request'[d].writes.claim, request'[d].writes.report)
    OBVIOUS
  <2>1. e # c /\ d # c
    BY <1>4 DEF HasFlushed
  <2> QED
    BY <1>4, <2>1 DEF MeterInv
<1> QED
  BY <1>5, <1>7, <1>13, <1>14, <1>15 DEF MeterInv, K

(* Every step keeps the meters exact. *)
LEMMA MeterStep ==
    ASSUME TenancyInv, MeterInv, Evidence!Next PROVE MeterInv'
<1>1. ASSUME UNCHANGED <<claim, report, run, usage, request>> PROVE MeterInv'
  <2>1. MeteredTables(usage', claim', report', run')
    BY <1>1 DEF MeterInv
  <2> QED
    BY <1>1, <2>1 DEF MeterInv
<1>2. ASSUME NEW x \in Changes, Evidence!ChangeMembership(x[1], x[2], x[3]) PROVE MeterInv'
  BY <1>1, <1>2 DEF Evidence!ChangeMembership, Evidence!tables
<1>3. ASSUME NEW t \in Closing, Evidence!DeactivateTenant(t) PROVE MeterInv'
  BY <1>1, <1>3 DEF Evidence!DeactivateTenant, Evidence!tables
<1>4. ASSUME NEW c \in Callers, NEW key \in ApiKeys, NEW t \in Tenants,
             Evidence!require_tenant_membership(c, key, t)
      PROVE  MeterInv'
  <2> DEFINE q == [user |-> key.user, tenant |-> t, role |-> Evidence!get_for_user_in_tenant(key.user, t),
                   granted |-> member[<<key.user, t>>], writes |-> NoRow]
  <2>1. /\ UNCHANGED <<claim, report, run, usage>>
        /\ request' = [request EXCEPT ![c] = q]
    BY <1>4 DEF Evidence!require_tenant_membership, Evidence!tables
  <2>2. ~ HasFlushed(q)
    BY DEF HasFlushed
  <2> HIDE DEF q
  <2>3. request'[c] = q /\ \A d \in Callers \ {c} : request'[d] = request[d]
    BY <2>1 DEF TenancyInv
  <2> QED
    BY <2>1, <2>2, <2>3, OneMeter
<1>5. ASSUME NEW c \in Callers, Evidence!RollBack(c) PROVE MeterInv'
  <2>1. /\ UNCHANGED <<claim, report, run, usage>>
        /\ request' = [request EXCEPT ![c] = Idle]
    BY <1>5 DEF Evidence!RollBack, Evidence!tables
  <2>2. request'[c] = Idle /\ \A d \in Callers \ {c} : request'[d] = request[d]
    BY <2>1 DEF TenancyInv
  <2>3. ~ HasFlushed(Idle)
    BY DEF HasFlushed
  <2> QED
    BY <2>1, <2>2, <2>3, OneMeter
<1>6. ASSUME NEW c \in Callers, Evidence!Handle(c) PROVE MeterInv'
  BY <1>6, OthersAreNotMetered, BatchIsMetered, CompleteIsMetered, ReportIsMetered DEF Evidence!Handle
<1>7. ASSUME NEW e \in Duplicates, Evidence!MergeDuplicateEvents(e) PROVE MeterInv'
  BY <1>1, <1>7 DEF Evidence!MergeDuplicateEvents, Evidence!tables
<1>8. ASSUME NEW e \in Existing, Evidence!ReProjectEvent(e) PROVE MeterInv'
  BY <1>1, <1>8 DEF Evidence!ReProjectEvent, Evidence!tables
<1>9. ASSUME Evidence!Read PROVE MeterInv'
  BY <1>1, <1>9 DEF Evidence!Read, Evidence!list_events, Evidence!resolve_cursor, Evidence!next_page,
                    Evidence!tables
<1> QED
  BY <1>2, <1>3, <1>4, <1>5, <1>6, <1>7, <1>8, <1>9, CommitIsMetered DEF Evidence!Next

(* MeteredTables is MeteredExactly. *)
LEMMA MeterInvImplies ==
    ASSUME MeterInv PROVE Evidence!MeteredExactly
<1> SUFFICES ASSUME NEW t \in Tenants
             PROVE  /\ usage[<<t, CLAIM>>] = Evidence!Cardinality(RowsFor(claim, t))
                    /\ usage[<<t, REPORT>>] = Evidence!Cardinality(RowsFor(report, t))
                    /\ usage[<<t, CLOSED>>] >= Evidence!Cardinality(Completed(run, t))
  BY DEF Evidence!MeteredExactly, RowsFor, Completed, CLAIM, REPORT, CLOSED
<1> QED
  BY EvidenceCardinality DEF MeterInv, MeteredTables
--------------------------------------------------------------------------------
(* Tenancy: what is shown *)

(* No id is of a row of both. *)
Apart(some, others) == \A r \in some, s \in others : r.id # s.id

SameId(reports) == \A r, s \in reports : r.id = s.id => r = s

ShownClaims(rows) == \A r \in rows : r.event \in Events /\ r.kind \in Evidence!TenantClaimKind

(* The events that have a projection, or had one before a merge: none is lost. *)
Visible == projected \cup absorbed

(* The tables can be read back: rows are of known events and kinds, a report   *)
(* is found by its id, overlays can be put in order, and are of events that    *)
(* were projected.                                                             *)
ShownTables(claims, reports, links, overlays, visible) ==
    /\ ShownClaims(claims)
    /\ SameId(reports)
    /\ \A a \in links : a.event \in Events
    /\ DOMAIN overlays = Tenants \X Events
    /\ \A k \in Tenants \X Events : overlays[k] # NoRow => overlays[k].at \in Int /\ k[2] \in visible

ShownWrites(w, visible) ==
    /\ ShownClaims(w.claim)
    /\ SameId(w.report)
    /\ \A a \in w.association : a.event \in Events
    /\ w.overlay # NoRow => w.overlay[2].at \in Int /\ w.overlay[1][2] \in visible

ShownInv ==
    /\ projected \subseteq Events
    /\ ShownTables(claim, report, association, overlay, Visible)
    /\ \A c \in Callers : HasFlushed(request[c]) =>
          ShownWrites(request[c].writes, Visible) /\ Apart(request[c].writes.report, report)
    /\ \A c, d \in Callers : c # d /\ HasFlushed(request[c]) /\ HasFlushed(request[d]) =>
          Apart(request[c].writes.report, request[d].writes.report)

LEMMA ShownInit ==
    ASSUME Evidence!Init PROVE ShownInv
BY EvidenceAssumption DEF Evidence!Init, ShownInv, ShownTables, ShownClaims, SameId, HasFlushed

(* A step that leaves the tables alone and changes one request. *)
LEMMA OneShown ==
    ASSUME ShownInv, UNCHANGED <<claim, report, association, overlay, projected, absorbed>>,
           NEW c \in Callers, NEW q,
           request'[c] = q, \A d \in Callers \ {c} : request'[d] = request[d],
           HasFlushed(q) => /\ ShownWrites(q.writes, Visible) /\ Apart(q.writes.report, report)
                            /\ \A d \in Callers \ {c} : HasFlushed(request[d]) =>
                                  Apart(q.writes.report, request[d].writes.report)
    PROVE  ShownInv'
<1>0. Visible' = Visible /\ projected' \subseteq Events
  BY DEF Visible, ShownInv
<1>1. ShownTables(claim', report', association', overlay', Visible')
  BY <1>0 DEF ShownInv
<1>2. \A d \in Callers : HasFlushed(request'[d]) =>
          ShownWrites(request'[d].writes, Visible') /\ Apart(request'[d].writes.report, report')
  BY <1>0 DEF ShownInv
<1>3. ASSUME NEW e \in Callers, NEW d \in Callers, e # d, HasFlushed(request'[e]), HasFlushed(request'[d])
      PROVE  Apart(request'[e].writes.report, request'[d].writes.report)
  <2>1. CASE e = c
    BY <1>3, <2>1
  <2>2. CASE d = c
    <3>1. Apart(request'[d].writes.report, request'[e].writes.report)
      BY <1>3, <2>2
    <3> QED
      BY <3>1 DEF Apart
  <2>3. CASE e # c /\ d # c
    BY <1>3, <2>3 DEF ShownInv
  <2> QED
    BY <2>1, <2>2, <2>3
<1> QED
  BY <1>0, <1>1, <1>2, <1>3 DEF ShownInv

(* A use case that flushes rows of known events, and reports under new ids. *)
LEMMA FlushIsShown ==
    ASSUME TenancyInv, ShownInv, NEW c \in Callers, Evidence!Writing(c), NEW w, Evidence!Flush(c, w),
           ShownWrites(w, Visible), Apart(w.report, report \cup Evidence!Pending("report"))
    PROVE  ShownInv'
<1>1. request[c] # Idle /\ Presented(request[c])
  BY DEF Evidence!Writing, TenancyInv
<1>2. /\ request' = [request EXCEPT ![c].writes = w]
      /\ UNCHANGED <<claim, report, association, overlay, projected, absorbed>>
  BY DEF Evidence!Flush, Evidence!tables, Evidence!public
<1> DEFINE q == [request[c] EXCEPT !.writes = w]
<1>3. request'[c] = q /\ \A d \in Callers \ {c} : request'[d] = request[d]
  BY <1>2 DEF TenancyInv
<1>4. q.writes = w
  BY <1>1 DEF Presented
<1> HIDE DEF q
<1>5. Apart(w.report, report)
  BY DEF Apart
<1>6. ASSUME NEW d \in Callers \ {c}, HasFlushed(request[d])
      PROVE  Apart(w.report, request[d].writes.report)
  <2>1. d \in Evidence!Flushed
    BY <1>6 DEF HasFlushed, Evidence!Flushed
  <2>2. request[d].writes.report \subseteq Evidence!Pending("report")
    BY <2>1 DEF Evidence!Pending
  <2> QED
    BY <2>2 DEF Apart
<1> QED
  BY <1>2, <1>3, <1>4, <1>5, <1>6, OneShown

(* The claims of a batch are of events that exist, and of the kinds. *)
LEMMA BatchIsShown ==
    ASSUME TenancyInv, ShownInv, NEW c \in Callers, NEW r \in RunIds, NEW batch \in Batches,
           Evidence!submit_claims_batch(c, r, batch)
    PROVE  ShownInv'
<1> DEFINE n == Evidence!Cardinality(batch)
           rows == Evidence!add_many(c, r, batch)
           w == Evidence!Meter([Evidence!NoWrites EXCEPT !.claim = rows], "TENANT_CLAIM_INGESTED", n)
<1>1. /\ Evidence!Writing(c) /\ Evidence!Flush(c, w)
      /\ {b.event : b \in batch} \cap Existing = {b.event : b \in batch}
      /\ {b.kind : b \in batch} \subseteq Evidence!TenantClaimKind
  BY DEF Evidence!submit_claims_batch, Evidence!SubmitTenantClaimsBatch, Evidence!find_existing_ids
<1>2. \A b \in batch : b.event \in Events /\ b.kind \in Evidence!TenantClaimKind
  BY <1>1, EvidenceAssumption
<1>3. ShownClaims(rows)
  <2> DEFINE seq == Evidence!SetToSeq(batch)
  <2>1. \A i \in DOMAIN seq : seq[i] \in batch
    <3>1. IsFiniteSet(batch)
      BY EvidenceAssumption
    <3> QED
      BY <3>1, ListedOnce
  <2> HIDE DEF seq
  <2>2. \A x \in rows : \E i \in DOMAIN seq : x.event = seq[i].event /\ x.kind = seq[i].kind
    BY DEF Evidence!add_many, seq
  <2> HIDE DEF rows
  <2> QED
    BY <1>2, <2>1, <2>2 DEF ShownClaims
<1> HIDE DEF rows, n
<1>4. w.claim = rows /\ w.report = {} /\ w.association = {} /\ w.overlay = NoRow
  BY DEF Evidence!NoWrites, Evidence!Meter
<1> HIDE DEF w
<1>5. ShownWrites(w, Visible) /\ Apart(w.report, report \cup Evidence!Pending("report"))
  BY <1>3, <1>4 DEF ShownWrites, SameId, Apart
<1> QED
  BY <1>1, <1>5, FlushIsShown

(* A report has an id of its own and names a projected event, if any. *)
LEMMA ReportIsShown ==
    ASSUME TenancyInv, ShownInv, NEW c \in Callers, NEW narrative, NEW attested, NEW event,
           Evidence!submit_safety_report(c, narrative, attested, event)
    PROVE  ShownInv'
<1> DEFINE t == request[c].tenant
           row(id) == [id |-> id, tenant |-> t, text |-> Evidence!run_deidentification(narrative),
                       by |-> Evidence!Author(c)]
           links(id) == IF event = NoRow THEN {} ELSE {[tenant |-> t, event |-> event, report |-> id]}
           w(id) == Evidence!Meter([Evidence!NoWrites EXCEPT !.report = {row(id)}, !.association = links(id)],
                                   "TENANT_REPORT_FILED", 1)
<1>1. PICK id \in Evidence!NewReportIds(1) :
         Evidence!Writing(c) /\ Evidence!Flush(c, w(id)) /\ event \in projected \cup {NoRow}
  BY DEF Evidence!submit_safety_report, Evidence!SubmitTenantSafetyReport
<1>2. \A x \in report \cup Evidence!Pending("report") : x.id # id
  BY <1>1 DEF Evidence!NewReportIds, Evidence!NewIds
<1>3. row(id).id = id /\ \A a \in links(id) : a.event \in Events
  BY <1>1 DEF ShownInv
<1> HIDE DEF links, row
<1>4. /\ w(id).claim = {} /\ w(id).report = {row(id)} /\ w(id).association = links(id)
      /\ w(id).overlay = NoRow
  BY DEF Evidence!NoWrites, Evidence!Meter
<1> HIDE DEF w
<1>5. ShownWrites(w(id), Visible)
  BY <1>3, <1>4 DEF ShownWrites, SameId, ShownClaims
<1>6. Apart(w(id).report, report \cup Evidence!Pending("report"))
  BY <1>2, <1>3, <1>4 DEF Apart
<1> QED
  BY <1>1, <1>5, <1>6, FlushIsShown

(* An overlay is of a projected event, and has the time of its request. *)
LEMMA OverlayIsShown ==
    ASSUME TenancyInv, ShownInv, NEW c \in Callers, NEW event, NEW text,
           Evidence!upsert_event_overlay(c, event, text)
    PROVE  ShownInv'
<1> DEFINE row(now) == [text |-> text, at |-> now, by |-> Evidence!Author(c)]
           w(now) == [Evidence!NoWrites EXCEPT !.overlay = <<<<request[c].tenant, event>>, row(now)>>]
<1>1. PICK now \in {clock, clock + 1} :
         Evidence!Writing(c) /\ Evidence!Flush(c, w(now)) /\ event \in projected /\ now \in 1..MaxTime
  BY DEF Evidence!upsert_event_overlay, Evidence!UpsertTenantEventOverlay, Evidence!upsert
<1>2. row(now).at \in Int
  BY <1>1, EvidenceAssumption
<1>3. /\ w(now).claim = {} /\ w(now).report = {} /\ w(now).association = {}
      /\ w(now).overlay[1][2] = event /\ w(now).overlay[2] = row(now)
  BY DEF Evidence!NoWrites
<1> HIDE DEF w, row
<1>4. ShownWrites(w(now), Visible) /\ Apart(w(now).report, report \cup Evidence!Pending("report"))
  BY <1>1, <1>2, <1>3 DEF ShownWrites, ShownClaims, SameId, Apart, Visible
<1> QED
  BY <1>1, <1>4, FlushIsShown

(* Sources and runs are not shown. *)
LEMMA OthersAreNotShown ==
    ASSUME TenancyInv, ShownInv, NEW c \in Callers,
           \/ \E name \in Names : Evidence!register_source(c, name)
           \/ \E r \in RunIds, name \in Names : Evidence!open_ingestion_run(c, r, name)
           \/ \E r \in RunIds, status \in Evidence!TenantIngestionRunStatus :
                 Evidence!complete_ingestion_run(c, r, status)
    PROVE  ShownInv'
<1>1. ASSUME NEW w, Evidence!Writing(c), Evidence!Flush(c, w),
             w.claim = {}, w.report = {}, w.association = {}, w.overlay = NoRow
      PROVE  ShownInv'
  <2>1. ShownWrites(w, Visible) /\ Apart(w.report, report \cup Evidence!Pending("report"))
    BY <1>1 DEF ShownWrites, ShownClaims, SameId, Apart
  <2> QED
    BY <1>1, <2>1, FlushIsShown
<1>2. ASSUME NEW name \in Names, Evidence!register_source(c, name) PROVE ShownInv'
  <2> DEFINE row == [tenant |-> request[c].tenant, name |-> name, by |-> Evidence!Author(c)]
             w == [Evidence!NoWrites EXCEPT !.source = {row}]
  <2>1. Evidence!Writing(c) /\ Evidence!Flush(c, w)
    BY <1>2 DEF Evidence!register_source, Evidence!RegisterTenantSource
  <2>2. w.claim = {} /\ w.report = {} /\ w.association = {} /\ w.overlay = NoRow
    BY DEF Evidence!NoWrites
  <2> HIDE DEF w
  <2> QED
    BY <1>1, <2>1, <2>2
<1>3. ASSUME NEW r \in RunIds, NEW name \in Names, Evidence!open_ingestion_run(c, r, name) PROVE ShownInv'
  <2> DEFINE row == [tenant |-> request[c].tenant, source |-> name, status |-> "RUNNING",
                     by |-> Evidence!Author(c)]
             w == [Evidence!NoWrites EXCEPT !.run = <<r, row>>]
  <2>1. Evidence!Writing(c) /\ Evidence!Flush(c, w)
    BY <1>3 DEF Evidence!open_ingestion_run, Evidence!OpenTenantIngestionRun
  <2>2. w.claim = {} /\ w.report = {} /\ w.association = {} /\ w.overlay = NoRow
    BY DEF Evidence!NoWrites
  <2> HIDE DEF w
  <2> QED
    BY <1>1, <2>1, <2>2
<1>4. ASSUME NEW r \in RunIds, NEW status, Evidence!complete_ingestion_run(c, r, status) PROVE ShownInv'
  <2> DEFINE w == Evidence!Meter([Evidence!NoWrites EXCEPT !.run = Evidence!update_status(r, status)],
                                 "TENANT_INGESTION_RUN_COMPLETED", 1)
  <2>1. Evidence!Writing(c) /\ Evidence!Flush(c, w)
    BY <1>4 DEF Evidence!complete_ingestion_run, Evidence!CompleteTenantIngestionRun
  <2>2. w.claim = {} /\ w.report = {} /\ w.association = {} /\ w.overlay = NoRow
    BY DEF Evidence!NoWrites, Evidence!Meter
  <2> HIDE DEF w
  <2> QED
    BY <1>1, <2>1, <2>2
<1> QED
  BY <1>2, <1>3, <1>4

(* What is committed can be read back. *)
LEMMA CommitIsShown ==
    ASSUME TenancyInv, ShownInv, NEW c \in Callers, Evidence!Commit(c)
    PROVE  ShownInv'
<1> DEFINE w == request[c].writes
<1>1. /\ HasFlushed(request[c])
      /\ claim' = claim \cup w.claim
      /\ report' = report \cup w.report
      /\ association' = association \cup w.association
      /\ overlay' = IF w.overlay = NoRow THEN overlay ELSE [overlay EXCEPT ![w.overlay[1]] = w.overlay[2]]
      /\ request' = [request EXCEPT ![c] = Idle]
      /\ UNCHANGED <<projected, absorbed>>
  BY DEF Evidence!Commit, Evidence!public, HasFlushed
<1>1a. Visible' = Visible /\ projected' \subseteq Events
  BY <1>1 DEF Visible, ShownInv
<1>2. ShownWrites(w, Visible) /\ Apart(w.report, report)
  BY <1>1 DEF ShownInv
<1>3. ShownTables(claim, report, association, overlay, Visible)
  BY DEF ShownInv
<1>4. \A d \in Callers : request'[d] = IF d = c THEN Idle ELSE request[d]
  BY <1>1 DEF TenancyInv
<1>5. ASSUME NEW d \in Callers, HasFlushed(request'[d])
      PROVE  /\ d # c /\ request'[d] = request[d] /\ HasFlushed(request[d])
             /\ ShownWrites(request[d].writes, Visible) /\ Apart(request[d].writes.report, report')
  <2>1. d # c /\ request'[d] = request[d]
    BY <1>4, <1>5 DEF HasFlushed
  <2>2. /\ HasFlushed(request[d]) /\ ShownWrites(request[d].writes, Visible)
        /\ Apart(request[d].writes.report, report) /\ Apart(request[d].writes.report, w.report)
    BY <1>1, <1>5, <2>1 DEF ShownInv
  <2> QED
    BY <1>1, <2>1, <2>2 DEF Apart
<1> HIDE DEF w
<1>6. SameId(report')
  BY <1>1, <1>2, <1>3 DEF SameId, Apart, ShownTables, ShownWrites
<1>7. ShownClaims(claim') /\ \A a \in association' : a.event \in Events
  BY <1>1, <1>2, <1>3 DEF ShownTables, ShownWrites, ShownClaims
<1>8. /\ DOMAIN overlay' = Tenants \X Events
      /\ \A k \in Tenants \X Events : overlay'[k] # NoRow => overlay'[k].at \in Int /\ k[2] \in Visible
  BY <1>1, <1>2, <1>3 DEF ShownTables, ShownWrites
<1>9. ShownTables(claim', report', association', overlay', Visible')
  BY <1>1a, <1>6, <1>7, <1>8 DEF ShownTables
<1>10. \A e, d \in Callers : e # d /\ HasFlushed(request'[e]) /\ HasFlushed(request'[d]) =>
          Apart(request'[e].writes.report, request'[d].writes.report)
  BY <1>5 DEF ShownInv
<1> QED
  BY <1>1a, <1>5, <1>9, <1>10 DEF ShownInv

LEMMA ShownStep ==
    ASSUME TenancyInv, ShownInv, Evidence!Next PROVE ShownInv'
<1>1. ASSUME UNCHANGED <<claim, report, association, overlay, request>>,
             Visible \subseteq Visible', projected' \subseteq Events
      PROVE  ShownInv'
  <2>1. ShownTables(claim', report', association', overlay', Visible')
    BY <1>1 DEF ShownInv, ShownTables
  <2>2. ASSUME NEW c \in Callers, HasFlushed(request'[c])
        PROVE  ShownWrites(request'[c].writes, Visible') /\ Apart(request'[c].writes.report, report')
    BY <1>1, <2>2 DEF ShownInv, ShownWrites
  <2> QED
    BY <1>1, <2>1, <2>2 DEF ShownInv
<1>1a. ASSUME UNCHANGED <<claim, report, association, overlay, request, projected, absorbed>> PROVE ShownInv'
  <2>1. Visible \subseteq Visible' /\ projected' \subseteq Events
    BY <1>1a DEF Visible, ShownInv
  <2> QED
    BY <1>1, <1>1a, <2>1
<1>2. ASSUME NEW x \in Changes, Evidence!ChangeMembership(x[1], x[2], x[3]) PROVE ShownInv'
  BY <1>1a, <1>2 DEF Evidence!ChangeMembership, Evidence!tables, Evidence!public
<1>3. ASSUME NEW t \in Closing, Evidence!DeactivateTenant(t) PROVE ShownInv'
  BY <1>1a, <1>3 DEF Evidence!DeactivateTenant, Evidence!tables, Evidence!public
<1>4. ASSUME NEW c \in Callers, NEW key \in ApiKeys, NEW t \in Tenants,
             Evidence!require_tenant_membership(c, key, t)
      PROVE  ShownInv'
  <2> DEFINE q == [user |-> key.user, tenant |-> t, role |-> Evidence!get_for_user_in_tenant(key.user, t),
                   granted |-> member[<<key.user, t>>], writes |-> NoRow]
  <2>1. /\ UNCHANGED <<claim, report, association, overlay, projected, absorbed>>
        /\ request' = [request EXCEPT ![c] = q]
    BY <1>4 DEF Evidence!require_tenant_membership, Evidence!tables, Evidence!public
  <2>2. ~ HasFlushed(q)
    BY DEF HasFlushed
  <2> HIDE DEF q
  <2>3. request'[c] = q /\ \A d \in Callers \ {c} : request'[d] = request[d]
    BY <2>1 DEF TenancyInv
  <2> QED
    BY <2>1, <2>2, <2>3, OneShown
<1>5. ASSUME NEW c \in Callers, Evidence!RollBack(c) PROVE ShownInv'
  <2>1. /\ UNCHANGED <<claim, report, association, overlay, projected, absorbed>>
        /\ request' = [request EXCEPT ![c] = Idle]
    BY <1>5 DEF Evidence!RollBack, Evidence!tables, Evidence!public
  <2>2. request'[c] = Idle /\ \A d \in Callers \ {c} : request'[d] = request[d]
    BY <2>1 DEF TenancyInv
  <2>3. ~ HasFlushed(Idle)
    BY DEF HasFlushed
  <2> QED
    BY <2>1, <2>2, <2>3, OneShown
<1>6. ASSUME NEW c \in Callers, Evidence!Handle(c) PROVE ShownInv'
  BY <1>6, OthersAreNotShown, BatchIsShown, ReportIsShown, OverlayIsShown DEF Evidence!Handle
<1>7. ASSUME NEW e \in Duplicates, Evidence!MergeDuplicateEvents(e) PROVE ShownInv'
  <2>1. /\ UNCHANGED <<claim, report, association, overlay, request>>
        /\ absorbed' = absorbed \cup {e} /\ projected' = projected \ {e}
    BY <1>7 DEF Evidence!MergeDuplicateEvents, Evidence!tables
  <2>2. Visible \subseteq Visible' /\ projected' \subseteq Events
    BY <2>1 DEF Visible, ShownInv
  <2> QED
    BY <1>1, <2>1, <2>2
<1>8. ASSUME NEW e \in Existing, Evidence!ReProjectEvent(e) PROVE ShownInv'
  <2>1. /\ UNCHANGED <<claim, report, association, overlay, request, absorbed>>
        /\ projected' = projected \cup {e}
    BY <1>8 DEF Evidence!ReProjectEvent, Evidence!tables
  <2>2. Visible \subseteq Visible' /\ projected' \subseteq Events
    BY <2>1, EvidenceAssumption DEF Visible, ShownInv
  <2> QED
    BY <1>1, <2>1, <2>2
<1>9. ASSUME Evidence!Read PROVE ShownInv'
  <2>1. UNCHANGED <<claim, report, association, overlay, request, projected, absorbed>>
    BY <1>9 DEF Evidence!Read, Evidence!list_events, Evidence!resolve_cursor, Evidence!next_page,
                Evidence!tables, Evidence!public
  <2> QED
    BY <1>1a, <2>1
<1> QED
  BY <1>2, <1>3, <1>4, <1>5, <1>6, <1>7, <1>8, <1>9, CommitIsShown DEF Evidence!Next

(* The evidence of the events holds every claim and every report that is       *)
(* associated: an association is of its report's tenant.                       *)
LEMMA EvidenceIsShown ==
    ASSUME TenancyInv, ShownInv, NEW key, NEW t
    PROVE  LET linked == {r \in report : \E a \in association : a.report = r.id}
           IN UNION {Evidence!get_tenant_evidence_for_event(key, t, e) : e \in Events}
                 = IF Evidence!Admitted(key, t) THEN {r \in claim \cup linked : r.tenant = key.tenant} ELSE {}
<1> DEFINE linked == {r \in report : \E a \in association : a.report = r.id}
           shown(e) == Evidence!get_tenant_evidence_for_event(key, t, e)
<1>1. CASE ~ Evidence!Admitted(key, t)
  <2>1. \A e \in Events : shown(e) = {}
    BY <1>1 DEF Evidence!get_tenant_evidence_for_event
  <2> HIDE DEF shown
  <2>2. UNION {shown(e) : e \in Events} = {}
    BY <2>1
  <2> QED
    BY <1>1, <2>2 DEF shown
<1>2. CASE Evidence!Admitted(key, t)
  <2>1. key.tenant = t
    BY <1>2 DEF Evidence!Admitted
  <2>2. ASSUME NEW e \in Events
        PROVE  shown(e) = {r \in claim : r.tenant = t /\ r.event = e /\ r.kind \in {"FOQA", "ASAP", "OTHER"}}
                          \cup {r \in report : r.tenant = t /\ \E a \in association :
                                                   a.tenant = t /\ a.event = e /\ a.report = r.id}
    BY <1>2 DEF Evidence!get_tenant_evidence_for_event, Evidence!ListTenantEvidenceForEvent,
                Evidence!list_for_event_by_kind
  <2> HIDE DEF shown
  <2>3. ASSUME NEW e \in Events, NEW r \in shown(e) PROVE r \in claim \cup linked /\ r.tenant = t
    BY <2>2
  <2>4. ASSUME NEW r \in claim, r.tenant = t PROVE \E e \in Events : r \in shown(e)
    <3>1. r.event \in Events /\ r.kind \in {"FOQA", "ASAP", "OTHER"}
      BY DEF ShownInv, ShownTables, ShownClaims, Evidence!TenantClaimKind
    <3> QED
      BY <2>2, <2>4, <3>1
  <2>5. ASSUME NEW r \in linked, r.tenant = t PROVE \E e \in Events : r \in shown(e)
    <3>1. PICK a \in association : a.report = r.id
      OBVIOUS
    <3>2. PICK s \in report : s.id = a.report /\ s.tenant = a.tenant
      BY DEF TenancyInv, Isolated
    <3>3. s = r /\ a.tenant = t /\ a.event \in Events
      BY <2>5, <3>1, <3>2 DEF ShownInv, ShownTables, SameId
    <3> QED
      BY <2>2, <2>5, <3>1, <3>3
  <2> HIDE DEF linked
  <2>6. UNION {shown(e) : e \in Events} = {r \in claim \cup linked : r.tenant = t}
    BY <2>3, <2>4, <2>5
  <2> QED
    BY <1>2, <2>1, <2>6 DEF shown, linked
<1> QED
  BY <1>1, <1>2

(* One overlay of a tenant comes before another. *)
Precedes(t, d, e) == Evidence!Newer(Evidence!Key(t, d), Evidence!Key(t, e))

(* Newer is a total order of the overlays of a tenant: by time, and by id. *)
LEMMA NewerIsAnOrder ==
    ASSUME ShownInv, NEW t \in Tenants
    PROVE  /\ \A d \in Evidence!Written(t) : ~ Precedes(t, d, d)
           /\ \A d, e, f \in Evidence!Written(t) :
                 Precedes(t, d, e) /\ Precedes(t, e, f) => Precedes(t, d, f)
           /\ \A d, e \in Evidence!Written(t) : d # e => Precedes(t, d, e) \/ Precedes(t, e, d)
<1> DEFINE at(e) == overlay[<<t, e>>].at
<1>1. \A e \in Evidence!Written(t) : e \in Int /\ at(e) \in Int
  BY EvidenceAssumption DEF ShownInv, ShownTables, Evidence!Written
<1>2. \A d, e : Precedes(t, d, e) <=> (at(d) > at(e) \/ (at(d) = at(e) /\ d > e))
  BY DEF Precedes, Evidence!Newer, Evidence!Key
<1> HIDE DEF at
<1> QED
  BY <1>1, <1>2

(* The overlays after a cursor: *)
After(t, after) == {e \in Evidence!Written(t) : after # NoRow => Evidence!Newer(after, Evidence!Key(t, e))}

(* the query lists them once each, the newer before the older. *)
LEMMA OverlaysInOrder ==
    ASSUME ShownInv, NEW t \in Tenants, NEW after
    PROVE  LET order == Evidence!OverlaysAfter(t, after)
               n == Cardinality(After(t, after))
           IN /\ n \in Nat /\ order \in [1..n -> After(t, after)]
              /\ \A i, j \in 1..n : i # j => order[i] # order[j]
              /\ \A i, j \in 1..n : i < j => Precedes(t, order[i], order[j])
              /\ \A e \in After(t, after) : \E i \in 1..n : order[i] = e
<1> DEFINE S == After(t, after)
           n == Cardinality(S)
           R == {p \in Events \X Events : Precedes(t, p[1], p[2])}
           order == Evidence!OverlaysAfter(t, after)
<1>1. S \subseteq Evidence!Written(t) /\ S \subseteq Events
  BY DEF After, Evidence!Written
<1>2. IsFiniteSet(S)
  BY <1>1, EvidenceAssumption, FS_Subset
<1>3. n \in Nat
  BY <1>2, FS_CardinalityType
<1> HIDE DEF S
<1>4. \A d, e \in S : <<d, e>> \in R <=> Precedes(t, d, e)
  BY <1>1
<1>5. StrictOrder(R, S)
  <2> HIDE DEF R
  <2> QED
    BY <1>1, <1>4, NewerIsAnOrder DEF StrictOrder
<1>6. ListsOf(S, R) # {}
  BY <1>2, <1>5, ListExists
<1> HIDE DEF n
<1>7. order = CHOOSE s \in {f \in [1..n -> S] : \A i, j \in 1..n : i # j => f[i] # f[j]} :
                 \A i, j \in DOMAIN s : i < j => ~ Precedes(t, s[j], s[i])
  <2>1. {e \in Evidence!Written(t) : after # NoRow => Evidence!Newer(after, Evidence!Key(t, e))} = S
    BY DEF S, After
  <2> HIDE DEF S
  <2>2. Evidence!SetToSeqs(S) = {f \in [1..n -> S] : \A i, j \in 1..n : i # j => f[i] # f[j]}
    BY EvidenceCardinality DEF Evidence!SetToSeqs, n
  <2> QED
    BY <2>1, <2>2 DEF Evidence!OverlaysAfter, Precedes
<1> HIDE DEF order, R
<1>8. \E s \in {f \in [1..n -> S] : \A i, j \in 1..n : i # j => f[i] # f[j]} :
                 \A i, j \in DOMAIN s : i < j => ~ Precedes(t, s[j], s[i])
  <2>1. PICK s \in ListsOf(S, R) : TRUE
    BY <1>6
  <2>2. s \in [1..n -> S]
    BY <2>1 DEF ListsOf, n
  <2>3. \A i, j \in 1..n : (i # j => s[i] # s[j]) /\ (i < j => <<s[j], s[i]>> \notin R)
    BY <2>1 DEF ListsOf, n
  <2> QED
    BY <1>4, <2>2, <2>3
<1>9. /\ order \in [1..n -> S] /\ \A i, j \in 1..n : i # j => order[i] # order[j]
      /\ \A i, j \in 1..n : i < j => ~ Precedes(t, order[j], order[i])
  BY <1>7, <1>8
<1>10. ASSUME NEW i \in 1..n, NEW j \in 1..n, i < j PROVE Precedes(t, order[i], order[j])
  <2>1. i # j
    BY <1>3, <1>10
  <2>2. order[i] \in Evidence!Written(t) /\ order[j] \in Evidence!Written(t) /\ order[i] # order[j]
    BY <1>1, <1>9, <2>1
  <2> QED
    BY <1>9, <1>10, <2>2, NewerIsAnOrder
<1>11. \A e \in S : \E i \in 1..n : order[i] = e
  BY <1>2, <1>9, ListIsOnto DEF n
<1> QED
  BY <1>3, <1>9, <1>10, <1>11 DEF S, n, order

(* The overlays of a page: those after the cursor, up to its last. *)
OnPage(t, after, next) == {e \in After(t, after) : next = NoRow \/ ~ Precedes(t, next, e)}

LEMMA PageIs ==
    ASSUME ShownInv, NEW t \in Tenants, NEW after, NEW limit \in Nat \ {0}
    PROVE  LET page == Evidence!list_for_tenant(t, limit, after)
           IN /\ Evidence!ToSet(page.items) = OnPage(t, after, page.next)
              /\ page.next \in After(t, after) \cup {NoRow}
<1> DEFINE S == After(t, after)
           n == Cardinality(S)
           order == Evidence!OverlaysAfter(t, after)
           page == Evidence!list_for_tenant(t, limit, after)
<1>1. /\ n \in Nat /\ order \in [1..n -> S]
      /\ \A i, j \in 1..n : i # j => order[i] # order[j]
      /\ \A i, j \in 1..n : i < j => Precedes(t, order[i], order[j])
      /\ \A e \in S : \E i \in 1..n : order[i] = e
  BY OverlaysInOrder
<1>2. S \subseteq Evidence!Written(t) /\ NoRow \notin S
  BY EvidenceAssumption DEF After, Evidence!Written
<1>3. page = [items |-> SubSeq(order, 1, IF Len(order) > limit THEN limit ELSE Len(order)),
              next  |-> IF Len(order) > limit THEN order[limit] ELSE NoRow]
  BY DEF Evidence!list_for_tenant
<1>3a. OnPage(t, after, page.next) = {e \in S : page.next = NoRow \/ ~ Precedes(t, page.next, e)}
  BY DEF OnPage
<1> HIDE DEF S, n, order, page
<1>4. order \in Seq(S) /\ Len(order) = n
  BY <1>1
<1>5. CASE n > limit
  <2>1. page.next = order[limit] /\ page.items = SubSeq(order, 1, limit) /\ limit \in 1..n
    BY <1>1, <1>3, <1>4, <1>5
  <2>2. /\ page.items \in Seq(S) /\ Len(page.items) = limit
        /\ \A i \in 1..limit : page.items[i] = order[i] /\ i \in 1..n
    BY <1>1, <1>4, <2>1
  <2>3. page.next \in S /\ page.next # NoRow
    BY <1>1, <1>2, <2>1
  <2>5. \A i \in 1..n : ~ Precedes(t, page.next, order[i]) <=> i \in 1..limit
    <3> SUFFICES ASSUME NEW i \in 1..n PROVE ~ Precedes(t, page.next, order[i]) <=> i \in 1..limit
      OBVIOUS
    <3>1. order[i] \in Evidence!Written(t) /\ order[limit] \in Evidence!Written(t)
      BY <1>1, <1>2, <2>1
    <3>2. CASE i = limit
      BY <2>1, <3>1, <3>2, NewerIsAnOrder
    <3>3. CASE i < limit
      <4>1. Precedes(t, order[i], order[limit])
        BY <1>1, <2>1, <3>3
      <4> QED
        BY <1>1, <2>1, <3>1, <3>3, <4>1, NewerIsAnOrder
    <3>4. CASE i > limit
      <4>1. Precedes(t, order[limit], order[i])
        BY <1>1, <2>1, <3>4
      <4> QED
        BY <2>1, <3>4, <4>1
    <3> QED
      BY <1>1, <3>2, <3>3, <3>4
  <2>6. Evidence!ToSet(page.items) = {e \in S : page.next = NoRow \/ ~ Precedes(t, page.next, e)}
    <3>1. Evidence!ToSet(page.items) = {order[i] : i \in 1..limit}
      BY <2>2 DEF Evidence!ToSet
    <3> QED
      BY <1>1, <2>2, <2>3, <2>5, <3>1
  <2> QED
    BY <1>3a, <2>3, <2>6 DEF S, page
<1>6. CASE ~ (n > limit)
  <2>1. page.next = NoRow /\ page.items = SubSeq(order, 1, n)
    BY <1>1, <1>3, <1>4, <1>6
  <2>2. page.items \in Seq(S) /\ Len(page.items) = n /\ \A i \in 1..n : page.items[i] = order[i]
    BY <1>1, <1>4, <2>1
  <2>3. Evidence!ToSet(page.items) = S
    <3>1. Evidence!ToSet(page.items) = {order[i] : i \in 1..n}
      BY <2>2 DEF Evidence!ToSet
    <3> QED
      BY <1>1, <3>1
  <2> QED
    BY <1>3a, <2>1, <2>3 DEF S, page
<1> QED
  BY <1>5, <1>6

(* The page of the use case: a page of a length of one or more. *)
LEMMA EventsPage ==
    ASSUME ShownInv, NEW t \in Tenants, NEW after, NEW limit \in 0..(_TENANT_EVENT_LIST_MAX_LIMIT + 1)
    PROVE  LET page == Evidence!ListTenantEvents(t, limit, after)
           IN /\ Evidence!ToSet(page.items) = OnPage(t, after, page.next)
              /\ page.next \in After(t, after) \cup {NoRow}
<1> DEFINE least == Evidence!Min({limit, _TENANT_EVENT_LIST_MAX_LIMIT})
           length == Evidence!Max({1, least})
<1>1. _TENANT_EVENT_LIST_MAX_LIMIT \in Nat /\ limit \in Nat
  BY EvidenceAssumption
<1>2. least \in {limit, _TENANT_EVENT_LIST_MAX_LIMIT}
  <2>1. \E x \in {limit, _TENANT_EVENT_LIST_MAX_LIMIT} :
           \A y \in {limit, _TENANT_EVENT_LIST_MAX_LIMIT} : x <= y
    BY <1>1
  <2> QED
    BY <2>1 DEF Evidence!Min
<1>3. least \in Nat
  BY <1>1, <1>2
<1> HIDE DEF least
<1>4. length \in {1, least} /\ length >= 1
  <2>1. \E x \in {1, least} : \A y \in {1, least} : x >= y
    BY <1>3
  <2> QED
    BY <2>1 DEF Evidence!Max
<1>5. length \in Nat \ {0}
  BY <1>3, <1>4
<1>6. Evidence!ListTenantEvents(t, limit, after) = Evidence!list_for_tenant(t, length, after)
  BY DEF Evidence!ListTenantEvents, least
<1> HIDE DEF length
<1> QED
  BY <1>5, <1>6, PageIs

Listings == [tenant : Tenants, shown : SUBSET Events, twice : SUBSET Events, next : Events \cup {NoRow},
             at : Int \cup {NoRow}, resolved : BOOLEAN, ahead : BOOLEAN, behind : BOOLEAN,
             kept : SUBSET Events]

(* An overlay is still to come: the cursor is before it. *)
ToCome(l, e) == l.next # NoRow /\ Evidence!Newer(<<l.at, l.next>>, Evidence!Key(l.tenant, e))

(* What a listing has shown and what it has left.  An overlay that was kept is *)
(* shown or to come, unless the cursor's row went back; it is not both, unless *)
(* the row went on.                                                            *)
Followed(l) ==
    /\ l \in Listings
    /\ l.kept \subseteq Evidence!Written(l.tenant)
    /\ l.next # NoRow => l.at \in Int /\ overlay[<<l.tenant, l.next>>].at \in Int
    /\ l.resolved => l.next # NoRow
    /\ ~ l.behind => \A e \in l.kept : e \in l.shown \/ ToCome(l, e)
    /\ ~ l.ahead => /\ l.kept \cap l.twice = {}
                    /\ \A e \in l.kept \cap l.shown : ~ ToCome(l, e)

ListingInv == listing # Idle => Followed(listing)

LEMMA ListingInit == ASSUME Evidence!Init PROVE ListingInv
BY DEF Evidence!Init, ListingInv

(* A page shown to a reader who is after the cursor "after": what is kept and  *)
(* was to come is on it, or still to come.                                     *)
LEMMA PageFollows ==
    ASSUME ShownInv, NEW l \in Listings, l.kept \subseteq Evidence!Written(l.tenant), NEW after,
           after = NoRow \/ after \in Int \X Events,
           NEW limit \in 0..(_TENANT_EVENT_LIST_MAX_LIMIT + 1),
           ~ l.behind => \A e \in l.kept : e \in l.shown \/ e \in After(l.tenant, after),
           ~ l.ahead => /\ l.kept \cap l.twice = {}
                        /\ \A e \in l.kept \cap l.shown : e \notin After(l.tenant, after)
    PROVE  Followed(Evidence!Shown(l, Evidence!ListTenantEvents(l.tenant, limit, after)))
<1> DEFINE t == l.tenant
           page == Evidence!ListTenantEvents(t, limit, after)
           items == Evidence!ToSet(page.items)
           next == page.next
           at == IF next = NoRow THEN NoRow ELSE overlay[<<t, next>>].at
           m == Evidence!Shown(l, page)
<1>1. t \in Tenants
  BY DEF Listings
<1>2. items = OnPage(t, after, next) /\ next \in After(t, after) \cup {NoRow}
  BY <1>1, EventsPage
<1>3. m = [l EXCEPT !.shown = l.shown \cup items, !.twice = l.twice \cup (l.shown \cap items),
                    !.next = next, !.at = at, !.resolved = FALSE]
  BY DEF Evidence!Shown, Listings
<1> HIDE DEF page, items, m
<1>4. items \subseteq After(t, after) /\ After(t, after) \subseteq Evidence!Written(t)
  BY <1>2 DEF OnPage, After
<1>5. Evidence!Written(t) \subseteq Events /\ \A e \in Evidence!Written(t) : overlay[<<t, e>>].at \in Int
  BY <1>1 DEF Evidence!Written, ShownInv, ShownTables
<1>6. next # NoRow => next \in Evidence!Written(t) /\ at \in Int /\ at = overlay[<<t, next>>].at
  BY <1>2, <1>4, <1>5
<1>7. next \in Events \cup {NoRow} /\ at \in Int \cup {NoRow}
  BY <1>5, <1>6
<1> HIDE DEF next, at
<1>8. /\ m.tenant = t /\ m.kept = l.kept /\ m.behind = l.behind /\ m.ahead = l.ahead
      /\ m.shown = l.shown \cup items /\ m.twice = l.twice \cup (l.shown \cap items)
      /\ m.next = next /\ m.at = at /\ m.resolved = FALSE
  BY <1>3 DEF Listings
<1>9. m \in Listings
  <2>1. l.shown \cup items \in SUBSET Events /\ l.twice \cup (l.shown \cap items) \in SUBSET Events
    BY <1>4, <1>5 DEF Listings
  <2> QED
    BY <1>3, <1>7, <2>1 DEF Listings
<1>10. ASSUME NEW e PROVE ToCome(m, e) <=> next # NoRow /\ Precedes(t, next, e)
  BY <1>6, <1>8 DEF ToCome, Precedes, Evidence!Key
<1>11. ASSUME ~ m.behind, NEW e \in m.kept PROVE e \in m.shown \/ ToCome(m, e)
  <2>1. e \in l.shown \/ e \in After(t, after)
    BY <1>8, <1>11
  <2>2. CASE e \in l.shown
    BY <1>8, <2>2
  <2>3. CASE e \in After(t, after)
    <3>1. e \in items \/ (next # NoRow /\ Precedes(t, next, e))
      BY <1>2, <2>3 DEF OnPage
    <3> QED
      BY <1>8, <1>10, <3>1
  <2> QED
    BY <2>1, <2>2, <2>3
<1>12. ASSUME ~ m.ahead PROVE m.kept \cap m.twice = {}
  BY <1>4, <1>8, <1>12
<1>13. ASSUME ~ m.ahead, NEW e \in m.kept \cap m.shown, ToCome(m, e) PROVE FALSE
  <2>1. next # NoRow /\ Precedes(t, next, e)
    BY <1>10, <1>13
  <2>2. e \notin items
    BY <1>2, <2>1 DEF OnPage
  <2>3. e \in l.shown /\ e \in l.kept /\ e \notin After(t, after)
    BY <1>8, <1>13, <2>2
  <2>4. e \in Evidence!Written(t) /\ next \in After(t, after)
    BY <1>2, <2>1, <2>3
  <2>5. /\ after # NoRow /\ Evidence!Newer(after, Evidence!Key(t, next))
        /\ ~ Evidence!Newer(after, Evidence!Key(t, e))
    BY <2>3, <2>4 DEF After
  <2>6. after[1] \in Int /\ after[2] \in Int /\ next \in Int /\ e \in Int
    BY <1>4, <1>5, <2>4, <2>5, EvidenceAssumption
  <2>7. overlay[<<t, next>>].at \in Int /\ overlay[<<t, e>>].at \in Int
    BY <1>4, <1>5, <2>4
  <2> QED
    BY <2>1, <2>5, <2>6, <2>7 DEF Precedes, Evidence!Newer, Evidence!Key
<1>14. m.kept \subseteq Evidence!Written(m.tenant)
  BY <1>8
<1>15. m.next # NoRow => m.at \in Int /\ overlay[<<m.tenant, m.next>>].at \in Int
  BY <1>6, <1>8
<1>16. Followed(m)
  BY <1>8, <1>9, <1>11, <1>12, <1>13, <1>14, <1>15 DEF Followed
<1> QED
  BY <1>16 DEF m, page

(* The first page: everything is to come. *)
LEMMA FirstPageFollows ==
    ASSUME ShownInv, NEW key, NEW t \in Tenants, NEW limit \in 0..(_TENANT_EVENT_LIST_MAX_LIMIT + 1),
           Evidence!list_events(key, t, limit)
    PROVE  ListingInv'
<1> DEFINE l == Evidence!NewListing(t)
<1>1. /\ l.tenant = t /\ l.shown = {} /\ l.twice = {} /\ l.kept = Evidence!Written(t)
      /\ l \in Listings
  BY DEF Evidence!NewListing, Listings, Evidence!Written
<1>2. After(t, NoRow) = Evidence!Written(t)
  BY DEF After
<1>3. listing' = Evidence!Shown(l, Evidence!ListTenantEvents(t, limit, NoRow)) /\ overlay' = overlay
  BY DEF Evidence!list_events, Evidence!tables
<1> HIDE DEF l
<1>4. Followed(listing')
  BY <1>1, <1>2, <1>3, PageFollows
<1>5. Followed(listing)'
  BY <1>3, <1>4 DEF Followed, ToCome, Evidence!Written, Evidence!Key
<1> QED
  BY <1>5 DEF ListingInv

(* The lookup: with the row as it was, or gone on, nothing is lost; with the   *)
(* row as it was, or gone back, nothing comes again.                           *)
LEMMA LookupFollows ==
    ASSUME ShownInv, ListingInv, NEW key, Evidence!resolve_cursor(key)
    PROVE  ListingInv'
<1> DEFINE l == listing
           t == listing.tenant
           now == overlay[<<t, listing.next>>].at
           m == [listing EXCEPT !.at = now, !.resolved = TRUE, !.ahead = listing.ahead \/ now > listing.at,
                                !.behind = listing.behind \/ now < listing.at]
<1>1. Followed(l) /\ l.next # NoRow
  BY DEF Evidence!resolve_cursor, ListingInv
<1>2. l \in Listings /\ l.at \in Int /\ now \in Int /\ l.next \in Int /\ t \in Tenants
  BY <1>1, EvidenceAssumption DEF Followed, Listings
<1>3. listing' = m /\ overlay' = overlay
  BY <1>2 DEF Evidence!resolve_cursor, Evidence!tables, Listings
<1>4. /\ m.tenant = t /\ m.shown = l.shown /\ m.twice = l.twice /\ m.kept = l.kept
      /\ m.next = l.next /\ m.at = now /\ m \in Listings
      /\ m.ahead = (l.ahead \/ now > l.at) /\ m.behind = (l.behind \/ now < l.at)
  BY <1>2 DEF Listings
<1> HIDE DEF m
<1>5. ASSUME NEW e \in l.kept
      PROVE  /\ ToCome(l, e) /\ ~ (now < l.at) => ToCome(m, e)
             /\ ~ ToCome(l, e) /\ ~ (now > l.at) => ~ ToCome(m, e)
  <2>1. e \in Int /\ overlay[<<t, e>>].at \in Int
    BY <1>1, <1>2, EvidenceAssumption DEF Followed, Evidence!Written, ShownInv, ShownTables
  <2> HIDE DEF now
  <2> QED
    BY <1>1, <1>2, <1>4, <2>1 DEF ToCome, Evidence!Newer, Evidence!Key
<1>6. Followed(m)
  <2>1. ~ m.behind => \A e \in m.kept : e \in m.shown \/ ToCome(m, e)
    BY <1>1, <1>4, <1>5 DEF Followed
  <2>2. ~ m.ahead => m.kept \cap m.twice = {} /\ \A e \in m.kept \cap m.shown : ~ ToCome(m, e)
    BY <1>1, <1>4, <1>5 DEF Followed
  <2>3. /\ m.kept \subseteq Evidence!Written(m.tenant)
        /\ m.next # NoRow /\ m.at \in Int /\ overlay[<<m.tenant, m.next>>].at \in Int
    BY <1>1, <1>2, <1>4 DEF Followed
  <2> QED
    BY <1>4, <2>1, <2>2, <2>3 DEF Followed
<1>7. Followed(listing)'
  BY <1>3, <1>6 DEF Followed, ToCome, Evidence!Written, Evidence!Key
<1> QED
  BY <1>7 DEF ListingInv

LEMMA NextPageFollows ==
    ASSUME ShownInv, ListingInv, NEW limit \in 0..(_TENANT_EVENT_LIST_MAX_LIMIT + 1), Evidence!next_page(limit)
    PROVE  ListingInv'
<1> DEFINE l == listing
           t == listing.tenant
           after == <<listing.at, listing.next>>
<1>1. Followed(l) /\ l.next # NoRow
  BY DEF Evidence!next_page, ListingInv, Followed
<1>2. l \in Listings /\ l.at \in Int /\ l.next \in Events /\ t \in Tenants
  BY <1>1 DEF Followed, Listings
<1>3. after \in Int \X Events /\ after # NoRow
  BY <1>2, EvidenceAssumption
<1>4. listing' = Evidence!Shown(l, Evidence!ListTenantEvents(t, limit, after)) /\ overlay' = overlay
  BY DEF Evidence!next_page, Evidence!tables
<1>5. ASSUME NEW e \in l.kept PROVE ToCome(l, e) <=> e \in After(t, after)
  BY <1>1, <1>3 DEF ToCome, After, Followed
<1>6. l.kept \subseteq Evidence!Written(t)
  BY <1>1 DEF Followed
<1>7. /\ ~ l.behind => \A e \in l.kept : e \in l.shown \/ e \in After(t, after)
      /\ ~ l.ahead => /\ l.kept \cap l.twice = {}
                       /\ \A e \in l.kept \cap l.shown : e \notin After(t, after)
  BY <1>1, <1>5 DEF Followed
<1> HIDE DEF after, l
<1>8. Followed(listing')
  BY <1>2, <1>3, <1>4, <1>6, <1>7, PageFollows DEF l
<1>9. Followed(listing)'
  BY <1>4, <1>8 DEF Followed, ToCome, Evidence!Written, Evidence!Key
<1> QED
  BY <1>9 DEF ListingInv

(* A commit leaves alone what is kept; the cursor's row has a time. *)
LEMMA CommitFollows ==
    ASSUME ShownInv, ListingInv, NEW c \in Callers, Evidence!Commit(c)
    PROVE  ListingInv'
<1> DEFINE w == request[c].writes
           k == w.overlay[1]
           l == listing
           t == listing.tenant
<1>1. /\ HasFlushed(request[c])
      /\ overlay' = IF w.overlay = NoRow THEN overlay ELSE [overlay EXCEPT ![k] = w.overlay[2]]
      /\ listing' = IF w.overlay = NoRow THEN listing ELSE Evidence!Untouched(k)
  BY DEF Evidence!Commit, HasFlushed
<1>2. w.overlay # NoRow => w.overlay[2].at \in Int
  BY <1>1 DEF ShownInv, ShownWrites
<1>3. DOMAIN overlay = Tenants \X Events
  BY DEF ShownInv, ShownTables
<1>4. CASE w.overlay = NoRow
  <2>1. overlay' = overlay /\ listing' = listing
    BY <1>1, <1>4
  <2> QED
    BY <2>1 DEF ListingInv, Followed, ToCome, Evidence!Written, Evidence!Key
<1>5. CASE w.overlay # NoRow /\ listing = Idle
  BY <1>1, <1>5 DEF Evidence!Untouched, ListingInv
<1>6. CASE w.overlay # NoRow /\ listing # Idle
  <2> DEFINE m == IF k[1] = t THEN [listing EXCEPT !.kept = listing.kept \ {k[2]}] ELSE listing
  <2>1. Followed(l) /\ l \in Listings /\ t \in Tenants
    BY <1>6 DEF ListingInv, Followed, Listings
  <2>2. listing' = m
    BY <1>1, <1>6, <2>1 DEF Evidence!Untouched, Listings
  <2>3. /\ m \in Listings /\ m.tenant = t /\ m.shown = l.shown /\ m.twice = l.twice
        /\ m.next = l.next /\ m.at = l.at /\ m.resolved = l.resolved
        /\ m.ahead = l.ahead /\ m.behind = l.behind
        /\ m.kept = IF k[1] = t THEN l.kept \ {k[2]} ELSE l.kept
    BY <2>1 DEF Listings
  <2> HIDE DEF m
  <2>4. overlay' = [overlay EXCEPT ![k] = w.overlay[2]]
    BY <1>1, <1>6
  <2> HIDE DEF w
  <2>5. ASSUME NEW e \in m.kept PROVE overlay'[<<t, e>>] = overlay[<<t, e>>] /\ e \in l.kept /\ e \in Events
    <3>1. e \in l.kept /\ e \in Events /\ (k[1] = t => e # k[2])
      BY <2>1, <2>3 DEF Listings
    <3>2. k # <<t, e>>
      BY <3>1
    <3> QED
      BY <1>3, <2>1, <2>4, <3>1, <3>2
  <2>6. m.kept \subseteq {e \in Events : overlay'[<<t, e>>] # NoRow}
    BY <2>1, <2>5 DEF Followed, Evidence!Written
  <2>7. m.next # NoRow => m.at \in Int /\ overlay'[<<t, m.next>>].at \in Int
    <3> SUFFICES ASSUME m.next # NoRow PROVE m.at \in Int /\ overlay'[<<t, m.next>>].at \in Int
      OBVIOUS
    <3>1. m.at \in Int /\ overlay[<<t, m.next>>].at \in Int /\ m.next \in Events
      BY <2>1, <2>3 DEF Followed, Listings
    <3>2. overlay'[<<t, m.next>>] = overlay[<<t, m.next>>] \/ overlay'[<<t, m.next>>] = w.overlay[2]
      BY <1>3, <2>1, <2>4, <3>1
    <3> QED
      BY <1>2, <1>6, <3>1, <3>2
  <2>8. ASSUME NEW e \in m.kept
        PROVE  (m.next # NoRow /\ Evidence!Newer(<<m.at, m.next>>, <<overlay'[<<t, e>>].at, e>>)) <=> ToCome(l, e)
    BY <2>3, <2>5 DEF ToCome, Evidence!Key
  <2>9. /\ ~ m.behind => \A e \in m.kept : e \in m.shown \/ ToCome(l, e)
        /\ ~ m.ahead => m.kept \cap m.twice = {} /\ \A e \in m.kept \cap m.shown : ~ ToCome(l, e)
        /\ m.resolved => m.next # NoRow
    BY <2>1, <2>3, <2>5 DEF Followed
  <2>10. ASSUME NEW e \in listing'.kept PROVE ToCome(listing, e)' <=> ToCome(l, e)
    BY <2>2, <2>3, <2>8, <2>10 DEF ToCome, Evidence!Key, Evidence!Newer
  <2>11. Followed(listing)'
    BY <2>2, <2>3, <2>6, <2>7, <2>9, <2>10 DEF Followed, Evidence!Written
  <2> QED
    BY <2>11 DEF ListingInv
<1> QED
  BY <1>4, <1>5, <1>6

(* The other steps leave overlays and readers alone. *)
LEMMA OthersDoNotRead ==
    ASSUME \/ \E x \in Changes : Evidence!ChangeMembership(x[1], x[2], x[3])
           \/ \E t \in Closing : Evidence!DeactivateTenant(t)
           \/ \E e \in Duplicates : Evidence!MergeDuplicateEvents(e)
           \/ \E e \in Existing : Evidence!ReProjectEvent(e)
           \/ \E c \in Callers : \/ \E key \in ApiKeys, t \in Tenants : Evidence!require_tenant_membership(c, key, t)
                               \/ Evidence!Handle(c)
                               \/ Evidence!RollBack(c)
    PROVE  UNCHANGED <<overlay, listing>>
<1>1. ASSUME NEW c, NEW w, Evidence!Flush(c, w) PROVE UNCHANGED <<overlay, listing>>
  BY <1>1 DEF Evidence!Flush, Evidence!tables
<1>2. ASSUME NEW c \in Callers, Evidence!Handle(c) PROVE UNCHANGED <<overlay, listing>>
  <2>1. \E w : Evidence!Flush(c, w)
    BY <1>2 DEF Evidence!Handle, Evidence!register_source, Evidence!RegisterTenantSource,
         Evidence!open_ingestion_run, Evidence!OpenTenantIngestionRun, Evidence!submit_claims_batch,
         Evidence!SubmitTenantClaimsBatch, Evidence!complete_ingestion_run, Evidence!CompleteTenantIngestionRun,
         Evidence!submit_safety_report, Evidence!SubmitTenantSafetyReport, Evidence!upsert_event_overlay,
         Evidence!UpsertTenantEventOverlay
  <2> QED
    BY <1>1, <2>1
<1> QED
  BY <1>2 DEF Evidence!ChangeMembership, Evidence!DeactivateTenant, Evidence!MergeDuplicateEvents,
              Evidence!ReProjectEvent, Evidence!require_tenant_membership, Evidence!RollBack, Evidence!tables

LEMMA ListingStep ==
    ASSUME ShownInv, ListingInv, Evidence!Next PROVE ListingInv'
<1>1. ASSUME UNCHANGED <<overlay, listing>> PROVE ListingInv'
  BY <1>1 DEF ListingInv, Followed, ToCome, Evidence!Written, Evidence!Key
<1>2. ASSUME Evidence!Read PROVE ListingInv'
  BY <1>2, FirstPageFollows, LookupFollows, NextPageFollows DEF Evidence!Read
<1>3. Evidence!Read \/ (\E c \in Callers : Evidence!Commit(c)) \/ UNCHANGED <<overlay, listing>>
  BY OthersDoNotRead DEF Evidence!Next
<1> QED
  BY <1>1, <1>2, <1>3, CommitFollows

(* The routes show what the tables hold. *)
LEMMA ShownInvImplies ==
    ASSUME TenancyInv, ShownInv, ListingInv PROVE Evidence!EvidenceShown
<1>1. Evidence!ListingWhole
  BY DEF Evidence!ListingWhole, ListingInv, Followed, ToCome
<1>2. ASSUME NEW key \in ApiKeys, NEW t \in Tenants, Evidence!Admitted(key, t),
             NEW e \in Evidence!Written(t) \ absorbed
      PROVE  Evidence!get_event_overlay(key, t, e) = overlay[<<t, e>>]
  <2>1. e \in projected
    BY <1>2 DEF Evidence!Written, ShownInv, ShownTables, Visible
  <2> QED
    BY <1>2, <2>1 DEF Evidence!get_event_overlay, Evidence!GetTenantEventOverlay
<1> QED
  BY <1>1, <1>2, EvidenceIsShown DEF Evidence!EvidenceShown

--------------------------------------------------------------------------------
(* Metering *)

LEMMA TimesGrows == ASSUME NEW a \in Int, NEW b \in Int, NEW T \in Nat, a <= b PROVE a * T <= b * T
OBVIOUS

LEMMA QuotientBounds ==
    ASSUME NEW T \in Nat \ {0}, NEW t \in Int
    PROVE  t \div T \in Int /\ (t \div T) * T <= t /\ t < (t \div T + 1) * T
OBVIOUS

(* The day of a tick. *)
LEMMA QuotientIs ==
    ASSUME NEW T \in Nat \ {0}, NEW t \in Int, NEW d \in Int
    PROVE  t \div T = d <=> (d * T <= t /\ t < (d + 1) * T)
<1> DEFINE q == t \div T
<1>1. q \in Int /\ q * T <= t /\ t < (q + 1) * T
  BY QuotientBounds
<1> HIDE DEF q
<1>2. ASSUME d * T <= t, t < (d + 1) * T, q < d PROVE FALSE
  <2>1. (q + 1) * T <= d * T
    BY <1>1, <1>2, TimesGrows
  <2> QED
    BY <1>1, <1>2, <2>1
<1>3. ASSUME d * T <= t, t < (d + 1) * T, d < q PROVE FALSE
  <2>1. (d + 1) * T <= q * T
    BY <1>1, <1>3, TimesGrows
  <2> QED
    BY <1>1, <1>3, <2>1
<1> QED
  BY <1>1, <1>2, <1>3 DEF q

(* The ticks of a day, as a job counts them. *)
DayTicks(d) == {t \in Meters!Ticks : Meters!InRange(t, Meters!_day_bounds(d))}

LEMMA TicksAre ==
    /\ IsFiniteSet(Meters!Ticks) /\ Meters!Ticks \subseteq Int /\ Meters!Ticks # {}
    /\ \A d \in Days : DayTicks(d) = {t \in Meters!Ticks : t \div TicksPerDay = d}
<1> DEFINE T == TicksPerDay
           span(d) == (d * T)..(d * T + T - 1)
           spans == {span(d) : d \in Days}
           f == [d \in Days |-> span(d)]
<1>1. T \in Nat \ {0} /\ IsFiniteSet(Days) /\ Days \subseteq Int /\ Days # {}
  BY MetersAssumption
<1> HIDE DEF T
<1>2. \A d \in Days : d * T \in Int /\ IsFiniteSet(span(d)) /\ span(d) \subseteq Int /\ d * T \in span(d)
  <2> SUFFICES ASSUME NEW d \in Days
               PROVE  d * T \in Int /\ IsFiniteSet(span(d)) /\ span(d) \subseteq Int /\ d * T \in span(d)
    OBVIOUS
  <2>1. d * T \in Int /\ d * T + T - 1 \in Int
    BY <1>1
  <2>2. d * T \in span(d)
    BY <1>1, <2>1
  <2> QED
    BY <2>1, <2>2, FS_Interval
<1>3. Meters!Ticks = UNION spans
  BY DEF Meters!Ticks, T
<1> HIDE DEF span
<1>4. f \in Surjection(Days, spans)
  BY DEF Surjection
<1>5. IsFiniteSet(spans)
  BY <1>1, <1>4, FS_Surjection
<1>6. \A U \in spans : IsFiniteSet(U) /\ U \subseteq Int
  BY <1>2
<1>7. Meters!Ticks \subseteq Int /\ Meters!Ticks # {}
  BY <1>1, <1>2, <1>3
<1>8. IsFiniteSet(Meters!Ticks)
  <2> HIDE DEF spans
  <2> QED
    BY <1>3, <1>5, <1>6, FS_UNION
<1>9. \A d \in Days : DayTicks(d) = {t \in Meters!Ticks : t \div TicksPerDay = d}
  <2> SUFFICES ASSUME NEW d \in Days, NEW t \in Meters!Ticks
               PROVE  Meters!InRange(t, Meters!_day_bounds(d)) <=> t \div TicksPerDay = d
    BY DEF DayTicks
  <2>1. t \in Int /\ d \in Int
    BY <1>1, <1>7
  <2>2. Meters!InRange(t, Meters!_day_bounds(d)) <=> (t >= d * T /\ t < (d + 1) * T)
    BY DEF Meters!InRange, Meters!_day_bounds, T
  <2>3. t \div T = d <=> (d * T <= t /\ t < (d + 1) * T)
    BY <1>1, <2>1, QuotientIs
  <2>4. d * T \in Int
    BY <1>2
  <2> QED
    BY <2>1, <2>2, <2>3, <2>4 DEF T
<1> QED
  BY <1>7, <1>8, <1>9

(* A concatenation has the elements of both sequences. *)
LEMMA ConcatSet ==
    ASSUME NEW V, NEW a \in Seq(V), NEW b \in Seq(V)
    PROVE  Meters!ToSet(a \o b) = Meters!ToSet(a) \cup Meters!ToSet(b)
<1>1. Len(a) \in Nat /\ Len(b) \in Nat /\ DOMAIN a = 1..Len(a) /\ DOMAIN b = 1..Len(b)
  OBVIOUS
<1>2. /\ DOMAIN (a \o b) = 1..(Len(a) + Len(b))
      /\ \A i \in 1..(Len(a) + Len(b)) : (a \o b)[i] = IF i <= Len(a) THEN a[i] ELSE b[i - Len(a)]
  OBVIOUS
<1>3. \A x \in Meters!ToSet(a) : x \in Meters!ToSet(a \o b)
  BY <1>1, <1>2 DEF Meters!ToSet
<1>4. ASSUME NEW x \in Meters!ToSet(b) PROVE x \in Meters!ToSet(a \o b)
  <2>1. PICK i \in 1..Len(b) : x = b[i]
    BY <1>1 DEF Meters!ToSet
  <2>2. i + Len(a) \in 1..(Len(a) + Len(b)) /\ ~ (i + Len(a) <= Len(a)) /\ (i + Len(a)) - Len(a) = i
    BY <1>1
  <2>3. (a \o b)[i + Len(a)] = x
    BY <1>2, <2>1, <2>2
  <2> QED
    BY <1>2, <2>2, <2>3 DEF Meters!ToSet
<1>5. ASSUME NEW x \in Meters!ToSet(a \o b) PROVE x \in Meters!ToSet(a) \/ x \in Meters!ToSet(b)
  <2>1. PICK i \in 1..(Len(a) + Len(b)) : x = (a \o b)[i]
    BY <1>2 DEF Meters!ToSet
  <2>2. i \in 1..Len(a) \/ (i - Len(a) \in 1..Len(b) /\ ~ (i <= Len(a)))
    BY <1>1
  <2> QED
    BY <1>1, <1>2, <2>1, <2>2 DEF Meters!ToSet
<1> QED
  BY <1>3, <1>4, <1>5

(* FlattenSeq has the elements of the sequences it is given, and no other. *)
LEMMA FlattenIs ==
    ASSUME NEW V, NEW N \in Nat, NEW seqs \in [1..N -> Seq(V)]
    PROVE  /\ Meters!FlattenSeq(seqs) \in Seq(V)
           /\ \A x : x \in Meters!ToSet(Meters!FlattenSeq(seqs))
                        <=> \E i \in 1..N : x \in Meters!ToSet(seqs[i])
<1> DEFINE flat == Meters!FlattenSeq(seqs)
           Eq(f) == f = [i \in 1..N |-> IF i = 1 THEN seqs[i] ELSE f[i - 1] \o seqs[i]]
           g == CHOOSE f : Eq(f)
           Of(s, n) == \A x : x \in Meters!ToSet(s) <=> \E i \in 1..n : x \in Meters!ToSet(seqs[i])
<1>0. Len(seqs) = N
  OBVIOUS
<1>1. CASE N = 0
  <2>1. flat = seqs
    BY <1>0, <1>1 DEF Meters!FlattenSeq
  <2>2. seqs = <<>>
    BY <1>1
  <2> QED
    BY <1>1, <2>1, <2>2 DEF Meters!ToSet
<1>2. CASE N # 0
  <2>1. flat = g[N]
    BY <1>0, <1>2 DEF Meters!FlattenSeq
  <2> DEFINE W == Seq(V)
             G == [x \in (1..N) \X W |-> IF x[1] = 1 THEN seqs[x[1]] ELSE x[2] \o seqs[x[1]]]
  <2>2. \A n \in 1..N : seqs[n] \in W
    OBVIOUS
  <2>3. <<>> \in W /\ G \in [(1..N) \X W -> W]
    <3>1. \A s \in W, n \in 1..N : s \o seqs[n] \in W
      BY <2>2
    <3>2. <<>> \in W
      OBVIOUS
    <3> HIDE DEF W
    <3> QED
      BY <2>2, <3>1, <3>2
  <2> HIDE DEF W
  <2>4. PICK h \in [0..N -> W] : Recursive(h, N, <<>>, G)
    <3> HIDE DEF G
    <3> QED
      BY <2>3, Recursion
  <2>5. \A n \in 1..N : h[n] = IF n = 1 THEN seqs[n] ELSE h[n - 1] \o seqs[n]
    <3> SUFFICES ASSUME NEW n \in 1..N PROVE h[n] = IF n = 1 THEN seqs[n] ELSE h[n - 1] \o seqs[n]
      OBVIOUS
    <3>1. n - 1 \in 0..N
      OBVIOUS
    <3>2. <<n, h[n - 1]>> \in (1..N) \X W
      BY <2>4, <3>1
    <3>3. h[n] = G[<<n, h[n - 1]>>]
      BY <2>4 DEF Recursive
    <3> QED
      BY <3>2, <3>3
  <2>6. Eq([n \in 1..N |-> h[n]])
    <3>1. \A n \in 1..N : n # 1 => n - 1 \in 1..N
      OBVIOUS
    <3> QED
      BY <2>5, <3>1
  <2>7. Eq(g)
    <3> HIDE DEF Eq
    <3> QED
      BY <2>6
  <2>8. \A n \in 1..N : g[n] = IF n = 1 THEN seqs[n] ELSE g[n - 1] \o seqs[n]
    <3>1. g = [i \in 1..N |-> IF i = 1 THEN seqs[i] ELSE g[i - 1] \o seqs[i]]
      BY <2>7
    <3> HIDE DEF g
    <3> QED
      BY <3>1
  <2> HIDE DEF g
  <2> DEFINE bad == {n \in 1..N : ~ (g[n] \in W /\ Of(g[n], n))}
  <2>9. ASSUME bad # {} PROVE FALSE
    <3>1. bad \in SUBSET Nat
      OBVIOUS
    <3>2. PICK n \in bad : \A m \in bad : n <= m
      <4> HIDE DEF bad
      <4> QED
        BY <2>9, <3>1, LeastNat
    <3>3. n \in 1..N
      BY <3>2
    <3>4. CASE n = 1
      <4>1. g[n] = seqs[1] /\ seqs[1] \in W
        BY <2>2, <2>8, <3>3, <3>4
      <4>2. \A i \in 1..n : i = 1
        BY <3>4
      <4>3. 1 \in 1..n
        BY <3>4
      <4>4. Of(g[n], n)
        <5> HIDE DEF bad
        <5> QED
          BY <4>1, <4>2, <4>3
      <4> QED
        BY <3>2, <4>1, <4>4
    <3>5. CASE n # 1
      <4>1. n - 1 \in 1..N /\ ~ (n <= n - 1)
        BY <3>3, <3>5
      <4>2. g[n - 1] \in W /\ Of(g[n - 1], n - 1)
        BY <3>2, <4>1
      <4>3. g[n] = g[n - 1] \o seqs[n]
        BY <2>8, <3>3, <3>5
      <4>4. g[n - 1] \in Seq(V) /\ seqs[n] \in Seq(V)
        BY <2>2, <3>3, <4>2 DEF W
      <4>5. g[n] \in W
        BY <4>3, <4>4 DEF W
      <4>6. \A x : x \in Meters!ToSet(g[n]) <=> x \in Meters!ToSet(g[n - 1]) \/ x \in Meters!ToSet(seqs[n])
        BY <4>3, <4>4, ConcatSet
      <4>7. \A i \in 1..n : i = n \/ i \in 1..(n - 1)
        BY <3>3
      <4>8. n \in 1..n /\ \A i \in 1..(n - 1) : i \in 1..n
        BY <3>3
      <4>9. Of(g[n], n)
        <5> HIDE DEF bad
        <5> QED
          BY <4>2, <4>6, <4>7, <4>8
      <4> QED
        BY <3>2, <4>5, <4>9
    <3> QED
      BY <3>4, <3>5
  <2>10. g[N] \in W /\ Of(g[N], N)
    <3>1. N \in 1..N
      BY <1>2
    <3> QED
      BY <2>9, <3>1
  <2> QED
    BY <2>1, <2>10 DEF W
<1> QED
  BY <1>1, <1>2

StagedRow == [cell : Meters!Cells, count : Nat, final : BOOLEAN]

(* The events of a cell's tenant and metric on its day. *)
Series(used, c) == [t \in Meters!Ticks |-> used[<<c[1], c[2], t>>]]

DaySum(used, c) == Meters!Total(Series(used, c), DayTicks(c[3]))

(* No event is added to the day any more. *)
Closed(d, now, writers) ==
    /\ now >= Meters!_day_bounds(d).end
    /\ \A w \in Writers : writers[w] # Idle => ~ Meters!InRange(writers[w].at[3], Meters!_day_bounds(d))

(* A row that was counted: not too much, and all of a day that is over. *)
RowSound(c, row, used, now, writers) ==
    /\ row.count \in Nat
    /\ row.count <= DaySum(used, c)
    /\ row.final => row.count = DaySum(used, c) /\ Closed(c[3], now, writers)

TenantMetrics == Meters!ToSet(_TENANT_SCOPED_METRICS)

(* A set of cells has all metrics of a tenant's day or none. *)
Whole(cells) ==
    \A c \in cells : c[1] \in Metered => \A m \in TenantMetrics : <<c[1], m, c[3]>> \in cells

(* What a job has to count, is writing, and has written. *)
Work(q) ==
    Meters!ToSet(q.todo) \cup {q.staged[k].cell : k \in DOMAIN q.staged}
        \cup {c \in Meters!Cells : q.counted # NoRow /\ q.counted.cell = c}

JobTyped(q) ==
    /\ DOMAIN q = {"days", "tenant_ids", "todo", "counted", "staged"}
    /\ q.days \in Seq(Days) /\ q.todo \in Seq(Meters!Cells) /\ q.staged \in Seq(StagedRow)
    /\ q.counted # NoRow => q.counted \in StagedRow
    /\ q.tenant_ids # NoRow => q.tenant_ids \subseteq Metered

JobRows(q, used, now, writers) ==
    /\ q.counted # NoRow => RowSound(q.counted.cell, q.counted, used, now, writers)
    /\ \A k \in DOMAIN q.staged : RowSound(q.staged[k].cell, q.staged[k], used, now, writers)

Rolled == {c \in Meters!Cells : rollup[c] # NoRow}

Uncommitted(writers) ==
    \A w \in Writers : writers[w] # Idle => writers[w].n \in Nat /\ writers[w].at[3] \in Int

MeteringInv ==
    /\ events \in [Meters!Keys -> Nat] /\ meterNow \in Int
    /\ DOMAIN writer = Writers /\ Uncommitted(writer)
    /\ DOMAIN job = Callers /\ DOMAIN rollup = Meters!Cells
    /\ \A c \in Meters!Cells : rollup[c] # NoRow => RowSound(c, rollup[c], events, meterNow, writer)
    /\ Whole(Rolled)
    /\ \A j \in Callers : Meters!Running(j) =>
          JobTyped(job[j]) /\ JobRows(job[j], events, meterNow, writer) /\ Whole(Work(job[j]))

LEMMA MeteringInit ==
    ASSUME Meters!Init PROVE MeteringInv
<1>1. meterNow \in Int
  <2>1. \E m \in Meters!Ticks : \A n \in Meters!Ticks : m <= n
    BY TicksAre, LeastElement
  <2>2. meterNow \in Meters!Ticks
    BY <2>1 DEF Meters!Init, Meters!Min
  <2> QED
    BY <2>2, TicksAre
<1>2. events \in [Meters!Keys -> Nat]
  BY DEF Meters!Init
<1>3. Rolled = {} /\ \A j \in Callers : ~ Meters!Running(j)
  BY DEF Meters!Init, Rolled, Meters!Running
<1> QED
  BY <1>1, <1>2, <1>3 DEF Meters!Init, MeteringInv, Whole, Uncommitted

(* A cell is a tenant's or the system's, a metric, and a day. *)
LEMMA CellIs ==
    /\ \A c \in Meters!Cells : /\ c[3] \in Days /\ c = <<c[1], c[2], c[3]>>
                               /\ <<c[1], c[2]>> \in Meters!Scoped
                               /\ \A t \in Meters!Ticks : <<c[1], c[2], t>> \in Meters!Keys
    /\ \A s \in Meters!Scoped, d \in Days : <<s[1], s[2], d>> \in Meters!Cells
    /\ \A t \in Metered, m \in TenantMetrics, d \in Days : <<t, m, d>> \in Meters!Cells
    /\ \A c \in Meters!Cells : c[1] \in Metered => c[2] \in TenantMetrics
<1>1. \A s \in Meters!Scoped : s = <<s[1], s[2]>>
  BY DEF Meters!Scoped
<1>2. \A t \in Metered, m \in TenantMetrics : <<t, m>> \in Meters!Scoped
  BY DEF Meters!Scoped, TenantMetrics
<1>3. \A s \in Meters!Scoped : s[1] \in Metered => s[2] \in TenantMetrics
  BY MetersAssumption DEF Meters!Scoped, TenantMetrics
<1>4. \A s \in Meters!Scoped, d \in Days : <<s[1], s[2], d>> \in Meters!Cells
  BY DEF Meters!Cells
<1>5. \A s \in Meters!Scoped, t \in Meters!Ticks : <<s[1], s[2], t>> \in Meters!Keys
  BY DEF Meters!Keys
<1>6. \A c \in Meters!Cells : \E s \in Meters!Scoped, d \in Days : c = <<s[1], s[2], d>>
  BY DEF Meters!Cells
<1>7. ASSUME NEW c \in Meters!Cells
      PROVE  /\ c[3] \in Days /\ c = <<c[1], c[2], c[3]>> /\ <<c[1], c[2]>> \in Meters!Scoped
             /\ \A t \in Meters!Ticks : <<c[1], c[2], t>> \in Meters!Keys
             /\ c[1] \in Metered => c[2] \in TenantMetrics
  <2>1. PICK s \in Meters!Scoped, d \in Days : c = <<s[1], s[2], d>>
    BY <1>6
  <2>2. c[1] = s[1] /\ c[2] = s[2] /\ c[3] = d /\ <<s[1], s[2]>> \in Meters!Scoped
    BY <1>1, <2>1
  <2> QED
    BY <1>3, <1>5, <2>1, <2>2
<1>8. \A t \in Metered, m \in TenantMetrics, d \in Days : <<t, m, d>> \in Meters!Cells
  <2> SUFFICES ASSUME NEW t \in Metered, NEW m \in TenantMetrics, NEW d \in Days
               PROVE  <<t, m, d>> \in Meters!Cells
    OBVIOUS
  <2> DEFINE s == <<t, m>>
  <2>1. s \in Meters!Scoped /\ s[1] = t /\ s[2] = m
    BY <1>2
  <2> HIDE DEF s
  <2> QED
    BY <1>4, <2>1
<1> QED
  BY <1>4, <1>7, <1>8

LEMMA DaySumNat ==
    ASSUME NEW used \in [Meters!Keys -> Nat], NEW c \in Meters!Cells
    PROVE  /\ Numbers(Series(used, c), Meters!Ticks) /\ Numbers(Series(used, c), DayTicks(c[3]))
           /\ IsFiniteSet(DayTicks(c[3])) /\ DaySum(used, c) \in Nat
<1>1. \A t \in Meters!Ticks : <<c[1], c[2], t>> \in Meters!Keys
  BY CellIs
<1>2. Numbers(Series(used, c), Meters!Ticks)
  BY <1>1 DEF Numbers, Series
<1>3. DayTicks(c[3]) \subseteq Meters!Ticks
  BY DEF DayTicks
<1>4. IsFiniteSet(DayTicks(c[3]))
  BY <1>3, TicksAre, FS_Subset
<1>5. Numbers(Series(used, c), DayTicks(c[3]))
  BY <1>2, <1>3 DEF Numbers
<1> QED
  BY <1>2, <1>4, <1>5, TotalNat DEF DaySum

(* Rows stay sound while events are added to days that are not closed. *)
LEMMA RowStaysSound ==
    ASSUME NEW used \in [Meters!Keys -> Nat], NEW more \in [Meters!Keys -> Nat],
           NEW now, NEW later, NEW writers, NEW others, NEW c \in Meters!Cells, NEW row,
           RowSound(c, row, used, now, writers),
           \A k \in Meters!Keys : used[k] <= more[k],
           Closed(c[3], now, writers) =>
              /\ Closed(c[3], later, others)
              /\ \A t \in DayTicks(c[3]) : used[<<c[1], c[2], t>>] = more[<<c[1], c[2], t>>]
    PROVE  RowSound(c, row, more, later, others)
<1> DEFINE S == DayTicks(c[3])
           f == Series(used, c)
           g == Series(more, c)
<1>1. Numbers(f, S) /\ Numbers(g, S) /\ IsFiniteSet(S) /\ DaySum(used, c) \in Nat /\ DaySum(more, c) \in Nat
  BY DaySumNat
<1>2. \A t \in S : t \in Meters!Ticks /\ <<c[1], c[2], t>> \in Meters!Keys
  BY CellIs DEF DayTicks
<1>3. \A t \in S : f[t] = used[<<c[1], c[2], t>>] /\ g[t] = more[<<c[1], c[2], t>>]
  BY <1>2 DEF Series
<1>4. \A t \in S : f[t] <= g[t]
  BY <1>2, <1>3
<1>5. Closed(c[3], now, writers) => \A t \in S : f[t] = g[t]
  BY <1>3
<1> HIDE DEF S, f, g
<1>6. Meters!Total(f, S) <= Meters!Total(g, S)
  BY <1>1, <1>4, TotalMono
<1>7. Closed(c[3], now, writers) => Meters!Total(f, S) = Meters!Total(g, S)
  BY <1>1, <1>5, TotalSame
<1>8. DaySum(used, c) = Meters!Total(f, S) /\ DaySum(more, c) = Meters!Total(g, S)
  BY DEF DaySum, S, f, g
<1> HIDE DEF DaySum
<1> QED
  BY <1>1, <1>6, <1>7, <1>8 DEF RowSound

(* A step of the clock or of an action that is metered. *)
LEMMA UsageStep ==
    ASSUME MeteringInv, UNCHANGED <<rollup, job>>,
           events' \in [Meters!Keys -> Nat], meterNow' \in Int,
           DOMAIN writer' = Writers, Uncommitted(writer'),
           \A k \in Meters!Keys : events[k] <= events'[k],
           \A c \in Meters!Cells : Closed(c[3], meterNow, writer) =>
              /\ Closed(c[3], meterNow', writer')
              /\ \A t \in DayTicks(c[3]) : events[<<c[1], c[2], t>>] = events'[<<c[1], c[2], t>>]
    PROVE  MeteringInv'
<1>1. ASSUME NEW c \in Meters!Cells, NEW row, RowSound(c, row, events, meterNow, writer)
      PROVE  RowSound(c, row, events', meterNow', writer')
  BY <1>1, RowStaysSound DEF MeteringInv
<1>2. \A c \in Meters!Cells : rollup'[c] # NoRow => RowSound(c, rollup'[c], events', meterNow', writer')
  BY <1>1 DEF MeteringInv
<1>3. ASSUME NEW j \in Callers, Meters!Running(j)
      PROVE  JobTyped(job[j]) /\ JobRows(job[j], events', meterNow', writer') /\ Whole(Work(job[j]))
  <2>1. JobTyped(job[j]) /\ JobRows(job[j], events, meterNow, writer) /\ Whole(Work(job[j]))
    BY <1>3 DEF MeteringInv
  <2>2. job[j].counted # NoRow => job[j].counted.cell \in Meters!Cells
    BY <2>1 DEF JobTyped, StagedRow
  <2>3. \A k \in DOMAIN job[j].staged : job[j].staged[k].cell \in Meters!Cells
    <3> DEFINE staged == job[j].staged
    <3>1. staged \in Seq(StagedRow)
      BY <2>1 DEF JobTyped
    <3> HIDE DEF staged
    <3>2. \A k \in DOMAIN staged : staged[k] \in StagedRow
      BY <3>1
    <3> QED
      BY <3>2 DEF staged, StagedRow
  <2>4. JobRows(job[j], events', meterNow', writer')
    BY <1>1, <2>1, <2>2, <2>3 DEF JobRows
  <2> QED
    BY <2>1, <2>4
<1>4. \A j \in Callers : Meters!Running(j)' = Meters!Running(j)
  BY DEF Meters!Running
<1>5. \A j \in Callers : job'[j] = job[j] /\ Work(job[j])' = Work(job[j])
  BY DEF Work
<1>6. Rolled' = Rolled /\ Whole(Rolled)
  BY DEF Rolled, MeteringInv
<1>7. Whole(Rolled)'
  BY <1>6 DEF Whole
<1>8. \A j \in Callers : Meters!Running(j)' =>
          JobTyped(job'[j]) /\ JobRows(job'[j], events', meterNow', writer') /\ Whole(Work(job'[j]))
  BY <1>3, <1>4, <1>5
<1> QED
  BY <1>2, <1>7, <1>8 DEF MeteringInv

LEMMA DayEnd ==
    ASSUME NEW c \in Meters!Cells
    PROVE  c[3] \in Int /\ Meters!_day_bounds(c[3]).end \in Int
<1>1. c[3] \in Days
  BY CellIs
<1>2. c[3] \in Int /\ TicksPerDay \in Int
  <2>1. Days \subseteq Int /\ TicksPerDay \in Nat \ {0}
    BY MetersAssumption
  <2>2. c[3] \in Int
    BY <1>1, <2>1, Zenon
  <2> QED
    BY <2>1, <2>2
<1>3. (c[3] + 1) * TicksPerDay \in Int
  BY <1>2
<1> QED
  BY <1>2, <1>3 DEF Meters!_day_bounds

LEMMA TickKeeps ==
    ASSUME MeteringInv, Meters!Tick PROVE MeteringInv'
<1>1. meterNow' = meterNow + 1 /\ UNCHANGED <<events, writer, rollup, job>>
  BY DEF Meters!Tick
<1>2. events' \in [Meters!Keys -> Nat] /\ meterNow' \in Int /\ DOMAIN writer' = Writers /\ Uncommitted(writer')
  BY <1>1 DEF MeteringInv
<1>3. \A k \in Meters!Keys : events[k] <= events'[k]
  <2>1. \A k \in Meters!Keys : events[k] \in Nat
    BY DEF MeteringInv
  <2> QED
    BY <1>1, <2>1
<1>4. ASSUME NEW c \in Meters!Cells, Closed(c[3], meterNow, writer)
      PROVE  Closed(c[3], meterNow', writer')
  <2>1. Meters!_day_bounds(c[3]).end \in Int
    BY DayEnd
  <2>2. meterNow \in Int
    BY DEF MeteringInv
  <2>3. meterNow >= Meters!_day_bounds(c[3]).end
    BY <1>4 DEF Closed
  <2>4. meterNow' >= Meters!_day_bounds(c[3]).end
    BY <1>1, <2>1, <2>2, <2>3
  <2> QED
    BY <1>1, <1>4, <2>4 DEF Closed
<1> QED
  BY <1>1, <1>2, <1>3, <1>4, UsageStep

(* An event is recorded at the present tick, which is after every closed day. *)
LEMMA RecordKeeps ==
    ASSUME MeteringInv, NEW w \in Writers, NEW s \in Meters!Scoped, NEW n \in Quantities,
           Meters!record(w, s, n)
    PROVE  MeteringInv'
<1> DEFINE row == [at |-> <<s[1], s[2], meterNow>>, n |-> n]
<1>1. writer' = [writer EXCEPT ![w] = row] /\ UNCHANGED <<meterNow, events, rollup, job>>
  BY DEF Meters!record
<1>2. row.n \in Nat /\ row.at[3] = meterNow /\ meterNow \in Int
  BY MetersAssumption DEF MeteringInv
<1> HIDE DEF row
<1>3. \A v \in Writers : writer'[v] = IF v = w THEN row ELSE writer[v]
  BY <1>1 DEF MeteringInv
<1>4. /\ events' \in [Meters!Keys -> Nat] /\ meterNow' \in Int
      /\ DOMAIN writer' = Writers /\ Uncommitted(writer')
  <2>1. Uncommitted(writer')
    BY <1>2, <1>3 DEF MeteringInv, Uncommitted
  <2> QED
    BY <1>1, <2>1 DEF MeteringInv
<1>5. \A k \in Meters!Keys : events[k] <= events'[k]
  <2>1. \A k \in Meters!Keys : events[k] \in Nat
    BY DEF MeteringInv
  <2> QED
    BY <1>1, <2>1
<1>6. ASSUME NEW c \in Meters!Cells, Closed(c[3], meterNow, writer)
      PROVE  Closed(c[3], meterNow', writer')
  <2>1. Meters!_day_bounds(c[3]).end \in Int
    BY DayEnd
  <2>3. meterNow >= Meters!_day_bounds(c[3]).end
    BY <1>6 DEF Closed
  <2>4. ~ Meters!InRange(row.at[3], Meters!_day_bounds(c[3]))
    BY <1>2, <2>1, <2>3 DEF Meters!InRange
  <2> QED
    BY <1>1, <1>3, <1>6, <2>4 DEF Closed
<1> QED
  BY <1>1, <1>4, <1>5, <1>6, UsageStep

(* Of a transaction that ends, the days that were closed see nothing. *)
LEMMA ActionEndKeeps ==
    ASSUME MeteringInv, NEW w \in Writers, Meters!CommitAction(w) \/ Meters!RollBackAction(w)
    PROVE  MeteringInv'
<1>1. /\ writer[w] # Idle /\ writer' = [writer EXCEPT ![w] = Idle]
      /\ UNCHANGED <<meterNow, rollup, job>>
      /\ \/ events' = [events EXCEPT ![writer[w].at] = @ + writer[w].n]
         \/ events' = events
  BY DEF Meters!CommitAction, Meters!RollBackAction
<1>2. events \in [Meters!Keys -> Nat] /\ writer[w].n \in Nat /\ meterNow \in Int
  BY <1>1 DEF MeteringInv, Uncommitted
<1>3. /\ events' \in [Meters!Keys -> Nat]
      /\ \A k \in Meters!Keys : events[k] <= events'[k] /\ (k # writer[w].at => events'[k] = events[k])
  BY <1>1, <1>2
<1>4. \A v \in Writers : writer'[v] = IF v = w THEN Idle ELSE writer[v]
  BY <1>1 DEF MeteringInv
<1>5. meterNow' \in Int /\ DOMAIN writer' = Writers /\ Uncommitted(writer')
  <2>1. Uncommitted(writer')
    BY <1>4 DEF MeteringInv, Uncommitted
  <2> QED
    BY <1>1, <2>1 DEF MeteringInv
<1>6. ASSUME NEW c \in Meters!Cells, Closed(c[3], meterNow, writer)
      PROVE  /\ Closed(c[3], meterNow', writer')
             /\ \A t \in DayTicks(c[3]) : events[<<c[1], c[2], t>>] = events'[<<c[1], c[2], t>>]
  <2>1. Closed(c[3], meterNow', writer')
    BY <1>1, <1>4, <1>6 DEF Closed
  <2>2. ~ Meters!InRange(writer[w].at[3], Meters!_day_bounds(c[3]))
    BY <1>1, <1>6 DEF Closed
  <2>3. ASSUME NEW t \in DayTicks(c[3]) PROVE events[<<c[1], c[2], t>>] = events'[<<c[1], c[2], t>>]
    <3>1. t \in Meters!Ticks /\ Meters!InRange(t, Meters!_day_bounds(c[3]))
      BY DEF DayTicks
    <3>2. <<c[1], c[2], t>> # writer[w].at
      <4> SUFFICES ASSUME writer[w].at = <<c[1], c[2], t>> PROVE FALSE
        OBVIOUS
      <4>1. writer[w].at[3] = t
        OBVIOUS
      <4> QED
        BY <2>2, <3>1, <4>1
    <3>3. <<c[1], c[2], t>> \in Meters!Keys
      BY <3>1, CellIs
    <3> QED
      BY <1>3, <3>2, <3>3
  <2> QED
    BY <2>1, <2>3
<1> QED
  BY <1>1, <1>3, <1>5, <1>6, UsageStep

(* A step of one job that leaves the rollups alone. *)
LEMMA OneJob ==
    ASSUME MeteringInv, UNCHANGED <<meterNow, events, writer, rollup>>, NEW j \in Callers, NEW q,
           job' = [job EXCEPT ![j] = q],
           q \notin {Idle, Ended} => JobTyped(q) /\ JobRows(q, events, meterNow, writer) /\ Whole(Work(q))
    PROVE  MeteringInv'
<1>1. DOMAIN job' = Callers /\ \A i \in Callers : job'[i] = IF i = j THEN q ELSE job[i]
  BY DEF MeteringInv
<1>2. \A i \in Callers : Meters!Running(i)' =>
         JobTyped(job'[i]) /\ JobRows(job'[i], events, meterNow, writer) /\ Whole(Work(job'[i]))
  <2> SUFFICES ASSUME NEW i \in Callers, job'[i] \notin {Idle, Ended}
               PROVE  JobTyped(job'[i]) /\ JobRows(job'[i], events, meterNow, writer) /\ Whole(Work(job'[i]))
    BY DEF Meters!Running
  <2>1. CASE i = j
    BY <1>1, <2>1
  <2>2. CASE i # j
    <3>1. job'[i] = job[i] /\ Meters!Running(i)
      BY <1>1, <2>2 DEF Meters!Running
    <3> QED
      BY <3>1 DEF MeteringInv
  <2> QED
    BY <2>1, <2>2
<1>3. Rolled' = Rolled /\ Whole(Rolled)
  BY DEF Rolled, MeteringInv
<1>4. Whole(Rolled)'
  BY <1>3 DEF Whole
<1>5. \A c \in Meters!Cells : rollup'[c] # NoRow => RowSound(c, rollup'[c], events', meterNow', writer')
  BY DEF MeteringInv
<1> QED
  BY <1>1, <1>2, <1>4, <1>5 DEF MeteringInv

(* A job begins with nothing counted. *)
LEMMA BeginKeeps ==
    ASSUME MeteringInv, NEW j \in Callers, NEW d \in Days, NEW e \in Days,
           NEW only \in {NoRow} \cup {{t} : t \in Metered}, Meters!compute_rollups(j, d, e, only)
    PROVE  MeteringInv'
<1> DEFINE q == [days |-> Meters!_iter_days(d, e), tenant_ids |-> only,
                 todo |-> <<>>, counted |-> NoRow, staged |-> <<>>]
<1>1. job' = [job EXCEPT ![j] = q] /\ UNCHANGED <<meterNow, events, writer, rollup>>
  BY DEF Meters!compute_rollups
<1>2. Meters!_iter_days(d, e) \in Seq(Days)
  <2>1. Days \subseteq Int /\ d..e \subseteq Days
    BY MetersAssumption
  <2>2. d \in Int /\ e \in Int
    BY <2>1
  <2> DEFINE n == e - d + 1
             days == [i \in 1..n |-> d + i - 1]
  <2>3. \A i \in 1..n : d + i - 1 \in d..e
    BY <2>2
  <2>4. \A i \in 1..n : d + i - 1 \in Days
    BY <2>1, <2>3
  <2>5. days \in [1..n -> Days]
    BY <2>4
  <2>6. CASE n >= 0
    <3>1. n \in Nat
      BY <2>2, <2>6
    <3> HIDE DEF n, days
    <3>2. days \in Seq(Days)
      BY <2>5, <3>1
    <3> QED
      BY <3>2 DEF Meters!_iter_days, days, n
  <2>7. CASE ~ (n >= 0)
    <3>1. 1..n = {}
      BY <2>2, <2>7
    <3>2. days = <<>>
      BY <3>1
    <3> HIDE DEF n, days
    <3>3. days \in Seq(Days)
      BY <3>2
    <3> QED
      BY <3>3 DEF Meters!_iter_days, days, n
  <2> QED
    BY <2>6, <2>7
<1>3. /\ DOMAIN q = {"days", "tenant_ids", "todo", "counted", "staged"}
      /\ q.days = Meters!_iter_days(d, e) /\ q.tenant_ids = only
      /\ q.todo = <<>> /\ q.counted = NoRow /\ q.staged = <<>>
  OBVIOUS
<1> HIDE DEF q
<1>4. q.tenant_ids # NoRow => q.tenant_ids \subseteq Metered
  BY <1>3
<1>5. JobTyped(q)
  BY <1>2, <1>3, <1>4 DEF JobTyped
<1>6. JobRows(q, events, meterNow, writer)
  BY <1>3 DEF JobRows
<1>7. Work(q) = {}
  BY <1>3 DEF Work, Meters!ToSet
<1>8. Whole(Work(q))
  BY <1>7 DEF Whole
<1> QED
  BY <1>1, <1>5, <1>6, <1>8, OneJob

(* The job is to count all metrics of a tenant's day, or none. *)
LEMMA NextDayKeeps ==
    ASSUME MeteringInv, NEW j \in Callers, Meters!NextDay(j)
    PROVE  MeteringInv'
<1> DEFINE old == job[j]
           day == Head(old.days)
           tenants == IF old.tenant_ids = NoRow
                      THEN Meters!distinct_tenants_in_range(Meters!_day_bounds(day)) ELSE old.tenant_ids
           groups(order) == [i \in DOMAIN order |-> Meters!CellsOf(order[i], _TENANT_SCOPED_METRICS, day)]
           system == Meters!CellsOf(NO_TENANT_SENTINEL, _SYSTEM_METRICS, day)
           todo(order) == Meters!FlattenSeq(groups(order)) \o system
<1>1. /\ Meters!Running(j) /\ old.todo = <<>> /\ old.counted = NoRow /\ old.days # <<>>
      /\ UNCHANGED <<meterNow, events, writer, rollup>>
  BY DEF Meters!NextDay
<1>2. PICK order \in Meters!SetToSeqs(tenants) :
         job' = [job EXCEPT ![j].days = Tail(@), ![j].todo = todo(order)]
  BY DEF Meters!NextDay
<1>3. JobTyped(old) /\ JobRows(old, events, meterNow, writer) /\ Whole(Work(old))
  BY <1>1 DEF MeteringInv
<1>4. day \in Days /\ Tail(old.days) \in Seq(Days)
  BY <1>1, <1>3 DEF JobTyped
<1>5. tenants \subseteq Metered
  BY <1>3 DEF JobTyped, Meters!distinct_tenants_in_range
<1> DEFINE N == Cardinality(tenants)
<1>6. N \in Nat /\ order \in [1..N -> Metered]
  <2>1. IsFiniteSet(Metered)
    BY MetersAssumption
  <2>2. N \in Nat
    <3> HIDE DEF tenants
    <3> QED
      BY <1>5, <2>1, FS_Subset, FS_CardinalityType
  <2>3. Meters!Cardinality(tenants) = N
    BY DEF Meters!Cardinality, Cardinality
  <2>4. order \in [1..N -> tenants]
    <3> HIDE DEF tenants
    <3> QED
      BY <1>2, <2>3 DEF Meters!SetToSeqs
  <2> HIDE DEF tenants
  <2> QED
    BY <1>5, <2>2, <2>4
<1> HIDE DEF N, tenants, day
<1>7. /\ _TENANT_SCOPED_METRICS \in Seq(TenantMetrics)
      /\ _SYSTEM_METRICS \in Seq(Meters!ToSet(_SYSTEM_METRICS))
  BY MetersAssumption DEF TenantMetrics
<1>8. ASSUME NEW t \in Metered
      PROVE  LET cells == Meters!CellsOf(t, _TENANT_SCOPED_METRICS, day)
             IN /\ cells \in Seq(Meters!Cells)
                /\ \A c \in Meters!ToSet(cells) : c[1] = t /\ c[3] = day
                /\ \A m \in TenantMetrics : <<t, m, day>> \in Meters!ToSet(cells)
  <2> DEFINE M == _TENANT_SCOPED_METRICS
             cells == Meters!CellsOf(t, M, day)
  <2>1. Len(M) \in Nat /\ DOMAIN M = 1..Len(M) /\ \A i \in 1..Len(M) : M[i] \in TenantMetrics
    BY <1>7
  <2>2. cells = [i \in 1..Len(M) |-> <<t, M[i], day>>]
    BY <2>1 DEF Meters!CellsOf
  <2>3. \A i \in 1..Len(M) : <<t, M[i], day>> \in Meters!Cells
    BY <1>4, <2>1, CellIs
  <2>4. \A m \in TenantMetrics : \E i \in 1..Len(M) : M[i] = m
    BY <2>1 DEF TenantMetrics, Meters!ToSet
  <2> HIDE DEF cells, M
  <2>5. cells \in Seq(Meters!Cells)
    BY <2>1, <2>2, <2>3
  <2>6. \A c \in Meters!ToSet(cells) : c[1] = t /\ c[3] = day
    BY <2>2 DEF Meters!ToSet
  <2>7. \A m \in TenantMetrics : <<t, m, day>> \in Meters!ToSet(cells)
    BY <2>2, <2>4 DEF Meters!ToSet
  <2> QED
    BY <2>5, <2>6, <2>7 DEF cells, M
<1>9. system \in Seq(Meters!Cells) /\ \A c \in Meters!ToSet(system) : c[1] = NO_TENANT_SENTINEL
  <2> DEFINE M == _SYSTEM_METRICS
  <2>1. Len(M) \in Nat /\ DOMAIN M = 1..Len(M) /\ \A i \in 1..Len(M) : M[i] \in Meters!ToSet(M)
    BY <1>7
  <2>2. system = [i \in 1..Len(M) |-> <<NO_TENANT_SENTINEL, M[i], day>>]
    BY <2>1 DEF Meters!CellsOf
  <2>3. \A i \in 1..Len(M) : <<NO_TENANT_SENTINEL, M[i], day>> \in Meters!Cells
    <3> SUFFICES ASSUME NEW i \in 1..Len(M) PROVE <<NO_TENANT_SENTINEL, M[i], day>> \in Meters!Cells
      OBVIOUS
    <3>1. <<NO_TENANT_SENTINEL, M[i]>> \in Meters!Scoped
      BY <2>1 DEF Meters!Scoped
    <3> QED
      BY <1>4, <3>1 DEF Meters!Cells
  <2> HIDE DEF system, M
  <2>4. system \in Seq(Meters!Cells)
    BY <2>1, <2>2, <2>3
  <2>5. \A c \in Meters!ToSet(system) : c[1] = NO_TENANT_SENTINEL
    BY <2>2 DEF Meters!ToSet
  <2> QED
    BY <2>4, <2>5
<1> DEFINE gs == groups(order)
           flat == Meters!FlattenSeq(gs)
<1>10. gs \in [1..N -> Seq(Meters!Cells)] /\ \A i \in 1..N : gs[i] = Meters!CellsOf(order[i], _TENANT_SCOPED_METRICS, day)
  BY <1>6, <1>8
<1> HIDE DEF gs, system
<1>11. /\ flat \in Seq(Meters!Cells)
       /\ \A x : x \in Meters!ToSet(flat) <=> \E i \in 1..N : x \in Meters!ToSet(gs[i])
  BY <1>6, <1>10, FlattenIs
<1>12. ASSUME NEW c \in Meters!ToSet(flat), NEW m \in TenantMetrics
       PROVE  <<c[1], m, c[3]>> \in Meters!ToSet(flat)
  <2>1. PICK i \in 1..N : c \in Meters!ToSet(gs[i])
    BY <1>11
  <2>2. order[i] \in Metered
    BY <1>6
  <2>3. c[1] = order[i] /\ c[3] = day /\ <<order[i], m, day>> \in Meters!ToSet(gs[i])
    BY <1>8, <1>10, <2>1, <2>2
  <2> QED
    BY <1>11, <2>1, <2>3
<1> HIDE DEF flat
<1> DEFINE new == flat \o system
           q == [old EXCEPT !.days = Tail(@), !.todo = new]
<1>13. new \in Seq(Meters!Cells)
  BY <1>9, <1>11
<1>14. Meters!ToSet(new) = Meters!ToSet(flat) \cup Meters!ToSet(system)
  BY <1>9, <1>11, ConcatSet
<1> HIDE DEF new
<1>15. job' = [job EXCEPT ![j] = q]
  <2>1. DOMAIN job = Callers /\ todo(order) = new
    BY DEF MeteringInv, new, flat, gs
  <2> QED
    BY <1>2, <2>1
<1>16. /\ DOMAIN q = DOMAIN old /\ q.days = Tail(old.days) /\ q.todo = new
       /\ q.tenant_ids = old.tenant_ids /\ q.counted = old.counted /\ q.staged = old.staged
  BY <1>3 DEF JobTyped
<1> HIDE DEF q, old
<1>17. JobTyped(q)
  BY <1>3, <1>4, <1>13, <1>16 DEF JobTyped
<1>18. JobRows(q, events, meterNow, writer)
  BY <1>3, <1>16 DEF JobRows
<1>19. Whole(Work(q))
  <2>1. Meters!ToSet(<<>>) = {}
    BY DEF Meters!ToSet
  <2>2. /\ Work(old) = {old.staged[k].cell : k \in DOMAIN old.staged}
        /\ Work(q) = Meters!ToSet(new) \cup {old.staged[k].cell : k \in DOMAIN old.staged}
    BY <1>1, <1>16, <2>1 DEF Work, old
  <2>3. NO_TENANT_SENTINEL \notin Metered
    BY MetersAssumption
  <2> QED
    BY <1>3, <1>9, <1>12, <1>14, <2>2, <2>3 DEF Whole
<1> QED
  BY <1>1, <1>15, <1>17, <1>18, <1>19, OneJob

(* A cell is counted: what is committed of its day, all of it when that is over. *)
LEMMA CountKeeps ==
    ASSUME MeteringInv, NEW j \in Callers, Meters!CountCell(j)
    PROVE  MeteringInv'
<1> DEFINE old == job[j]
           c == Head(old.todo)
           row == [cell |-> c, count |-> Meters!count_in_range(c[1], c[2], Meters!_day_bounds(c[3])),
                   final |-> Meters!Over(c[3])]
           q == [old EXCEPT !.todo = Tail(@), !.counted = row]
<1>1. /\ Meters!Running(j) /\ old.counted = NoRow /\ old.todo # <<>>
      /\ UNCHANGED <<meterNow, events, writer, rollup>>
      /\ job' = [job EXCEPT ![j].todo = Tail(@), ![j].counted = row]
  BY DEF Meters!CountCell
<1>2. JobTyped(old) /\ JobRows(old, events, meterNow, writer) /\ Whole(Work(old))
  BY <1>1 DEF MeteringInv
<1>3. /\ c \in Meters!Cells /\ Tail(old.todo) \in Seq(Meters!Cells)
      /\ Meters!ToSet(old.todo) = {c} \cup Meters!ToSet(Tail(old.todo))
  <2> DEFINE s == old.todo
  <2>1. s \in Seq(Meters!Cells) /\ s # <<>>
    BY <1>1, <1>2 DEF JobTyped
  <2> HIDE DEF s
  <2>2. s = <<Head(s)>> \o Tail(s) /\ Head(s) \in Meters!Cells /\ Tail(s) \in Seq(Meters!Cells)
    BY <2>1
  <2>3. <<Head(s)>> \in Seq(Meters!Cells)
    BY <2>2
  <2>4. Meters!ToSet(<<Head(s)>>) = {Head(s)}
    BY DEF Meters!ToSet
  <2>5. Meters!ToSet(<<Head(s)>> \o Tail(s)) = {Head(s)} \cup Meters!ToSet(Tail(s))
    <3> DEFINE a == <<Head(s)>>
               b == Tail(s)
    <3>1. a \in Seq(Meters!Cells) /\ b \in Seq(Meters!Cells)
      BY <2>2, <2>3
    <3> HIDE DEF a, b
    <3>2. Meters!ToSet(a \o b) = Meters!ToSet(a) \cup Meters!ToSet(b)
      BY <3>1, ConcatSet
    <3> QED
      BY <2>4, <3>2 DEF a, b
  <2>6. Meters!ToSet(s) = {Head(s)} \cup Meters!ToSet(Tail(s))
    BY <2>2, <2>5
  <2> QED
    BY <2>2, <2>6 DEF s
<1> HIDE DEF c
<1>4. row.count = DaySum(events, c)
  BY DEF Meters!count_in_range, Meters!Recorded, DaySum, Series, DayTicks
<1>5. row.cell = c /\ row = [cell |-> c, count |-> row.count, final |-> row.final]
  OBVIOUS
<1>6. row.final <=> Closed(c[3], meterNow, writer)
  BY DEF Meters!Over, Closed
<1>7. row.final \in BOOLEAN
  BY DEF Meters!Over
<1> HIDE DEF row
<1>8. row.count \in Nat
  BY <1>3, <1>4, DaySumNat DEF MeteringInv
<1>9. row \in StagedRow
  BY <1>3, <1>5, <1>7, <1>8 DEF StagedRow
<1>10. RowSound(row.cell, row, events, meterNow, writer)
  BY <1>4, <1>5, <1>6, <1>8 DEF RowSound
<1>11. row # NoRow
  BY <1>9, MetersAssumption DEF StagedRow
<1>12. job' = [job EXCEPT ![j] = q]
  <2>1. DOMAIN job = Callers
    BY DEF MeteringInv
  <2> QED
    BY <1>1, <2>1
<1>13. /\ DOMAIN q = DOMAIN old /\ q.days = old.days /\ q.todo = Tail(old.todo)
       /\ q.tenant_ids = old.tenant_ids /\ q.counted = row /\ q.staged = old.staged
  BY <1>2 DEF JobTyped
<1> HIDE DEF q, old
<1>14. JobTyped(q)
  BY <1>2, <1>3, <1>9, <1>13 DEF JobTyped
<1>15. JobRows(q, events, meterNow, writer)
  BY <1>2, <1>10, <1>13 DEF JobRows
<1>16. Work(q) = Work(old)
  <2>1. /\ Work(old) = Meters!ToSet(old.todo) \cup {old.staged[k].cell : k \in DOMAIN old.staged}
        /\ Work(q) = Meters!ToSet(q.todo) \cup {q.staged[k].cell : k \in DOMAIN q.staged} \cup {c}
    BY <1>1, <1>3, <1>5, <1>11, <1>13 DEF Work, old
  <2> QED
    BY <1>3, <1>13, <2>1
<1> QED
  BY <1>1, <1>2, <1>12, <1>14, <1>15, <1>16, OneJob

(* The row that was counted is written. *)
LEMMA UpsertKeeps ==
    ASSUME MeteringInv, NEW j \in Callers, Meters!upsert(j)
    PROVE  MeteringInv'
<1> DEFINE old == job[j]
           row == old.counted
           q == [old EXCEPT !.counted = NoRow, !.staged = Append(@, row)]
<1>1. /\ Meters!Running(j) /\ row # NoRow
      /\ UNCHANGED <<meterNow, events, writer, rollup>>
      /\ job' = [job EXCEPT ![j].counted = NoRow, ![j].staged = Append(@, row)]
  BY DEF Meters!upsert
<1>2. JobTyped(old) /\ JobRows(old, events, meterNow, writer) /\ Whole(Work(old))
  BY <1>1 DEF MeteringInv
<1>3. row \in StagedRow /\ row.cell \in Meters!Cells /\ RowSound(row.cell, row, events, meterNow, writer)
  BY <1>1, <1>2 DEF JobTyped, JobRows, StagedRow
<1>4. job' = [job EXCEPT ![j] = q]
  <2>1. DOMAIN job = Callers
    BY DEF MeteringInv
  <2> QED
    BY <1>1, <2>1
<1>5. /\ DOMAIN q = DOMAIN old /\ q.days = old.days /\ q.todo = old.todo
      /\ q.tenant_ids = old.tenant_ids /\ q.counted = NoRow /\ q.staged = Append(old.staged, row)
  BY <1>2 DEF JobTyped
<1> HIDE DEF q
<1>6. old.staged \in Seq(StagedRow)
  BY <1>2 DEF JobTyped
<1> DEFINE s == old.staged
           n == Len(s)
<1>7. /\ n \in Nat /\ DOMAIN s = 1..n /\ DOMAIN q.staged = 1..(n + 1) /\ q.staged \in Seq(StagedRow)
      /\ q.staged[n + 1] = row /\ \A k \in 1..n : q.staged[k] = s[k]
  BY <1>3, <1>5, <1>6
<1> HIDE DEF old, row, s, n
<1>8. \A k \in 1..(n + 1) : k = n + 1 \/ k \in 1..n
  BY <1>7
<1>9. n + 1 \in 1..(n + 1) /\ \A k \in 1..n : k \in 1..(n + 1)
  BY <1>7
<1>10. JobTyped(q)
  BY <1>2, <1>5, <1>7 DEF JobTyped
<1>11. JobRows(q, events, meterNow, writer)
  <2>1. \A k \in 1..n : RowSound(s[k].cell, s[k], events, meterNow, writer)
    BY <1>2, <1>7 DEF JobRows, s
  <2>2. \A k \in 1..(n + 1) : RowSound(q.staged[k].cell, q.staged[k], events, meterNow, writer)
    BY <1>3, <1>7, <1>8, <2>1
  <2> QED
    BY <1>5, <1>7, <2>2 DEF JobRows
<1>12. Work(q) = Work(old)
  <2>1. {q.staged[k].cell : k \in DOMAIN q.staged} = {s[k].cell : k \in DOMAIN s} \cup {row.cell}
    <3>1. DOMAIN q.staged = 1..(n + 1) /\ DOMAIN s = 1..n
      BY <1>7
    <3> DEFINE A == {q.staged[k].cell : k \in 1..(n + 1)}
               B == {s[k].cell : k \in 1..n}
    <3>2. \A x \in A : x \in B \cup {row.cell}
      BY <1>7, <1>8
    <3>3. \A x \in B : x \in A
      BY <1>7, <1>9
    <3>4. row.cell \in A
      BY <1>7, <1>9
    <3> QED
      BY <3>1, <3>2, <3>3, <3>4
  <2>2. Work(old) = Meters!ToSet(old.todo) \cup {s[k].cell : k \in DOMAIN s} \cup {row.cell}
    BY <1>1, <1>3 DEF Work, row, s
  <2>3. Work(q) = Meters!ToSet(old.todo) \cup {q.staged[k].cell : k \in DOMAIN q.staged}
    BY <1>5 DEF Work
  <2> QED
    BY <2>1, <2>2, <2>3
<1> QED
  BY <1>1, <1>2, <1>4, <1>10, <1>11, <1>12, OneJob

(* The rows of a job are committed together: whole days of tenants. *)
LEMMA CommitJobKeeps ==
    ASSUME MeteringInv, NEW j \in Callers, Meters!CommitJob(j)
    PROVE  MeteringInv'
<1> DEFINE old == job[j]
           staged == old.staged
           Rows(c) == {k \in DOMAIN staged : staged[k].cell = c}
           Last(c) == Meters!Max(Rows(c))
           row(c) == [count |-> staged[Last(c)].count, final |-> staged[Last(c)].final]
           written == {staged[k].cell : k \in DOMAIN staged}
<1>1. /\ Meters!Running(j) /\ old.todo = <<>> /\ old.counted = NoRow
      /\ rollup' = [c \in Meters!Cells |-> IF Rows(c) = {} THEN rollup[c] ELSE row(c)]
      /\ job' = [job EXCEPT ![j] = Ended]
      /\ UNCHANGED <<meterNow, events, writer>>
  BY DEF Meters!CommitJob
<1>2. JobTyped(old) /\ JobRows(old, events, meterNow, writer) /\ Whole(Work(old))
  BY <1>1 DEF MeteringInv
<1>3. staged \in Seq(StagedRow)
  BY <1>2 DEF JobTyped
<1>4. Work(old) = written
  <2>1. Meters!ToSet(<<>>) = {}
    BY DEF Meters!ToSet
  <2> QED
    BY <1>1, <2>1 DEF Work
<1>5. \A k \in DOMAIN staged : RowSound(staged[k].cell, staged[k], events, meterNow, writer)
  BY <1>2 DEF JobRows
<1> HIDE DEF old, staged
<1>6. ASSUME NEW c, Rows(c) # {} PROVE Last(c) \in Rows(c)
  <2> DEFINE n == Len(staged)
             S == {n - k : k \in Rows(c)}
  <2>1. n \in Nat /\ Rows(c) \subseteq 1..n
    BY <1>3
  <2> HIDE DEF n, Rows
  <2>2. S \in SUBSET Nat /\ S # {}
    BY <1>6, <2>1
  <2>3. PICK m \in S : \A l \in S : m <= l
    BY <2>2, LeastNat
  <2>4. PICK k \in Rows(c) : m = n - k
    BY <2>3
  <2>5. ASSUME NEW l \in Rows(c) PROVE k >= l
    <3>1. m <= n - l
      BY <2>3
    <3> QED
      BY <2>1, <2>4, <3>1
  <2> QED
    BY <2>4, <2>5 DEF Meters!Max
<1>7. ASSUME NEW c \in Meters!Cells, Rows(c) # {}
      PROVE  row(c) # NoRow /\ RowSound(c, row(c), events, meterNow, writer)
  <2> DEFINE k == Last(c)
  <2>1. k \in DOMAIN staged /\ staged[k].cell = c
    BY <1>6, <1>7
  <2> HIDE DEF k
  <2>2. staged[k] \in StagedRow
    BY <1>3, <2>1
  <2>3. RowSound(c, staged[k], events, meterNow, writer)
    BY <1>5, <2>1
  <2>4. row(c).count = staged[k].count /\ row(c).final = staged[k].final
    BY DEF k
  <2>5. row(c) \in [count : Nat, final : BOOLEAN]
    BY <2>2 DEF StagedRow, k
  <2>6. row(c) # NoRow
    BY <2>5, MetersAssumption
  <2> HIDE DEF row
  <2> QED
    BY <2>3, <2>4, <2>6 DEF RowSound
<1> HIDE DEF row, Last
<1>8. \A c \in Meters!Cells : Rows(c) = {} <=> c \notin written
  OBVIOUS
<1>9. written \subseteq Meters!Cells
  <2>1. \A k \in DOMAIN staged : staged[k] \in StagedRow
    BY <1>3
  <2> QED
    BY <2>1 DEF StagedRow
<1> HIDE DEF Rows, written
<1>10. \A c \in Meters!Cells : rollup'[c] = IF c \in written THEN row(c) ELSE rollup[c]
  BY <1>1, <1>8
<1>11. \A c \in Meters!Cells : rollup'[c] # NoRow => RowSound(c, rollup'[c], events', meterNow', writer')
  <2> SUFFICES ASSUME NEW c \in Meters!Cells, rollup'[c] # NoRow
               PROVE  RowSound(c, rollup'[c], events, meterNow, writer)
    BY <1>1
  <2>1. CASE c \in written
    BY <1>7, <1>8, <1>10, <2>1
  <2>2. CASE c \notin written
    BY <1>10, <2>2 DEF MeteringInv
  <2> QED
    BY <2>1, <2>2
<1>12. Rolled' = Rolled \cup written
  BY <1>7, <1>8, <1>9, <1>10 DEF Rolled
<1>13. Whole(Rolled')
  BY <1>2, <1>4, <1>12 DEF Whole, MeteringInv
<1>14. Whole(Rolled)'
  BY <1>13 DEF Whole
<1>15. DOMAIN job' = Callers /\ \A i \in Callers : job'[i] = IF i = j THEN Ended ELSE job[i]
  BY <1>1 DEF MeteringInv
<1>16. \A i \in Callers : Meters!Running(i)' =>
         JobTyped(job'[i]) /\ JobRows(job'[i], events', meterNow', writer') /\ Whole(Work(job'[i]))
  <2> SUFFICES ASSUME NEW i \in Callers, job'[i] \notin {Idle, Ended}
               PROVE  JobTyped(job'[i]) /\ JobRows(job'[i], events, meterNow, writer) /\ Whole(Work(job'[i]))
    BY <1>1 DEF Meters!Running
  <2>1. job'[i] = job[i] /\ Meters!Running(i)
    BY <1>15 DEF Meters!Running
  <2> QED
    BY <2>1 DEF MeteringInv
<1>17. DOMAIN rollup' = Meters!Cells
  BY <1>1
<1> QED
  BY <1>1, <1>11, <1>14, <1>15, <1>16, <1>17 DEF MeteringInv

LEMMA MeteringStep ==
    ASSUME MeteringInv, Meters!Next PROVE MeteringInv'
<1>1. ASSUME NEW j \in Callers, Meters!RollBackJob(j) PROVE MeteringInv'
  <2>1. job' = [job EXCEPT ![j] = Ended] /\ UNCHANGED <<meterNow, events, writer, rollup>>
    BY <1>1 DEF Meters!RollBackJob
  <2> QED
    BY <2>1, OneJob
<1> QED
  BY <1>1, TickKeeps, RecordKeeps, ActionEndKeeps, BeginKeeps, NextDayKeeps, CountKeeps, UpsertKeeps,
     CommitJobKeeps DEF Meters!Next

(* The ticks of some days. *)
TicksOf(days) == {t \in Meters!Ticks : t \div TicksPerDay \in days}

(* The days of a metric add up to the events of those days. *)
LEMMA DaysAddUp ==
    ASSUME NEW f, Numbers(f, Meters!Ticks), NEW g,
           \A d \in Days : g[d] = Meters!Total(f, TicksOf({d})),
           NEW U \in SUBSET Days
    PROVE  Meters!Total(g, U) = Meters!Total(f, TicksOf(U))
<1>1. IsFiniteSet(Days) /\ IsFiniteSet(U)
  BY MetersAssumption, FS_Subset
<1>2. \A V : TicksOf(V) \subseteq Meters!Ticks /\ IsFiniteSet(TicksOf(V)) /\ Numbers(f, TicksOf(V))
  <2> TAKE V
  <2>1. TicksOf(V) \subseteq Meters!Ticks
    BY DEF TicksOf
  <2> QED
    BY <2>1, TicksAre, FS_Subset DEF Numbers
<1>3. Numbers(g, Days)
  BY <1>2, TotalNat DEF Numbers
<1> DEFINE B == {V \in SUBSET U : Meters!Total(g, V) # Meters!Total(f, TicksOf(V))}
<1>4. ASSUME B # {} PROVE FALSE
  <2>1. PICK V \in B : \A x \in V : V \ {x} \notin B
    <3> HIDE DEF B
    <3>1. B \subseteq SUBSET U
      BY DEF B
    <3> QED
      BY <1>1, <1>4, <3>1, SmallestPart
  <2>2. V \subseteq U /\ V \subseteq Days
    BY <2>1
  <2>3. CASE V = {}
    <3>1. TicksOf({}) = {}
      BY DEF TicksOf
    <3> QED
      BY <2>1, <2>3, <3>1, TotalEmpty
  <2>4. CASE V # {}
    <3>1. PICK d \in V : TRUE
      BY <2>4
    <3> DEFINE W == V \ {d}
    <3>2. W \in SUBSET U /\ W \notin B
      BY <2>1, <2>2, <3>1
    <3>3. Meters!Total(g, W) = Meters!Total(f, TicksOf(W))
      BY <3>2
    <3>4. IsFiniteSet(V) /\ Numbers(g, V) /\ d \in Days
      BY <1>1, <1>3, <2>2, FS_Subset DEF Numbers
    <3>5. Meters!Total(g, V) = g[d] + Meters!Total(g, W)
      BY <3>1, <3>4, TotalRemove
    <3>6. TicksOf(V) = TicksOf({d}) \cup TicksOf(W) /\ TicksOf({d}) \cap TicksOf(W) = {}
      BY <3>1 DEF TicksOf
    <3> HIDE DEF W
    <3>7. Numbers(f, TicksOf({d}) \cup TicksOf(W))
      BY <1>2, <3>6
    <3>8. Meters!Total(f, TicksOf({d}) \cup TicksOf(W)) = Meters!Total(f, TicksOf({d})) + Meters!Total(f, TicksOf(W))
      BY <1>2, <3>6, <3>7, TotalUnion
    <3>9. Meters!Total(f, TicksOf(V)) = g[d] + Meters!Total(g, W)
      BY <3>3, <3>4, <3>6, <3>8
    <3>10. Meters!Total(f, TicksOf(V)) = Meters!Total(g, V)
      BY <3>5, <3>9
    <3> QED
      BY <2>1, <3>10
  <2> QED
    BY <2>3, <2>4
<1> QED
  BY <1>4

LEMMA DaySumIs ==
    ASSUME NEW used, NEW c \in Meters!Cells
    PROVE  DaySum(used, c) = Meters!Total(Series(used, c), TicksOf({c[3]}))
<1>1. c[3] \in Days
  BY CellIs
<1>2. DayTicks(c[3]) = TicksOf({c[3]})
  BY <1>1, TicksAre DEF TicksOf
<1> QED
  BY <1>2 DEF DaySum

(* The totals of a range of days are not more than its events. *)
LEMMA SummaryIsSound ==
    ASSUME MeteringInv, NEW from \in Days, NEW to \in Days, NEW s \in Meters!Scoped
    PROVE  LET R == {d \in Days : d \in from..to /\ rollup[<<s[1], s[2], d>>] # NoRow}
               f == [d \in R |-> rollup[<<s[1], s[2], d>>].count]
           IN Meters!Total(f, R) <= Meters!Total(Meters!Recorded(s[1], s[2]), TicksOf(from..to))
<1> DEFINE R == {d \in Days : d \in from..to /\ rollup[<<s[1], s[2], d>>] # NoRow}
           f == [d \in R |-> rollup[<<s[1], s[2], d>>].count]
           h == Meters!Recorded(s[1], s[2])
           g == [d \in Days |-> Meters!Total(h, TicksOf({d}))]
           cell(d) == <<s[1], s[2], d>>
<1>1. R \subseteq Days /\ IsFiniteSet(R)
  <2>1. R \subseteq Days /\ IsFiniteSet(Days)
    BY MetersAssumption
  <2> QED
    BY <2>1, FS_Subset
<1>2. \A d \in Days : cell(d) \in Meters!Cells /\ cell(d)[1] = s[1] /\ cell(d)[2] = s[2] /\ cell(d)[3] = d
  BY CellIs
<1>3. \A d \in Days : Series(events, cell(d)) = h
  BY <1>2 DEF Series, Meters!Recorded
<1>4. ASSUME NEW d \in R
      PROVE  f[d] \in Nat /\ g[d] \in Nat /\ f[d] <= g[d]
  <2>1. d \in Days /\ cell(d) \in Meters!Cells
    BY <1>1, <1>2
  <2>2. RowSound(cell(d), rollup[cell(d)], events, meterNow, writer)
    BY <2>1 DEF MeteringInv
  <2>3. DaySum(events, cell(d)) = g[d]
    BY <1>2, <1>3, <2>1, DaySumIs
  <2>4. DaySum(events, cell(d)) \in Nat
    BY <2>1, DaySumNat DEF MeteringInv
  <2>5. f[d] = rollup[cell(d)].count
    OBVIOUS
  <2> HIDE DEF f, g, cell
  <2> QED
    BY <2>2, <2>3, <2>4, <2>5 DEF RowSound
<1>5. Numbers(h, Meters!Ticks)
  <2>1. PICK d \in Days : TRUE
    OBVIOUS
  <2>2. cell(d) \in Meters!Cells /\ Series(events, cell(d)) = h
    BY <1>2, <1>3
  <2>3. Numbers(Series(events, cell(d)), Meters!Ticks)
    BY <2>2, DaySumNat DEF MeteringInv
  <2> QED
    BY <2>2, <2>3
<1>6. \A d \in Days : g[d] = Meters!Total(h, TicksOf({d}))
  OBVIOUS
<1>7. TicksOf(R) \subseteq TicksOf(from..to) /\ \A V : TicksOf(V) \subseteq Meters!Ticks
  BY DEF TicksOf
<1> DEFINE S == TicksOf(from..to)
           P == TicksOf(R)
<1> HIDE DEF R, f, g, h
<1>8. Meters!Total(f, R) <= Meters!Total(g, R)
  <2>1. Numbers(f, R) /\ Numbers(g, R) /\ \A d \in R : f[d] <= g[d]
    BY <1>4 DEF Numbers
  <2> QED
    BY <1>1, <2>1, TotalMono
<1>9. Meters!Total(g, R) = Meters!Total(h, P)
  BY <1>1, <1>5, <1>6, DaysAddUp
<1>10. Meters!Total(h, S) = Meters!Total(h, P) + Meters!Total(h, S \ P)
       /\ Meters!Total(h, P) \in Nat /\ Meters!Total(h, S \ P) \in Nat
  <2>1. P \subseteq Meters!Ticks /\ S \ P \subseteq Meters!Ticks /\ P \cup (S \ P) = S /\ P \cap (S \ P) = {}
    BY <1>7
  <2> HIDE DEF S, P
  <2>2. IsFiniteSet(P) /\ IsFiniteSet(S \ P)
    BY <2>1, TicksAre, FS_Subset
  <2>3. Numbers(h, P) /\ Numbers(h, S \ P) /\ Numbers(h, P \cup (S \ P))
    BY <1>5, <2>1 DEF Numbers
  <2>4. Meters!Total(h, P \cup (S \ P)) = Meters!Total(h, P) + Meters!Total(h, S \ P)
    BY <2>1, <2>2, <2>3, TotalUnion
  <2>5. Meters!Total(h, P) \in Nat /\ Meters!Total(h, S \ P) \in Nat
    BY <2>2, <2>3, TotalNat
  <2> QED
    BY <2>1, <2>4, <2>5
<1>11. Meters!Total(f, R) \in Nat
  BY <1>1, <1>4, TotalNat DEF Numbers
<1>12. Meters!Total(f, R) <= Meters!Total(h, S)
  BY <1>8, <1>9, <1>10, <1>11
<1> QED
  BY <1>12 DEF R, f, h

(* A tenant's day that was rolled up has a row for each metric. *)
LEMMA DayIsWhole ==
    ASSUME MeteringInv, NEW c \in Meters!Cells, rollup[c] # NoRow, c[1] \in Metered
    PROVE  Meters!Cardinality(Meters!GetTenantUsage(c[1], c[1], c[3], c[3])) = Len(_TENANT_SCOPED_METRICS)
<1> DEFINE M == _TENANT_SCOPED_METRICS
           n == Len(M)
           t == c[1]
           d == c[3]
           S == {x \in Meters!Cells : x[1] = t /\ x[3] \in d..d /\ rollup[x] # NoRow}
           f == [i \in 1..n |-> <<t, M[i], d>>]
<1>1. Meters!GetTenantUsage(t, t, d, d) = S
  BY DEF Meters!GetTenantUsage
<1>2. /\ n \in Nat /\ DOMAIN M = 1..n /\ \A i \in 1..n : M[i] \in TenantMetrics
      /\ \A i, j \in 1..n : M[i] = M[j] => i = j
      /\ \A m \in TenantMetrics : \E i \in 1..n : M[i] = m
  <2>1. M \in Seq(TenantMetrics) /\ \A i, j \in DOMAIN M : M[i] = M[j] => i = j
    BY MetersAssumption DEF TenantMetrics
  <2>2. \A m \in TenantMetrics : \E i \in DOMAIN M : M[i] = m
    BY DEF TenantMetrics, Meters!ToSet
  <2> HIDE DEF M
  <2> QED
    BY <2>1, <2>2
<1>3. d \in Days /\ d \in Int /\ d..d = {d}
  <2>1. d \in Days
    BY CellIs
  <2>2. Days \subseteq Int
    BY MetersAssumption
  <2>3. d \in Int
    BY <2>1, <2>2, Zenon
  <2> HIDE DEF d
  <2> QED
    BY <2>1, <2>3
<1>4. \A m \in TenantMetrics : <<t, m, d>> \in Meters!Cells /\ rollup[<<t, m, d>>] # NoRow
  <2>1. c \in Rolled
    BY DEF Rolled
  <2> QED
    BY <2>1 DEF MeteringInv, Whole, Rolled
<1>5. \A x \in S : x[2] \in TenantMetrics /\ x = <<t, x[2], d>>
  <2> SUFFICES ASSUME NEW x \in S PROVE x[2] \in TenantMetrics /\ x = <<t, x[2], d>>
    OBVIOUS
  <2>1. x \in Meters!Cells /\ x[1] = t /\ x[3] = d
    BY <1>3
  <2> QED
    BY <2>1, CellIs
<1> HIDE DEF M, n, t, d
<1>6. f \in [1..n -> S]
  <2> SUFFICES ASSUME NEW i \in 1..n PROVE <<t, M[i], d>> \in S
    OBVIOUS
  <2>1. <<t, M[i], d>> \in Meters!Cells /\ rollup[<<t, M[i], d>>] # NoRow
    BY <1>2, <1>4
  <2> QED
    BY <1>3, <2>1
<1> HIDE DEF S
<1>7. \A i, j \in 1..n : f[i] = f[j] => i = j
  BY <1>2
<1>8. \A x \in S : \E i \in 1..n : f[i] = x
  <2> SUFFICES ASSUME NEW x \in S PROVE \E i \in 1..n : f[i] = x
    OBVIOUS
  <2>1. x[2] \in TenantMetrics /\ x = <<t, x[2], d>>
    BY <1>5
  <2>2. PICK i \in 1..n : M[i] = x[2]
    BY <1>2, <2>1
  <2>3. f[i] = <<t, M[i], d>>
    OBVIOUS
  <2> HIDE DEF f
  <2> QED
    BY <2>1, <2>2, <2>3
<1> HIDE DEF f
<1>9. f \in Bijection(1..n, S)
  BY <1>6, <1>7, <1>8 DEF Bijection, Injection, Surjection, IsInjective
<1>10. Cardinality(S) = n
  BY <1>2, <1>9, FS_CountingElements DEF ExistsBijection
<1>11. Meters!Cardinality(S) = Cardinality(S)
  BY DEF Meters!Cardinality, Cardinality
<1> QED
  BY <1>1, <1>10, <1>11 DEF n, M, t, d

(* MeteringInv makes the rollups sound. *)
LEMMA MeteringInvImplies ==
    ASSUME MeteringInv PROVE Meters!RollupSound
<1>1. ASSUME NEW from \in Days, NEW to \in Days,
             NEW s \in DOMAIN Meters!summary_across_tenants(from, to)
      PROVE  Meters!summary_across_tenants(from, to)[s]
                <= Meters!Total(Meters!Recorded(s[1], s[2]),
                                {t \in Meters!Ticks : t \div TicksPerDay \in from..to})
  <2> DEFINE R(x) == {d \in Days : d \in from..to /\ rollup[<<x[1], x[2], d>>] # NoRow}
             f(x) == [d \in R(x) |-> rollup[<<x[1], x[2], d>>].count]
  <2>1. Meters!summary_across_tenants(from, to)
           = [x \in {y \in Meters!Scoped : R(y) # {}} |-> Meters!Total(f(x), R(x))]
    BY DEF Meters!summary_across_tenants
  <2>2. s \in Meters!Scoped /\ Meters!summary_across_tenants(from, to)[s] = Meters!Total(f(s), R(s))
    <3> HIDE DEF R, f
    <3> QED
      BY <2>1
  <2>3. Meters!Total(f(s), R(s)) <= Meters!Total(Meters!Recorded(s[1], s[2]), TicksOf(from..to))
    BY <2>2, SummaryIsSound
  <2> QED
    BY <2>2, <2>3 DEF TicksOf
<1>2. ASSUME NEW c \in Meters!Cells, rollup[c] # NoRow, rollup[c].final
      PROVE  rollup[c].count = Meters!Total(Meters!Recorded(c[1], c[2]),
                                            {t \in Meters!Ticks : t \div TicksPerDay = c[3]})
  <2>1. rollup[c].count = DaySum(events, c)
    BY <1>2 DEF MeteringInv, RowSound
  <2>2. Series(events, c) = Meters!Recorded(c[1], c[2])
    BY DEF Series, Meters!Recorded
  <2>3. c[3] \in Days
    BY CellIs
  <2>4. DayTicks(c[3]) = {t \in Meters!Ticks : t \div TicksPerDay = c[3]}
    BY <2>3, TicksAre
  <2> QED
    BY <2>1, <2>2, <2>4 DEF DaySum
<1> QED
  BY <1>1, <1>2, DayIsWhole DEF Meters!RollupSound

--------------------------------------------------------------------------------
TenantsInv == RateInv /\ AuthInv /\ TenancyInv /\ MeterInv /\ ShownInv /\ ListingInv /\ MeteringInv

(* The invariants of the parts hold together: a part that rests keeps its own. *)
LEMMA TenantsInductive == Spec => []TenantsInv
<1>1. Init => TenantsInv
  BY RateInit, AuthInit, TenancyInit, MeterInit, ShownInit, ListingInit, MeteringInit
     DEF Init, TenantsInv
<1>2. TenantsInv /\ [Next]_vars => TenantsInv'
  <2> SUFFICES ASSUME TenantsInv, [Next]_vars PROVE TenantsInv'
    OBVIOUS
  <2>1. UNCHANGED rateVars => RateInv'
    BY DEF TenantsInv, RateInv, Limited, Sorted, rateVars
  <2>2. UNCHANGED keyVars => AuthInv'
    BY DEF TenantsInv, AuthInv, keyVars, Cached, CacheEntry, Resolved, ActiveUntil
  <2>3. UNCHANGED tenancyVars => TenancyInv' /\ MeterInv' /\ ShownInv' /\ ListingInv'
    <3> SUFFICES ASSUME UNCHANGED tenancyVars PROVE TenancyInv' /\ MeterInv' /\ ShownInv' /\ ListingInv'
      OBVIOUS
    <3>1. UNCHANGED <<source, run, claim, report, association, overlay, usage, request, projected, absorbed,
                     listing>>
      BY DEF tenancyVars
    <3>2. TenancyInv'
      BY <3>1 DEF TenantsInv, TenancyInv, Isolated, RowOf, Mine, SourceOf
    <3>3. MeteredTables(usage', claim', report', run')
      BY <3>1 DEF TenantsInv, MeterInv
    <3>4. MeterInv'
      BY <3>1, <3>3 DEF TenantsInv, MeterInv
    <3>5. ShownTables(claim', report', association', overlay', Visible') /\ Visible' = Visible
      BY <3>1 DEF TenantsInv, ShownInv, Visible
    <3>6. ShownInv'
      BY <3>1, <3>5 DEF TenantsInv, ShownInv
    <3>7. ListingInv'
      BY <3>1 DEF TenantsInv, ListingInv, Followed, ToCome, Evidence!Written, Evidence!Key
    <3> QED
      BY <3>2, <3>4, <3>6, <3>7
  <2>4. Limiter!Next => RateInv'
    BY RateStep DEF TenantsInv
  <2>5. Auth!Next => AuthInv'
    BY AuthStep DEF TenantsInv
  <2>6. Evidence!Next => TenancyInv' /\ MeterInv' /\ ShownInv' /\ ListingInv'
    BY TenancyStep, MeterStep, ShownStep, ListingStep DEF TenantsInv
  <2>7. UNCHANGED meterVars => MeteringInv'
    <3> SUFFICES ASSUME UNCHANGED meterVars PROVE MeteringInv'
      OBVIOUS
    <3>1. UNCHANGED <<meterNow, events, writer, rollup, job>>
      BY DEF meterVars
    <3>2. \A k \in Meters!Keys : events[k] <= events'[k]
      <4>1. \A k \in Meters!Keys : events[k] \in Nat
        BY DEF TenantsInv, MeteringInv
      <4> QED
        BY <3>1, <4>1
    <3>3. /\ events' \in [Meters!Keys -> Nat] /\ meterNow' \in Int
          /\ DOMAIN writer' = Writers /\ Uncommitted(writer')
      BY <3>1 DEF TenantsInv, MeteringInv
    <3> QED
      BY <3>1, <3>2, <3>3, UsageStep DEF TenantsInv
  <2>8. Meters!Next => MeteringInv'
    BY MeteringStep DEF TenantsInv
  <2> QED
    BY <2>1, <2>2, <2>3, <2>4, <2>5, <2>6, <2>7, <2>8 DEF Next, vars, TenantsInv
<1> QED
  BY <1>1, <1>2, PTL DEF Spec

(* InMemoryRateLimitMiddleware, for every limit, window, resolution of the     *)
(* clock and set of clients: no window lets more than "requests" hits of a     *)
(* client through, and a client that comes back when its Retry-After said is   *)
(* let in.                                                                     *)
THEOREM LimiterIsFair == Spec => []RateFair
<1>1. TenantsInv => RateFair
  BY RateInvImplies DEF TenantsInv, RateFair
<1> QED
  BY <1>1, TenantsInductive, PTL

(* _resolve_api_key and its cache, for every ttl, size and number of requests  *)
(* in flight: a request that begins after its key was revoked, and not within  *)
(* ttl of it, is refused; the cache holds at most max_entries, one per key.    *)
THEOREM RevokedKeysAreRefused == Spec => []RevocationBounded
<1>1. TenantsInv => RevocationBounded
  BY AuthInvImplies DEF TenantsInv, RevocationBounded
<1> QED
  BY <1>1, TenantsInductive, PTL

(* require_tenant_membership, the policies and the tenant use cases, for any   *)
(* tenants, keys, memberships and number of requests in flight: rows of a      *)
(* tenant were written by its owners and members and refer to its own rows.    *)
THEOREM TenantsAreIsolated == Spec => []TenantIsolation
<1>1. TenantsInv => TenantIsolation
  BY TenancyInvImplies DEF TenantsInv, TenantIsolation
<1> QED
  BY <1>1, TenantsInductive, PTL

(* The use cases and MeteringService.record, for any batches and any requests  *)
(* that race or fail: claims and reports are metered one for one, completed    *)
(* runs at least once.                                                         *)
THEOREM StoredIsMetered == Spec => []MeteredExactly
<1>1. TenantsInv => MeteredExactly
  BY MeterInvImplies DEF TenantsInv, MeteredExactly
<1> QED
  BY <1>1, TenantsInductive, PTL

(* The listing, overlay and evidence routes, for any tenants, events, keys and *)
(* length of pages, however the overlays' times coincide and whatever is       *)
(* written, merged or projected meanwhile: a reader who follows the cursor to  *)
(* the end is shown every overlay that was there all along, unless a cursor    *)
(* row's time went back, and none twice unless one went on; an overlay opens   *)
(* unless its event was absorbed; the evidence of the events holds every claim *)
(* and every associated report, and a key of another tenant sees nothing.      *)
THEOREM EverythingStoredIsShown == Spec => []EvidenceShown
<1>1. TenantsInv => EvidenceShown
  BY ShownInvImplies DEF TenantsInv, EvidenceShown
<1> QED
  BY <1>1, TenantsInductive, PTL

(* ComputeDailyRollups beside metered actions and other jobs, for any days,    *)
(* tenants, metrics and quantities: the totals of any range of days never      *)
(* exceed its events, a row counted once its day was over is exact for good,   *)
(* and a tenant's day has a row for every metric or none.                      *)
THEOREM RollupsCanBeBilled == Spec => []RollupSound
<1>1. TenantsInv => RollupSound
  BY MeteringInvImplies DEF TenantsInv, RollupSound
<1> QED
  BY <1>1, TenantsInductive, PTL
================================================================================
