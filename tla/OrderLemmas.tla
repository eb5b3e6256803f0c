---------------------------- MODULE OrderLemmas -----------------------------
(***************************************************************************)
(* Least and minimal elements, for the proofs about searches that go by    *)
(* size or in the order of a list.  The library states these facts for     *)
(* well-founded relations; here they are in the form the proofs need.      *)
(***************************************************************************)
EXTENDS Integers, FiniteSets, FiniteSetTheorems, WellFoundedInduction, TLAPS

(* A strict order on a finite set has a minimal element: an element with   *)
(* fewest predecessors has none.                                           *)
LEMMA MinimalElement ==
  ASSUME NEW X, IsFiniteSet(X), X # {},
         NEW R,
         \A x \in X : <<x, x>> \notin R,
         \A x, y, z \in X : <<x, y>> \in R /\ <<y, z>> \in R => <<x, z>> \in R
  PROVE  \E x \in X : \A y \in X : <<y, x>> \notin R
<1> DEFINE Down(x) == {y \in X : <<y, x>> \in R}
<1> DEFINE O == StrictSubsetOrdering(X)
<1> DEFINE I == {Down(x) : x \in X}
<1>1. I \subseteq FiniteSubsetsOf(X) /\ I # {}
  <2>1. ASSUME NEW D \in SUBSET X PROVE D \in FiniteSubsetsOf(X)
    BY FS_Subset DEF FiniteSubsetsOf
  <2>2. \A x \in X : Down(x) \in SUBSET X
    OBVIOUS
  <2> HIDE DEF Down
  <2> QED BY <2>1, <2>2
<1>2. IsWellFoundedOn(O, FiniteSubsetsOf(X))
  BY FS_StrictSubsetOrderingWellFounded
<1>3. \E d \in I : \A e \in I : <<e, d>> \notin O
  <2> HIDE DEF O, I
  <2> QED BY <1>1, <1>2, WFMin
<1>4. PICK x \in X : \A y \in X : <<Down(y), Down(x)>> \notin O
  <2> HIDE DEF O, Down
  <2> QED BY <1>3
<1>5. ASSUME NEW y \in X, <<y, x>> \in R PROVE FALSE
  <2>1. Down(y) \subseteq Down(x) /\ y \in Down(x) /\ y \notin Down(y)
    BY <1>5
  <2>2. Down(y) \in SUBSET X /\ Down(x) \in SUBSET X
    OBVIOUS
  <2> QED BY <1>4, <2>1, <2>2 DEF StrictSubsetOrdering
<1> QED BY <1>5

(* A nonempty set of naturals has a least element.                         *)
LEMMA LeastElement ==
  ASSUME NEW B \in SUBSET Nat, B # {}
  PROVE  \E b \in B : \A c \in B : b <= c
<1>1. PICK n \in Nat : n \in B
  OBVIOUS
<1> DEFINE X == {b \in B : b <= n}
<1> DEFINE R == {p \in Nat \X Nat : p[1] < p[2]}
<1>2. IsFiniteSet(X) /\ X # {}
  <2> HIDE DEF R
  <2>1. X \in SUBSET Nat /\ \A b \in X : b <= n
    OBVIOUS
  <2>2. n \in X
    BY <1>1
  <2> HIDE DEF X
  <2> QED BY <2>1, <2>2, FS_BoundedSetOfNaturals
<1>3. /\ \A x \in X : <<x, x>> \notin R
      /\ \A x, y, z \in X : <<x, y>> \in R /\ <<y, z>> \in R => <<x, z>> \in R
  OBVIOUS
<1>4. \E x \in X : \A y \in X : <<y, x>> \notin R
  <2> HIDE DEF X, R
  <2> QED BY <1>2, <1>3, MinimalElement
<1>5. PICK x \in X : \A y \in X : ~(y < x)
  BY <1>4
<1> QED BY <1>5, <1>1

(* Induction, for a set of numbers: it is all of Nat when it contains 0 and  *)
(* each next number.                                                        *)
LEMMA Induction ==
  ASSUME NEW S, 0 \in S, \A n \in Nat : n \in S => n + 1 \in S
  PROVE  \A n \in Nat : n \in S
<1> DEFINE B == {n \in Nat : n \notin S}
<1>1. ASSUME B # {} PROVE FALSE
  <2>1. B \in SUBSET Nat
    OBVIOUS
  <2>2. PICK b \in B : \A c \in B : b <= c
    <3> HIDE DEF B
    <3> QED BY <1>1, <2>1, LeastElement
  <2>3. b \in Nat /\ b # 0 /\ b \notin S
    OBVIOUS
  <2>4. b - 1 \in Nat /\ ~(b <= b - 1) /\ (b - 1) + 1 = b
    BY <2>3
  <2>5. b - 1 \in S
    BY <2>2, <2>4
  <2> QED BY <2>3, <2>4, <2>5
<1> QED BY <1>1

(* A finite set has a subset of any smaller size.                          *)
LEMMA SubsetOfSize ==
  ASSUME NEW S, IsFiniteSet(S), NEW j \in Nat, j <= Cardinality(S)
  PROVE  \E T \in SUBSET S : Cardinality(T) = j
<1> DEFINE Large == {T \in SUBSET S : Cardinality(T) >= j}
<1>1. \A T \in SUBSET S : IsFiniteSet(T) /\ Cardinality(T) \in Nat
  BY FS_Subset, FS_CardinalityType
<1>2. {Cardinality(T) : T \in Large} \in SUBSET Nat
  BY <1>1
<1>3. S \in Large
  OBVIOUS
<1>4. PICK T \in Large : \A U \in Large : Cardinality(T) <= Cardinality(U)
  <2> DEFINE C == {Cardinality(T) : T \in Large}
  <2>1. C \in SUBSET Nat /\ C # {}
    BY <1>2, <1>3
  <2>2. \E b \in C : \A c \in C : b <= c
    <3> HIDE DEF C
    <3> QED BY <2>1, LeastElement
  <2> QED BY <2>2
<1>5. ASSUME Cardinality(T) > j PROVE FALSE
  <2>1. T # {}
    BY <1>5, FS_EmptySet
  <2>2. PICK x \in T : TRUE
    BY <2>1
  <2>3. Cardinality(T \ {x}) = Cardinality(T) - 1
    BY <1>1, <2>2, FS_RemoveElement
  <2>4. T \ {x} \in Large
    BY <1>1, <1>5, <2>3
  <2> QED BY <1>1, <1>4, <2>3, <2>4
<1> QED BY <1>1, <1>4, <1>5
-----------------------------------------------------------------------------
(* A definition by recursion of a function from X to K: what it makes of c,  *)
(* when g is the function, is B[<<c, g>>].  It depends on the values for     *)
(* Sub[c] only, whose depth D is less.                                      *)
Descends(X, K, D, Sub, B) ==
  /\ K # {}
  /\ D \in [X -> Nat]
  /\ \A c \in X : \A s \in Sub[c] : s \in X /\ D[s] < D[c]
  /\ B \in [X \X [X -> K] -> K]
  /\ \A c \in X : \A g, h \in [X -> K] :
       (\A s \in Sub[c] : g[s] = h[s]) => B[<<c, g>>] = B[<<c, h>>]

LEMMA RecursionHolds ==
  ASSUME NEW X, NEW K, NEW D, NEW Sub, NEW B, Descends(X, K, D, Sub, B)
  PROVE  \E f \in [X -> K] : \A c \in X : f[c] = B[<<c, f>>]
<1>a. /\ K # {}
      /\ D \in [X -> Nat]
      /\ \A c \in X : \A s \in Sub[c] : s \in X /\ D[s] < D[c]
  BY DEF Descends
<1>b. \A c \in X : \A g, h \in [X -> K] :
        (\A s \in Sub[c] : g[s] = h[s]) => B[<<c, g>>] = B[<<c, h>>]
  BY DEF Descends
<1>c. \A c \in X : \A g \in [X -> K] : B[<<c, g>>] \in K
  BY DEF Descends
<1> DEFINE Solves(n, g) == g \in [X -> K] /\ \A c \in X : D[c] < n => g[c] = B[<<c, g>>]
<1>1. \A n \in Nat : \E g : Solves(n, g)
  <2> DEFINE S == {n \in Nat : \E g : Solves(n, g)}
  <2>1. 0 \in S
    <3>1. PICK k \in K : TRUE
      BY <1>a
    <3>2. Solves(0, [c \in X |-> k])
      <4>1. \A c \in X : ~(D[c] < 0)
        BY <1>a
      <4> QED BY <4>1
    <3> QED BY <3>2
  <2>2. ASSUME NEW n \in Nat, n \in S PROVE n + 1 \in S
    <3>1. PICK g : Solves(n, g)
      BY <2>2
    <3> DEFINE h == [c \in X |-> IF D[c] < n THEN g[c] ELSE B[<<c, g>>]]
    <3>2. \A c \in X : B[<<c, g>>] \in K
      BY <1>c, <3>1
    <3>3. h \in [X -> K]
      BY <3>1, <3>2
    <3>4. ASSUME NEW c \in X, D[c] < n + 1 PROVE h[c] = B[<<c, h>>]
      <4>1. h[c] = B[<<c, g>>]
        BY <3>1
      <4>2. \A s \in Sub[c] : s \in X /\ D[s] < n
        <5>1. \A s \in Sub[c] : s \in X /\ D[s] \in Nat /\ D[s] < D[c]
          BY <1>a
        <5>2. D[c] \in Nat
          BY <1>a
        <5> QED BY <3>4, <5>1, <5>2
      <4>3. \A s \in Sub[c] : h[s] = g[s]
        BY <4>2
      <4> HIDE DEF h
      <4> QED BY <1>b, <3>1, <3>3, <4>1, <4>3
    <3> HIDE DEF h
    <3>5. Solves(n + 1, h)
      BY <3>3, <3>4
    <3> HIDE DEF Solves
    <3> QED BY <3>5
  <2> HIDE DEF S
  <2>3. \A n \in Nat : n \in S
    BY <2>1, <2>2, Induction
  <2> QED BY <2>3 DEF S
<1>2. ASSUME NEW n \in Nat, NEW m \in Nat, NEW g, NEW h, Solves(n, g), Solves(m, h)
      PROVE  \A c \in X : D[c] < n /\ D[c] < m => g[c] = h[c]
  <2> DEFINE S == {k \in Nat : \A c \in X : D[c] < k /\ D[c] < n /\ D[c] < m => g[c] = h[c]}
  <2>1. 0 \in S
    <3>1. \A c \in X : ~(D[c] < 0)
      BY <1>a
    <3> QED BY <3>1
  <2>2. ASSUME NEW k \in Nat, k \in S PROVE k + 1 \in S
    <3> SUFFICES ASSUME NEW c \in X, D[c] < k + 1, D[c] < n, D[c] < m
                 PROVE  g[c] = h[c]
      OBVIOUS
    <3>1. ASSUME NEW s \in Sub[c] PROVE g[s] = h[s]
      <4>1. s \in X /\ D[s] < D[c] /\ D[s] \in Nat /\ D[c] \in Nat
        BY <1>a
      <4>2. D[s] < k /\ D[s] < n /\ D[s] < m
        BY <4>1
      <4> QED BY <2>2, <4>1, <4>2
    <3>2. B[<<c, g>>] = B[<<c, h>>]
      BY <1>2, <1>b, <3>1
    <3> QED BY <1>2, <3>2
  <2> HIDE DEF S
  <2>3. \A k \in Nat : k \in S
    BY <2>1, <2>2, Induction
  <2>4. ASSUME NEW c \in X, D[c] < n, D[c] < m PROVE g[c] = h[c]
    <3>1. D[c] + 1 \in Nat /\ D[c] < D[c] + 1
      BY <1>a
    <3> QED BY <2>3, <2>4, <3>1 DEF S
  <2> QED BY <2>4
<1> DEFINE G(n) == CHOOSE g : Solves(n, g)
<1>3. \A n \in Nat : Solves(n, G(n))
  BY <1>1
<1> HIDE DEF G
<1> DEFINE f == [c \in X |-> G(D[c] + 1)[c]]
<1>4. \A c \in X : D[c] + 1 \in Nat /\ D[c] < D[c] + 1
  BY <1>a
<1>5. f \in [X -> K]
  BY <1>3, <1>4
<1>6. ASSUME NEW c \in X PROVE f[c] = B[<<c, f>>]
  <2> DEFINE g == G(D[c] + 1)
  <2>1. g \in [X -> K] /\ g[c] = B[<<c, g>>]
    BY <1>3, <1>4
  <2>2. ASSUME NEW s \in Sub[c] PROVE f[s] = g[s]
    <3>1. s \in X /\ D[s] < D[c] /\ D[s] \in Nat /\ D[c] \in Nat
      BY <1>a
    <3>2. D[s] < D[s] + 1 /\ D[s] < D[c] + 1 /\ D[s] + 1 \in Nat /\ D[c] + 1 \in Nat
      BY <3>1
    <3>3. Solves(D[s] + 1, G(D[s] + 1)) /\ Solves(D[c] + 1, G(D[c] + 1))
      BY <1>3, <3>2
    <3>4. G(D[s] + 1)[s] = G(D[c] + 1)[s]
      <4> HIDE DEF Solves
      <4> QED BY <1>2, <3>1, <3>2, <3>3
    <3> QED BY <3>1, <3>4
  <2>3. f[c] = g[c]
    OBVIOUS
  <2> HIDE DEF f, g
  <2>4. B[<<c, f>>] = B[<<c, g>>]
    BY <1>5, <1>b, <2>1, <2>2
  <2> QED BY <2>1, <2>3, <2>4
<1> HIDE DEF f
<1> QED BY <1>5, <1>6

(* A finite set can be written down in any strict total order of it.        *)
LEMMA Enumeration ==
  ASSUME NEW X, IsFiniteSet(X), NEW R,
         \A x \in X : <<x, x>> \notin R,
         \A x, y, z \in X : <<x, y>> \in R /\ <<y, z>> \in R => <<x, z>> \in R,
         \A x, y \in X : x = y \/ <<x, y>> \in R \/ <<y, x>> \in R
  PROVE  \E s \in [1..Cardinality(X) -> X] :
           \A i, j \in 1..Cardinality(X) : i < j => <<s[i], s[j]>> \in R
<1> DEFINE Lists(s, Y, n) == /\ s \in [1..n -> Y]
                             /\ \A i, j \in 1..n : i < j => <<s[i], s[j]>> \in R
<1> DEFINE S == {n \in Nat : \A Y \in SUBSET X :
                              Cardinality(Y) = n => \E s : Lists(s, Y, n)}
<1>1. \A Y \in SUBSET X : IsFiniteSet(Y) /\ Cardinality(Y) \in Nat
  BY FS_Subset, FS_CardinalityType
<1>2. 0 \in S
  <2>1. \A Y : Lists([i \in 1..0 |-> i], Y, 0)
    OBVIOUS
  <2> QED BY <2>1
<1>3. ASSUME NEW n \in Nat, n \in S PROVE n + 1 \in S
  <2> SUFFICES ASSUME NEW Y \in SUBSET X, Cardinality(Y) = n + 1
               PROVE  \E s : Lists(s, Y, n + 1)
    OBVIOUS
  <2> DEFINE B == {p \in Y \X Y : <<p[2], p[1]>> \in R}
  <2>1. Y # {} /\ IsFiniteSet(Y)
    BY <1>1, FS_EmptySet
  <2>2. \A x, y \in Y : <<x, y>> \in B <=> <<y, x>> \in R
    OBVIOUS
  <2>3. PICK m \in Y : \A y \in Y : <<m, y>> \notin R
    <3>1. \E m \in Y : \A y \in Y : <<y, m>> \notin B
      <4>1. \A x \in Y : <<x, x>> \notin B
        BY <2>2
      <4>2. \A x, y, z \in Y : <<x, y>> \in B /\ <<y, z>> \in B => <<x, z>> \in B
        BY <2>2
      <4> HIDE DEF B
      <4> QED BY <2>1, <4>1, <4>2, MinimalElement
    <3> HIDE DEF B
    <3> QED BY <2>2, <3>1
  <2>4. \A y \in Y \ {m} : <<y, m>> \in R
    BY <2>3
  <2>5. Y \ {m} \in SUBSET X /\ Cardinality(Y \ {m}) = n
    <3>1. Cardinality(Y \ {m}) = Cardinality(Y) - 1
      BY <2>1, FS_RemoveElement
    <3> QED BY <3>1
  <2>6. PICK s : Lists(s, Y \ {m}, n)
    BY <1>3, <2>5
  <2> DEFINE t == [i \in 1..(n + 1) |-> IF i = n + 1 THEN m ELSE s[i]]
  <2>7. t \in [1..(n + 1) -> Y]
    BY <2>6
  <2>8. ASSUME NEW i \in 1..(n + 1), NEW j \in 1..(n + 1), i < j
        PROVE  <<t[i], t[j]>> \in R
    <3>1. i \in 1..n /\ t[i] = s[i] /\ s[i] \in Y \ {m}
      BY <2>6, <2>8
    <3>2. CASE j = n + 1
      BY <2>4, <3>1, <3>2
    <3>3. CASE j # n + 1
      <4>1. j \in 1..n /\ t[j] = s[j]
        BY <3>3
      <4> QED BY <2>6, <2>8, <3>1, <4>1
    <3> QED BY <3>2, <3>3
  <2> HIDE DEF t
  <2> QED BY <2>7, <2>8
<1>4. \A n \in Nat : n \in S
  <2> HIDE DEF S
  <2> QED BY <1>2, <1>3, Induction
<1>5. \E s : Lists(s, X, Cardinality(X))
  BY <1>1, <1>4
<1> QED BY <1>5

(* As many different members as a finite set has are all of it.             *)
LEMMA AllListed ==
  ASSUME NEW X, IsFiniteSet(X), NEW s \in [1..Cardinality(X) -> X],
         \A i, j \in 1..Cardinality(X) : i < j => s[i] # s[j]
  PROVE  \A x \in X : \E i \in 1..Cardinality(X) : s[i] = x
<1>1. Cardinality(X) \in Nat
  BY FS_CardinalityType
<1> DEFINE I == 1..Cardinality(X)
<1>2. IsFiniteSet(I) /\ Cardinality(I) = Cardinality(X)
  BY <1>1, FS_Interval
<1>3. \A i, j \in I : s[i] = s[j] => i = j
  BY <1>1
<1>4. s \in Injection(I, X)
  BY <1>3 DEF Injection, IsInjective
<1>5. s \in Surjection(I, X)
  <2> HIDE DEF I
  <2> QED BY <1>2, <1>4, FS_Injection
<1> QED BY <1>5 DEF Surjection

(* In a strict total order of the numbers up to n, counting those before     *)
(* gives each its place.                                                     *)
IsOrder(n, R) ==
  /\ \A x \in 1..n : <<x, x>> \notin R
  /\ \A x, y, z \in 1..n : <<x, y>> \in R /\ <<y, z>> \in R => <<x, z>> \in R
  /\ \A x, y \in 1..n : x = y \/ <<x, y>> \in R \/ <<y, x>> \in R

Ranks(n, R) == [i \in 1..n |-> 1 + Cardinality({j \in 1..n : <<j, i>> \in R})]

LEMMA Places ==
  ASSUME NEW n \in Nat, NEW R, IsOrder(n, R)
  PROVE  /\ Ranks(n, R) \in [1..n -> 1..n]
         /\ \A i, j \in 1..n : <<i, j>> \in R <=> Ranks(n, R)[i] < Ranks(n, R)[j]
         /\ \A k \in 1..n : \E i \in 1..n : Ranks(n, R)[i] = k
<1> DEFINE place == Ranks(n, R)
<1>a. /\ \A x \in 1..n : <<x, x>> \notin R
      /\ \A x, y, z \in 1..n : <<x, y>> \in R /\ <<y, z>> \in R => <<x, z>> \in R
      /\ \A x, y \in 1..n : x = y \/ <<x, y>> \in R \/ <<y, x>> \in R
  BY DEF IsOrder
<1>b. place = [i \in 1..n |-> 1 + Cardinality({j \in 1..n : <<j, i>> \in R})]
  BY DEF Ranks
<1> HIDE DEF place
<1> DEFINE I == 1..n
           Ahead(i) == {j \in I : <<j, i>> \in R}
<1>1. IsFiniteSet(I) /\ Cardinality(I) = n
  BY FS_Interval
<1>2. \A i \in I : IsFiniteSet(Ahead(i)) /\ Cardinality(Ahead(i)) \in Nat
  <2>1. \A i \in I : Ahead(i) \in SUBSET I
    OBVIOUS
  <2> HIDE DEF I, Ahead
  <2> QED BY <1>1, <2>1, FS_Subset, FS_CardinalityType
<1>3. \A i \in I : place[i] = 1 + Cardinality(Ahead(i))
  BY <1>b
<1>4. ASSUME NEW i \in I PROVE place[i] \in 1..n
  <2>1. Ahead(i) \in SUBSET I /\ Ahead(i) # I
    BY <1>a
  <2>2. Cardinality(Ahead(i)) <= n /\ Cardinality(Ahead(i)) # n
    <3> HIDE DEF I, Ahead
    <3> QED BY <1>1, <2>1, FS_Subset
  <2> HIDE DEF I, Ahead
  <2>3. Cardinality(Ahead(i)) \in Nat /\ place[i] = 1 + Cardinality(Ahead(i))
    BY <1>2, <1>3
  <2> QED BY <2>2, <2>3
<1>5. ASSUME NEW i \in I, NEW j \in I, <<i, j>> \in R PROVE place[i] < place[j]
  <2>1. Ahead(i) \in SUBSET Ahead(j) /\ Ahead(i) # Ahead(j)
    BY <1>5, <1>a
  <2> HIDE DEF I, Ahead
  <2>2. Cardinality(Ahead(i)) <= Cardinality(Ahead(j))
        /\ Cardinality(Ahead(i)) # Cardinality(Ahead(j))
    BY <1>2, <2>1, FS_Subset
  <2>3. Cardinality(Ahead(i)) \in Nat /\ Cardinality(Ahead(j)) \in Nat
    BY <1>2
  <2>4. place[i] = 1 + Cardinality(Ahead(i)) /\ place[j] = 1 + Cardinality(Ahead(j))
    BY <1>3
  <2> QED BY <2>2, <2>3, <2>4
<1>6. place \in [I -> I]
  <2>1. place = [i \in I |-> place[i]]
    BY <1>b
  <2> HIDE DEF Ahead
  <2> QED BY <1>4, <2>1
<1>i. ASSUME NEW i \in I PROVE place[i] \in Int
  <2>1. place[i] \in 1..n
    BY <1>4
  <2> HIDE DEF I
  <2> QED BY <2>1
<1>7. ASSUME NEW i \in I, NEW j \in I PROVE <<i, j>> \in R <=> place[i] < place[j]
  <2>1. place[i] \in Int /\ place[j] \in Int
    BY <1>i
  <2>2. i = j \/ <<i, j>> \in R \/ <<j, i>> \in R
    BY <1>a
  <2>3. <<i, j>> \in R => place[i] < place[j]
    BY <1>5
  <2>4. <<j, i>> \in R => place[j] < place[i]
    BY <1>5
  <2>5. i = j => <<i, j>> \notin R
    BY <1>a
  <2> QED BY <2>1, <2>2, <2>3, <2>4, <2>5
<1>8. \A i, j \in I : i < j => place[i] # place[j]
  <2> SUFFICES ASSUME NEW i \in I, NEW j \in I, i < j PROVE place[i] # place[j]
    OBVIOUS
  <2>1. i # j
    OBVIOUS
  <2>2. place[i] < place[j] \/ place[j] < place[i]
    BY <1>5, <1>a, <2>1
  <2>3. place[i] \in Int /\ place[j] \in Int
    BY <1>i
  <2> QED BY <2>2, <2>3
<1>9. \A k \in I : \E i \in 1..Cardinality(I) : place[i] = k
  <2>1. place \in [1..Cardinality(I) -> I]
    BY <1>1, <1>6
  <2>2. \A i, j \in 1..Cardinality(I) : i < j => place[i] # place[j]
    BY <1>1, <1>8
  <2> HIDE DEF I
  <2> QED BY <1>1, <2>1, <2>2, AllListed
<1> QED BY <1>1, <1>6, <1>7, <1>9 DEF place
=============================================================================
