-------------------------------- MODULE Sums ---------------------------------
(***************************************************************************)
(* Sums over finite sets, and quotients, as the proofs about limiters and  *)
(* traffic need them.  The provers have no rule of induction over numbers  *)
(* or sets that they can use; that numbers have a least replaces it.       *)
(***************************************************************************)
EXTENDS Integers, Functions, FiniteSetTheorems, WellFoundedInduction, TLAPS

(* Numbers have a least. *)
LEMMA LeastOf ==
  ASSUME NEW S, S \subseteq Nat, S # {}
  PROVE  \E i \in S : \A j \in S : i <= j
<1>1. PICK R : R = OpToRel(<, Nat)
  OBVIOUS
<1>2. \A i, j \in Nat : <<j, i>> \in R <=> j < i
  BY <1>1 DEF OpToRel
<1>3. IsWellFoundedOn(R, Nat)
  BY <1>1, NatLessThanWellFounded
<1>4. PICK i \in S : \A j \in S : ~(<<j, i>> \in R)
  BY <1>3, WFMin
<1>5. \A j \in S : i \in Nat /\ j \in Nat /\ ~(j < i)
  BY <1>2, <1>4
<1>6. \A j \in S : i <= j
  BY <1>5
<1>7. QED
  BY <1>4, <1>6

(* What holds of 0, and of n + 1 whenever it holds of n, holds of all. *)
LEMMA Naturals0 ==
  ASSUME NEW D, 0 \in D, \A n \in Nat : n \in D => n + 1 \in D
  PROVE  Nat \subseteq D
<1>1. PICK S : S = Nat \ D
  OBVIOUS
<1>2. CASE S = {}
  BY <1>1, <1>2
<1>3. CASE S # {}
  <2>1. PICK i \in S : \A j \in S : i <= j
    BY <1>1, <1>3, LeastOf
  <2>2. i \in Nat /\ i # 0 /\ i - 1 \in Nat
    BY <1>1, <2>1
  <2>3. i - 1 \notin S
    BY <2>1, <2>2
  <2>4. (i - 1) + 1 \in D
    BY <1>1, <2>2, <2>3
  <2>5. QED
    BY <1>1, <2>2, <2>4
<1>4. QED
  BY <1>2, <1>3

(* The library's sum takes the elements one by one, in the order in which  *)
(* CHOOSE picks them.                                                      *)
Pick(s) == CHOOSE x \in s : TRUE
SumsBy(f, S, g) ==
  g = [s \in SUBSET S |-> IF s = {} THEN 0 ELSE f[Pick(s)] + g[s \ {Pick(s)}]]

LEMMA SumIs ==
  ASSUME NEW f, NEW S
  PROVE  SumFunctionOnSet(f, S) = (CHOOSE g : SumsBy(f, S, g))[S]
  BY DEF SumFunctionOnSet, FoldFunctionOnSet, MapThenFoldSet, SumsBy, Pick

LEMMA PickIsOne == ASSUME NEW s, s # {} PROVE Pick(s) \in s
  BY DEF Pick

(* What is in a finite set is finite, and one less without an element. *)
LEMMA Smaller ==
  ASSUME NEW S, IsFiniteSet(S), NEW s \in SUBSET S
  PROVE  /\ IsFiniteSet(s) /\ Cardinality(s) \in Nat
         /\ Cardinality(s) <= Cardinality(S) /\ Cardinality(S) \in Nat
         /\ Cardinality(s) <= 0 => s = {}
         /\ \A x \in s : s \ {x} \in SUBSET S /\ Cardinality(s \ {x}) = Cardinality(s) - 1
<1>1. /\ IsFiniteSet(s) /\ Cardinality(s) \in Nat
      /\ Cardinality(s) <= Cardinality(S) /\ Cardinality(S) \in Nat
  BY FS_Subset, FS_CardinalityType
<1>2. Cardinality(s) = 0 => s = {}
  BY <1>1, FS_EmptySet
<1>3. \A x \in s : Cardinality(s \ {x}) = Cardinality(s) - 1
  BY <1>1, FS_RemoveElement
<1>4. QED
  BY <1>1, <1>2, <1>3

(* Such a function there is. *)
LEMMA SumsExist ==
  ASSUME NEW S, IsFiniteSet(S), NEW f, \A x \in S : f[x] \in Int
  PROVE  \E g \in [SUBSET S -> Int] : SumsBy(f, S, g)
<1>1. PICK D : D = {n \in Nat : \E g \in [SUBSET S -> Int] : \A s \in SUBSET S :
             Cardinality(s) <= n =>
               g[s] = IF s = {} THEN 0 ELSE f[Pick(s)] + g[s \ {Pick(s)}]}
  OBVIOUS
<1>3. 0 \in D
  <2>1. PICK g : g = [s \in SUBSET S |-> 0]
    OBVIOUS
  <2>2. g \in [SUBSET S -> Int]
    BY <2>1
  <2>3. \A s \in SUBSET S : Cardinality(s) <= 0 =>
          g[s] = IF s = {} THEN 0 ELSE f[Pick(s)] + g[s \ {Pick(s)}]
    BY <2>1, Smaller
  <2>4. QED
    BY <1>1, <2>2, <2>3
<1>4. ASSUME NEW n \in Nat, n \in D PROVE n + 1 \in D
  <2>1. PICK g \in [SUBSET S -> Int] : \A s \in SUBSET S :
             Cardinality(s) <= n =>
               g[s] = IF s = {} THEN 0 ELSE f[Pick(s)] + g[s \ {Pick(s)}]
    BY <1>1, <1>4
  <2>2. PICK h : h = [s \in SUBSET S |->
                        IF s = {} THEN 0 ELSE f[Pick(s)] + g[s \ {Pick(s)}]]
    OBVIOUS
  <2>3. h \in [SUBSET S -> Int]
    <3>1. ASSUME NEW s \in SUBSET S PROVE h[s] \in Int
      <4>1. CASE s = {}
        BY <2>2, <4>1
      <4>2. CASE s # {}
        <5>1. PICK x \in s : x = Pick(s)
          BY <4>2, PickIsOne
        <5>2. s \ {x} \in SUBSET S
          OBVIOUS
        <5>3. f[x] \in Int /\ g[s \ {x}] \in Int
          BY <5>2
        <5>4. QED
          BY <2>2, <4>2, <5>1, <5>3
      <4>3. QED
        BY <4>1, <4>2
    <3>2. QED
      BY <2>2, <3>1
  <2>4. ASSUME NEW s \in SUBSET S, Cardinality(s) <= n + 1
        PROVE  h[s] = IF s = {} THEN 0 ELSE f[Pick(s)] + h[s \ {Pick(s)}]
    <3>1. CASE s = {}
      BY <2>2, <3>1
    <3>2. CASE s # {}
      <4>1. PICK q \in SUBSET S : q = s \ {Pick(s)} /\ Cardinality(q) <= n
        <5>1. PICK x \in s : x = Pick(s)
          BY <3>2, PickIsOne
        <5>2. s \ {x} \in SUBSET S /\ Cardinality(s \ {x}) = Cardinality(s) - 1
              /\ Cardinality(s) \in Nat
          BY Smaller
        <5>3. QED
          BY <2>4, <5>1, <5>2
      <4>2. h[q] = g[q]
        BY <2>1, <2>2, <4>1
      <4>3. QED
        BY <2>2, <3>2, <4>1, <4>2
    <3>3. QED
      BY <3>1, <3>2
  <2>5. QED
    BY <1>1, <2>3, <2>4
<1>5. Cardinality(S) \in D
  <2>1. S \in SUBSET S
    OBVIOUS
  <2>2. Cardinality(S) \in Nat
    BY <2>1, Smaller
  <2>3. QED
    BY <1>3, <1>4, <2>2, Naturals0
<1>6. PICK g \in [SUBSET S -> Int] : \A s \in SUBSET S :
        g[s] = IF s = {} THEN 0 ELSE f[Pick(s)] + g[s \ {Pick(s)}]
  <2>1. PICK g \in [SUBSET S -> Int] : \A s \in SUBSET S :
          Cardinality(s) <= Cardinality(S) =>
            g[s] = IF s = {} THEN 0 ELSE f[Pick(s)] + g[s \ {Pick(s)}]
    BY <1>1, <1>5
  <2>2. \A s \in SUBSET S : Cardinality(s) <= Cardinality(S)
    BY Smaller
  <2>3. QED
    BY <2>1, <2>2
<1>7. SumsBy(f, S, g)
  BY <1>6 DEF SumsBy
<1>8. QED
  BY <1>7

(* And its values depend neither on the set it is made for nor on the      *)
(* order.                                                                  *)
LEMMA SumsAgree ==
  ASSUME NEW S, IsFiniteSet(S), NEW f, NEW g, SumsBy(f, S, g),
         NEW T, IsFiniteSet(T), NEW h, SumsBy(f, T, h)
  PROVE  \A s \in (SUBSET S) \cap (SUBSET T) : g[s] = h[s]
<1>1. PICK D : D = {n \in Nat : \A s \in (SUBSET S) \cap (SUBSET T) :
                      Cardinality(s) <= n => g[s] = h[s]}
  OBVIOUS
<1>3. \A s \in (SUBSET S) \cap (SUBSET T) :
        /\ s = {} => g[s] = h[s]
        /\ g[s \ {Pick(s)}] = h[s \ {Pick(s)}] => g[s] = h[s]
  BY DEF SumsBy
<1>4. 0 \in D
  BY <1>1, <1>3, Smaller
<1>5. ASSUME NEW n \in Nat, n \in D PROVE n + 1 \in D
  <2>1. ASSUME NEW s \in (SUBSET S) \cap (SUBSET T), Cardinality(s) <= n + 1, s # {}
        PROVE  g[s] = h[s]
    <3>1. PICK q \in (SUBSET S) \cap (SUBSET T) : q = s \ {Pick(s)} /\ Cardinality(q) <= n
      <4>1. PICK x \in s : x = Pick(s)
        BY <2>1, PickIsOne
      <4>2. Cardinality(s \ {x}) = Cardinality(s) - 1 /\ Cardinality(s) \in Nat
        BY Smaller
      <4>3. s \ {x} \in (SUBSET S) \cap (SUBSET T)
        OBVIOUS
      <4>4. QED
        BY <2>1, <4>1, <4>2, <4>3
    <3>2. g[q] = h[q]
      BY <1>1, <1>5, <3>1
    <3>3. QED
      BY <1>3, <3>1, <3>2
  <2>2. QED
    BY <1>1, <1>3, <2>1
<1>6. Nat \subseteq D
  BY <1>4, <1>5, Naturals0
<1>7. ASSUME NEW s \in (SUBSET S) \cap (SUBSET T) PROVE g[s] = h[s]
  <2>1. PICK n \in Nat : n = Cardinality(s)
    BY Smaller
  <2>2. n \in D /\ Cardinality(s) <= n
    BY <1>6, <2>1
  <2>3. QED
    BY <1>1, <2>2
<1>8. QED
  BY <1>7

(* Any element may be the first that is taken. *)
InAnyOrder(f, S, g) == \A s \in SUBSET S : \A y \in s : g[s] = f[y] + g[s \ {y}]
LEMMA SumsInAnyOrder ==
  ASSUME NEW S, IsFiniteSet(S), NEW f, NEW g, g \in [SUBSET S -> Int], SumsBy(f, S, g),
         \A x \in S : f[x] \in Int
  PROVE  InAnyOrder(f, S, g)
<1>1. PICK D : D = {n \in Nat : \A s \in SUBSET S :
                      Cardinality(s) <= n => \A y \in s : g[s] = f[y] + g[s \ {y}]}
  OBVIOUS
<1>3. 0 \in D
  BY <1>1, Smaller
<1>4. ASSUME NEW n \in Nat, n \in D PROVE n + 1 \in D
  <2>1. ASSUME NEW s \in SUBSET S, Cardinality(s) <= n + 1, NEW y \in s
        PROVE  g[s] = f[y] + g[s \ {y}]
    <3>1. PICK x \in s : x = Pick(s)
      BY PickIsOne
    <3>2. g[s] = f[x] + g[s \ {x}]
      BY <3>1 DEF SumsBy
    <3>3. CASE x = y
      BY <3>2, <3>3
    <3>4. CASE x # y
      <4>1. PICK a \in SUBSET S : a = s \ {x}
        OBVIOUS
      <4>2. PICK b \in SUBSET S : b = s \ {y}
        OBVIOUS
      <4>3. Cardinality(a) <= n /\ Cardinality(b) <= n
        BY <2>1, <4>1, <4>2, Smaller
      <4>4. g[a] = f[y] + g[a \ {y}] /\ g[b] = f[x] + g[b \ {x}]
        BY <1>1, <1>4, <3>4, <4>1, <4>2, <4>3
      <4>5. a \ {y} = b \ {x} /\ a \ {y} \in SUBSET S
        BY <4>1, <4>2
      <4>6. PICK c \in Int, fx \in Int, fy \in Int :
              c = g[a \ {y}] /\ fx = f[x] /\ fy = f[y]
        BY <4>5
      <4>7. g[a] = fy + c /\ g[b] = fx + c
        BY <4>4, <4>5, <4>6
      <4>8. g[s] = fx + (fy + c)
        BY <3>2, <4>1, <4>6, <4>7
      <4>9. QED
        BY <4>2, <4>6, <4>7, <4>8
    <3>5. QED
      BY <3>3, <3>4
  <2>2. QED
    BY <1>1, <2>1
<1>5. Nat \subseteq D
  BY <1>3, <1>4, Naturals0
<1>6. ASSUME NEW s \in SUBSET S PROVE \A y \in s : g[s] = f[y] + g[s \ {y}]
  <2>1. PICK n \in Nat : n = Cardinality(s)
    BY Smaller
  <2>2. n \in D /\ Cardinality(s) <= n
    BY <1>5, <2>1
  <2>3. QED
    BY <1>1, <2>2
<1>7. QED
  BY <1>6 DEF InAnyOrder

(* The sum: nothing of nothing, and one more with each element.            *)
LEMMA SumStep ==
  ASSUME NEW S, IsFiniteSet(S), NEW f, \A x \in S : f[x] \in Int
  PROVE  /\ SumFunctionOnSet(f, {}) = 0 /\ SumFunctionOnSet(f, S) \in Int
         /\ \A y \in S : /\ SumFunctionOnSet(f, S \ {y}) \in Int
                         /\ SumFunctionOnSet(f, S) = f[y] + SumFunctionOnSet(f, S \ {y})
<1>1. ASSUME NEW T \in SUBSET S, NEW g \in [SUBSET S -> Int], SumsBy(f, S, g)
      PROVE  SumFunctionOnSet(f, T) = g[T]
  <2>1. IsFiniteSet(T)
    BY FS_Subset
  <2>2. PICK h : h = CHOOSE i : SumsBy(f, T, i)
    OBVIOUS
  <2>3. SumsBy(f, T, h)
    BY <2>1, <2>2, SumsExist
  <2>4. g[T] = h[T]
    BY <1>1, <2>1, <2>3, SumsAgree
  <2>5. QED
    BY <2>2, <2>4, SumIs
<1>2. PICK g \in [SUBSET S -> Int] : SumsBy(f, S, g)
  BY SumsExist
<1>3. g[{}] = 0
  BY <1>2 DEF SumsBy
<1>4. \A y \in S : g[S] = f[y] + g[S \ {y}]
  <2>1. InAnyOrder(f, S, g)
    BY <1>2, SumsInAnyOrder
  <2>2. S \in SUBSET S
    OBVIOUS
  <2>3. QED
    BY <2>1, <2>2 DEF InAnyOrder
<1>5. \A T \in SUBSET S : SumFunctionOnSet(f, T) = g[T] /\ g[T] \in Int
  BY <1>1, <1>2
<1>6. {} \in SUBSET S /\ S \in SUBSET S /\ \A y \in S : S \ {y} \in SUBSET S
  OBVIOUS
<1>7. QED
  BY <1>3, <1>4, <1>5, <1>6

(* What holds of the empty set, and of every set with one more element,    *)
(* holds of a finite set.                                                  *)
LEMMA FiniteSets0 ==
  ASSUME NEW S, IsFiniteSet(S), NEW G, {} \in G,
         \A A \in SUBSET S : \A x \in A : A \ {x} \in G => A \in G
  PROVE  SUBSET S \subseteq G
<1>1. PICK D : D = {n \in Nat : \A A \in SUBSET S : Cardinality(A) <= n => A \in G}
  OBVIOUS
<1>2. 0 \in D
  BY <1>1, Smaller
<1>3. ASSUME NEW n \in Nat, n \in D PROVE n + 1 \in D
  <2>1. ASSUME NEW A \in SUBSET S, Cardinality(A) <= n + 1, A # {} PROVE A \in G
    <3>1. PICK x \in A : TRUE
      BY <2>1
    <3>2. /\ A \ {x} \in SUBSET S /\ Cardinality(A \ {x}) = Cardinality(A) - 1
          /\ Cardinality(A) \in Nat
      BY Smaller
    <3>3. A \ {x} \in G
      BY <1>1, <1>3, <2>1, <3>2
    <3>4. QED
      BY <3>3
  <2>2. \A A \in SUBSET S : Cardinality(A) <= n + 1 => A \in G
    BY <2>1
  <2>3. QED
    BY <1>1, <2>2
<1>4. Nat \subseteq D
  BY <1>2, <1>3, Naturals0
<1>5. ASSUME NEW A \in SUBSET S PROVE A \in G
  <2>1. PICK n \in Nat : n = Cardinality(A)
    BY Smaller
  <2>2. n \in D /\ Cardinality(A) <= n
    BY <1>4, <2>1
  <2>3. QED
    BY <1>1, <2>2
<1>6. QED
  BY <1>5

------------------------------------------------------------------------------
(* The sum of numbers, and what one of them adds to it. *)
SumOver(f, S) == SumFunctionOnSet(f, S)
LEMMA SumWith ==
  ASSUME NEW R, IsFiniteSet(R), NEW f, f \in [R -> Nat], NEW S \in SUBSET R
  PROVE  /\ SumOver(f, {}) = 0 /\ SumOver(f, S) \in Int
         /\ \A y \in S : /\ f[y] \in Int /\ SumOver(f, S \ {y}) \in Int
                         /\ SumOver(f, S) = f[y] + SumOver(f, S \ {y})
<1>1. IsFiniteSet(S) /\ \A x \in S : f[x] \in Int
  BY FS_Subset
<1>2. QED
  BY <1>1, SumStep DEF SumOver

(* It depends on nothing but the numbers in the set. *)
LEMMA SumSame ==
  ASSUME NEW R, IsFiniteSet(R), NEW f, f \in [R -> Nat], NEW h, h \in [R -> Nat],
         NEW S \in SUBSET R, \A x \in S : f[x] = h[x]
  PROVE  SumOver(f, S) = SumOver(h, S)
<1>1. PICK G : G = {A \in SUBSET S : SumOver(f, A) = SumOver(h, A)}
  OBVIOUS
<1>2. {} \in G
  BY <1>1, SumWith
<1>3. ASSUME NEW A \in SUBSET S, NEW x \in A, A \ {x} \in G PROVE A \in G
  <2>1. A \in SUBSET R
    OBVIOUS
  <2>2. SumOver(f, A) = f[x] + SumOver(f, A \ {x}) /\ SumOver(h, A) = h[x] + SumOver(h, A \ {x})
    BY <2>1, SumWith
  <2>3. QED
    BY <1>1, <1>3, <2>2
<1>4. IsFiniteSet(S)
  BY FS_Subset
<1>5. S \in G
  BY <1>2, <1>3, <1>4, FiniteSets0
<1>6. QED
  BY <1>1, <1>5

(* The sum over two sets that have nothing in common. *)
LEMMA SumUnion ==
  ASSUME NEW R, IsFiniteSet(R), NEW f, f \in [R -> Nat],
         NEW S \in SUBSET R, NEW T \in SUBSET R, S \cap T = {}
  PROVE  /\ SumOver(f, S \cup T) \in Nat /\ SumOver(f, S) \in Nat /\ SumOver(f, T) \in Nat
         /\ SumOver(f, S \cup T) = SumOver(f, S) + SumOver(f, T)
<1>1. ASSUME NEW A \in SUBSET R PROVE SumOver(f, A) \in Nat
  <2>1. PICK G : G = {B \in SUBSET R : SumOver(f, B) >= 0}
    OBVIOUS
  <2>2. {} \in G
    BY <2>1, SumWith
  <2>3. ASSUME NEW B \in SUBSET R, NEW x \in B, B \ {x} \in G PROVE B \in G
    <3>1. SumOver(f, B) = f[x] + SumOver(f, B \ {x}) /\ f[x] \in Nat /\ SumOver(f, B \ {x}) \in Int
      BY SumWith
    <3>2. QED
      BY <2>1, <2>3, <3>1
  <2>4. A \in G
    BY <2>2, <2>3, FiniteSets0
  <2>5. QED
    BY <2>1, <2>4, SumWith
<1>2. PICK G : G = {A \in SUBSET T : SumOver(f, S \cup A) = SumOver(f, S) + SumOver(f, A)}
  OBVIOUS
<1>3. {} \in G
  <2>1. SumOver(f, {}) = 0 /\ SumOver(f, S) \in Int /\ S \cup {} = S /\ {} \in SUBSET T
    BY SumWith
  <2>2. QED
    BY <1>2, <2>1
<1>4. ASSUME NEW A \in SUBSET T, NEW x \in A, A \ {x} \in G PROVE A \in G
  <2>1. PICK B \in SUBSET R : B = S \cup A
    OBVIOUS
  <2>2. A \in SUBSET R /\ x \in B /\ B \ {x} = S \cup (A \ {x})
    BY <2>1
  <2>3. /\ SumOver(f, A) = f[x] + SumOver(f, A \ {x}) /\ f[x] \in Int /\ SumOver(f, A \ {x}) \in Int
        /\ SumOver(f, B) = f[x] + SumOver(f, B \ {x}) /\ SumOver(f, S) \in Int
    BY <2>2, SumWith
  <2>4. SumOver(f, S \cup (A \ {x})) = SumOver(f, S) + SumOver(f, A \ {x})
    BY <1>2, <1>4
  <2>5. SumOver(f, B) = SumOver(f, S) + SumOver(f, A)
    <3>1. PICK a \in Int, b \in Int, c \in Int :
            a = f[x] /\ b = SumOver(f, A \ {x}) /\ c = SumOver(f, S)
      BY <2>3
    <3>2. SumOver(f, B \ {x}) = c + b
      BY <2>2, <2>4, <3>1
    <3>3. SumOver(f, B) = a + (c + b) /\ SumOver(f, A) = a + b
      BY <2>3, <3>1, <3>2
    <3>4. QED
      BY <3>1, <3>3
  <2>6. QED
    BY <1>2, <2>1, <2>5
<1>5. IsFiniteSet(T)
  BY FS_Subset
<1>6. T \in G
  BY <1>3, <1>4, <1>5, FiniteSets0
<1>7. S \cup T \in SUBSET R
  OBVIOUS
<1>8. QED
  BY <1>1, <1>2, <1>6, <1>7

(* Fewer numbers make no larger sum. *)
LEMMA SumLess ==
  ASSUME NEW R, IsFiniteSet(R), NEW f, f \in [R -> Nat],
         NEW T \in SUBSET R, NEW S \in SUBSET T
  PROVE  SumOver(f, S) \in Nat /\ SumOver(f, T) \in Nat /\ SumOver(f, S) <= SumOver(f, T)
<1>1. PICK A \in SUBSET R : A = T \ S
  OBVIOUS
<1>2. S \in SUBSET R /\ S \cap A = {} /\ S \cup A = T
  BY <1>1
<1>3. /\ SumOver(f, S) \in Nat /\ SumOver(f, A) \in Nat
      /\ SumOver(f, T) = SumOver(f, S) + SumOver(f, A)
  <2>1. /\ SumOver(f, S \cup A) = SumOver(f, S) + SumOver(f, A)
        /\ SumOver(f, S) \in Nat /\ SumOver(f, A) \in Nat
    BY <1>2, SumUnion
  <2>2. QED
    BY <1>2, <2>1
<1>4. QED
  BY <1>3

(* Multiples make a multiple. *)
LEMMA SumScaled ==
  ASSUME NEW R, IsFiniteSet(R), NEW f, f \in [R -> Nat], NEW h, h \in [R -> Nat],
         NEW c \in Nat, NEW S \in SUBSET R, \A x \in S : h[x] = c * f[x]
  PROVE  SumOver(h, S) = c * SumOver(f, S)
<1>1. PICK G : G = {A \in SUBSET S : SumOver(h, A) = c * SumOver(f, A)}
  OBVIOUS
<1>2. {} \in G
  <2>1. SumOver(f, {}) = 0 /\ SumOver(h, {}) = 0 /\ {} \in SUBSET S
    BY SumWith
  <2>2. QED
    BY <1>1, <2>1
<1>3. ASSUME NEW A \in SUBSET S, NEW x \in A, A \ {x} \in G PROVE A \in G
  <2>1. A \in SUBSET R
    OBVIOUS
  <2>2. SumOver(f, A) = f[x] + SumOver(f, A \ {x}) /\ SumOver(h, A) = h[x] + SumOver(h, A \ {x})
        /\ SumOver(f, A \ {x}) \in Int /\ f[x] \in Int
    BY <2>1, SumWith
  <2>3. PICK a \in Int, b \in Int : a = f[x] /\ b = SumOver(f, A \ {x})
    BY <2>2
  <2>4. SumOver(h, A \ {x}) = c * b /\ h[x] = c * a
    BY <1>1, <1>3, <2>3
  <2>5. SumOver(h, A) = c * a + c * b /\ SumOver(f, A) = a + b
    BY <2>2, <2>3, <2>4
  <2>6. c * a + c * b = c * (a + b)
    OBVIOUS
  <2>7. QED
    BY <1>1, <2>5, <2>6
<1>4. IsFiniteSet(S)
  BY FS_Subset
<1>5. S \in G
  BY <1>2, <1>3, <1>4, FiniteSets0
<1>6. QED
  BY <1>1, <1>5

(* Sums of numbers make the sum of the sums. *)
LEMMA SumPlus ==
  ASSUME NEW R, IsFiniteSet(R), NEW f, f \in [R -> Nat], NEW h, h \in [R -> Nat],
         NEW g, g \in [R -> Nat], NEW S \in SUBSET R, \A x \in S : g[x] = f[x] + h[x]
  PROVE  SumOver(g, S) = SumOver(f, S) + SumOver(h, S)
<1>1. PICK G : G = {A \in SUBSET S : SumOver(g, A) = SumOver(f, A) + SumOver(h, A)}
  OBVIOUS
<1>2. {} \in G
  <2>1. SumOver(f, {}) = 0 /\ SumOver(h, {}) = 0 /\ SumOver(g, {}) = 0
    BY SumWith
  <2>2. QED
    BY <1>1, <2>1
<1>3. ASSUME NEW A \in SUBSET S, NEW x \in A, A \ {x} \in G PROVE A \in G
  <2>1. A \in SUBSET R
    OBVIOUS
  <2>2. SumOver(f, A) = f[x] + SumOver(f, A \ {x}) /\ f[x] \in Int /\ SumOver(f, A \ {x}) \in Int
    BY <2>1, SumWith
  <2>3. SumOver(h, A) = h[x] + SumOver(h, A \ {x}) /\ h[x] \in Int /\ SumOver(h, A \ {x}) \in Int
    BY <2>1, SumWith
  <2>4. SumOver(g, A) = g[x] + SumOver(g, A \ {x})
    BY <2>1, SumWith
  <2>5. PICK a \in Int, b \in Int, c \in Int, d \in Int :
          a = f[x] /\ b = SumOver(f, A \ {x}) /\ c = h[x] /\ d = SumOver(h, A \ {x})
    BY <2>2, <2>3
  <2>6. SumOver(g, A \ {x}) = b + d /\ g[x] = a + c
    BY <1>1, <1>3, <2>5
  <2>7. SumOver(g, A) = (a + c) + (b + d) /\ SumOver(f, A) = a + b /\ SumOver(h, A) = c + d
    BY <2>2, <2>3, <2>4, <2>5, <2>6
  <2>8. SumOver(g, A) = SumOver(f, A) + SumOver(h, A)
    BY <2>5, <2>7
  <2>9. QED
    BY <1>1, <2>8
<1>4. IsFiniteSet(S)
  BY FS_Subset
<1>5. S \in G
  BY <1>2, <1>3, <1>4, FiniteSets0
<1>6. QED
  BY <1>1, <1>5

(* Zeros make zero. *)
LEMMA SumZeros ==
  ASSUME NEW R, IsFiniteSet(R), NEW f, f \in [R -> Nat], NEW S \in SUBSET R,
         \A x \in S : f[x] = 0
  PROVE  SumOver(f, S) = 0
<1>1. SumOver(f, S) = 0 * SumOver(f, S)
  BY SumScaled
<1>2. SumOver(f, S) \in Int
  BY SumWith
<1>3. QED
  BY <1>1, <1>2

(* A sum over what has been renamed. *)
LEMMA SumRenamed ==
  ASSUME NEW R, IsFiniteSet(R), NEW T, IsFiniteSet(T), NEW g, g \in [R -> T],
         NEW f, f \in [T -> Nat], NEW h, h \in [R -> Nat],
         NEW S \in SUBSET R, \A x \in S : h[x] = f[g[x]],
         \A x, y \in S : g[x] = g[y] => x = y
  PROVE  SumOver(h, S) = SumOver(f, {g[x] : x \in S})
<1>1. PICK G : G = {A \in SUBSET S : SumOver(h, A) = SumOver(f, {g[x] : x \in A})}
  OBVIOUS
<1>2. {} \in G
  <2>1. SumOver(h, {}) = 0
    BY SumWith
  <2>2. SumOver(f, {}) = 0
    BY SumWith
  <2>3. {g[x] : x \in {}} = {}
    OBVIOUS
  <2>4. SumOver(h, {}) = SumOver(f, {g[x] : x \in {}})
    BY <2>1, <2>2, <2>3
  <2>5. QED
    BY <1>1, <2>4
<1>3. ASSUME NEW A \in SUBSET S, NEW x \in A, A \ {x} \in G PROVE A \in G
  <2>1. A \in SUBSET R
    OBVIOUS
  <2>2. SumOver(h, A) = h[x] + SumOver(h, A \ {x})
    BY <2>1, SumWith
  <2>3. PICK B : B = {g[y] : y \in A}
    OBVIOUS
  <2>4. g[x] \in B /\ B \ {g[x]} = {g[y] : y \in A \ {x}}
    <3>1. \A y \in A : y # x => g[y] # g[x]
      OBVIOUS
    <3>2. QED
      BY <2>3, <3>1
  <2>5. B \in SUBSET T
    <3>1. \A y \in A : g[y] \in T
      BY <2>1
    <3>2. QED
      BY <2>3, <3>1
  <2>6. SumOver(f, B) = f[g[x]] + SumOver(f, B \ {g[x]})
    <3>1. \A y \in B : SumOver(f, B) = f[y] + SumOver(f, B \ {y})
      BY <2>5, SumWith
    <3>2. QED
      BY <2>4, <3>1
  <2>7. SumOver(h, A \ {x}) = SumOver(f, B \ {g[x]}) /\ h[x] = f[g[x]]
    BY <1>1, <1>3, <2>4
  <2>8. SumOver(h, A) = SumOver(f, B)
    BY <2>2, <2>6, <2>7
  <2>9. QED
    BY <1>1, <2>3, <2>8
<1>4. IsFiniteSet(S)
  BY FS_Subset
<1>5. S \in G
  BY <1>2, <1>3, <1>4, FiniteSets0
<1>6. QED
  BY <1>1, <1>5

(* What a finite set is mapped to is finite. *)
LEMMA FiniteImage ==
  ASSUME NEW S, IsFiniteSet(S), NEW f
  PROVE  IsFiniteSet({f[x] : x \in S})
<1>1. PICK T, g : T = {f[x] : x \in S} /\ g = [x \in S |-> f[x]]
  OBVIOUS
<1>2. g \in [S -> T] /\ \A y \in T : \E x \in S : g[x] = y
  BY <1>1
<1>3. g \in Surjection(S, T)
  BY <1>2 DEF Surjection
<1>4. QED
  BY <1>1, <1>3, FS_Surjection

LEMMA DisjointUnion ==
  ASSUME NEW X, IsFiniteSet(X), NEW Y, IsFiniteSet(Y), X \cap Y = {}
  PROVE  Cardinality(X \cup Y) = Cardinality(X) + Cardinality(Y)
<1>1. /\ Cardinality(X \cup Y) = Cardinality(X) + Cardinality(Y) - Cardinality(X \cap Y)
      /\ Cardinality(X) \in Nat /\ Cardinality(Y) \in Nat
  BY FS_Union, FS_CardinalityType
<1>2. Cardinality(X \cap Y) = 0
  BY FS_EmptySet
<1>3. QED
  BY <1>1, <1>2

(* What is counted by kind, kind by kind, is counted once. *)
Of(D, kind, k) == {x \in D : kind[x] = k}
LEMMA SumOfKinds ==
  ASSUME NEW D, IsFiniteSet(D), NEW K, IsFiniteSet(K), NEW kind,
         NEW n, n \in [K -> Nat], \A k \in K : n[k] = Cardinality(Of(D, kind, k)),
         NEW S \in SUBSET K
  PROVE  SumOver(n, S) = Cardinality({x \in D : kind[x] \in S})
<1>1. PICK G : G = {A \in SUBSET S : SumOver(n, A) = Cardinality({x \in D : kind[x] \in A})}
  OBVIOUS
<1>2. {} \in G
  <2>1. SumOver(n, {}) = 0
    BY SumWith
  <2>2. {x \in D : kind[x] \in {}} = {} /\ Cardinality({}) = 0
    BY FS_EmptySet
  <2>3. QED
    BY <1>1, <2>1, <2>2
<1>3. ASSUME NEW A \in SUBSET S, NEW k \in A, A \ {k} \in G PROVE A \in G
  <2>1. A \in SUBSET K /\ k \in K
    OBVIOUS
  <2>2. SumOver(n, A) = n[k] + SumOver(n, A \ {k})
    BY <2>1, SumWith
  <2>3. PICK X, Y : X = Of(D, kind, k) /\ Y = {x \in D : kind[x] \in A \ {k}}
    OBVIOUS
  <2>4. IsFiniteSet(X) /\ IsFiniteSet(Y) /\ X \cap Y = {}
    BY <2>3, FS_Subset DEF Of
  <2>5. {x \in D : kind[x] \in A} = X \cup Y
    BY <2>3 DEF Of
  <2>6. Cardinality(X \cup Y) = Cardinality(X) + Cardinality(Y)
    BY <2>4, DisjointUnion
  <2>7. n[k] = Cardinality(X) /\ SumOver(n, A \ {k}) = Cardinality(Y)
    BY <1>1, <1>3, <2>1, <2>3
  <2>8. SumOver(n, A) = Cardinality({x \in D : kind[x] \in A})
    BY <2>2, <2>5, <2>6, <2>7
  <2>9. QED
    BY <1>1, <2>8
<1>4. IsFiniteSet(S)
  BY FS_Subset
<1>5. S \in G
  BY <1>2, <1>3, <1>4, FiniteSets0
<1>6. QED
  BY <1>1, <1>5


------------------------------------------------------------------------------
(* Quotients. *)

(* Multiples compare as what they are multiples of. *)
LEMMA TimesMore ==
  ASSUME NEW n \in Nat \ {0}, NEW a \in Int, NEW b \in Int
  PROVE  a <= b <=> n * a <= n * b
<1>1. n * b - n * a = n * (b - a)
  OBVIOUS
<1>2. CASE b - a >= 0
  <2>1. PICK c \in Nat : c = b - a
    BY <1>2
  <2>2. n * c >= 0
    OBVIOUS
  <2>3. QED
    BY <1>1, <1>2, <2>1, <2>2
<1>3. CASE ~(b - a >= 0)
  <2>1. PICK c \in Nat \ {0} : c = a - b
    BY <1>3
  <2>2. n * c > 0
    OBVIOUS
  <2>3. n * a - n * b = n * c
    BY <2>1
  <2>4. n * a \in Int /\ n * b \in Int /\ n * c \in Int
    OBVIOUS
  <2>5. QED
    BY <1>3, <2>1, <2>2, <2>3, <2>4
<1>4. QED
  BY <1>2, <1>3

(* A quotient is the one whole number whose multiple comes next below. *)
LEMMA Quotient ==
  ASSUME NEW n \in Nat \ {0}, NEW x \in Int
  PROVE  /\ x \div n \in Int
         /\ n * (x \div n) <= x /\ x < n * (x \div n) + n
         /\ \A q \in Int : n * q <= x /\ x < n * q + n => q = x \div n
<1>1. /\ x \div n \in Int
      /\ n * (x \div n) <= x /\ x < n * (x \div n) + n
  OBVIOUS
<1>2. ASSUME NEW q \in Int, n * q <= x, x < n * q + n PROVE q = x \div n
  <2>1. PICK p \in Int : p = x \div n /\ n * p <= x /\ x < n * p + n
    BY <1>1
  <2>2. n * q \in Int /\ n * p \in Int /\ n * (q + 1) = n * q + n /\ n * (p + 1) = n * p + n
    OBVIOUS
  <2>3. ~(n * (p + 1) <= n * q) /\ ~(n * (q + 1) <= n * p)
    BY <1>2, <2>1, <2>2
  <2>4. ~(p + 1 <= q) /\ ~(q + 1 <= p)
    BY <2>3, TimesMore
  <2>5. QED
    BY <2>1, <2>4
<1>3. QED
  BY <1>1, <1>2

(* Adding multiples of the divisor adds to the quotient. *)
LEMMA QuotientAdds ==
  ASSUME NEW n \in Nat \ {0}, NEW x \in Int, NEW y \in Int
  PROVE  (x + n * y) \div n = (x \div n) + y
<1>1. PICK q \in Int : q = x \div n /\ n * q <= x /\ x < n * q + n
  BY Quotient
<1>2. n * (q + y) = n * q + n * y /\ n * q \in Int /\ n * y \in Int /\ q + y \in Int
  OBVIOUS
<1>3. n * (q + y) <= x + n * y /\ x + n * y < n * (q + y) + n /\ x + n * y \in Int
  BY <1>1, <1>2
<1>4. q + y = (x + n * y) \div n
  BY <1>2, <1>3, Quotient
<1>5. QED
  BY <1>1, <1>4

==============================================================================
