---------------------------- MODULE ChainsProofs ----------------------------
(***************************************************************************)
(* Proofs about Chains: whatever is built, relinked, measured, regrouped   *)
(* or built again at the same address, a chain is one circle through every *)
(* word it is to visit, and the benchmarks stay on it.                     *)
(*                                                                         *)
(* The argument has four parts.  Bit reversal gives each word of a line,   *)
(* and each line of a page, once (TurnedApart).  A chain whose words are   *)
(* numbered by sections, and linked within a section, from one to the next *)
(* and from the last to the first, is a circle (SectionsCircle).  What     *)
(* each initializer, line_test(), measure() and regroup() link has that    *)
(* form (StrideCircle to RegroupedCircle).  And ChainInv keeps what the    *)
(* next of them builds on.                                                 *)
(***************************************************************************)
EXTENDS Chains, FiniteSetTheorems, WellFoundedInduction, TLAPS

LEMMA LeastNatural ==
  ASSUME NEW S \in SUBSET Nat, S # {}
  PROVE  \E x \in S : \A y \in S : x <= y
<1>. DEFINE less == {ss \in Nat \X Nat : ss[1] < ss[2]}
<1>1. IsWellFoundedOn(less, Nat)
  BY Zenon, NatLessThanWellFounded DEF OpToRel
<1>2. PICK x \in S : \A y \in S : <<y, x>> \notin less
  BY Zenon, <1>1, WFMin
<1>3. \A y \in S : ~(y < x)
  BY <1>2
<1>. QED
  BY <1>3

-----------------------------------------------------------------------------
(* Functions that are given by a first value and a step.                    *)

\* The first values of the function with first value s0 and step h.
Unfolds(S, s0, h, n, g) ==
    /\ g \in [0..n -> S] /\ g[0] = s0
    /\ \A k \in 1..n : g[k] = h[k][g[k - 1]]

LEMMA UnfoldsMore ==
  ASSUME NEW S, NEW s0 \in S, NEW h \in [Nat -> [S -> S]],
         NEW m \in Nat, m # 0, NEW g, Unfolds(S, s0, h, m - 1, g)
  PROVE  \E f : Unfolds(S, s0, h, m, f)
<1>. DEFINE f == [k \in 0..m |-> IF k = m THEN h[m][g[m - 1]] ELSE g[k]]
<1>1. m - 1 \in Nat /\ m - 1 \in 0..m - 1 /\ m \in Nat /\ m > 0
  OBVIOUS
<1>2. /\ g \in [0..m - 1 -> S] /\ g[0] = s0
      /\ \A k \in 1..m - 1 : g[k] = h[k][g[k - 1]]
  BY DEF Unfolds
<1>3. g[m - 1] \in S /\ h[m] \in [S -> S]
  BY <1>1, <1>2
<1>4. h[m][g[m - 1]] \in S
  BY <1>3
<1>5. ASSUME NEW k \in 0..m PROVE f[k] \in S
  <2>1. CASE k = m
    BY <2>1, <1>4
  <2>2. CASE k # m
    <3>1. k \in 0..m - 1
      BY <2>2
    <3>. QED
      BY <3>1, <2>2, <1>2
  <2>. QED
    BY <2>1, <2>2
<1>6. f \in [0..m -> S] /\ f[0] = s0
  BY <1>1, <1>2, <1>5
<1>7. ASSUME NEW k \in 1..m
      PROVE  f[k] = h[k][f[k - 1]]
  <2>1. CASE k = m
    BY <2>1, <1>1
  <2>2. CASE k # m
    <3>1. k \in 1..m - 1 /\ k \in 0..m /\ k - 1 \in 0..m /\ k - 1 # m
      BY <2>2, <1>1
    <3>2. g[k] = h[k][g[k - 1]]
      BY <3>1, <1>2
    <3>. QED
      BY <3>1, <3>2, <2>2
  <2>. QED
    BY <2>1, <2>2
<1>. QED
  BY Zenon, <1>6, <1>7 DEF Unfolds

LEMMA UnfoldsAll ==
  ASSUME NEW S, NEW s0 \in S, NEW h \in [Nat -> [S -> S]], NEW n \in Nat
  PROVE  \E g : Unfolds(S, s0, h, n, g)
<1>. DEFINE Without == {m \in Nat : ~\E g : Unfolds(S, s0, h, m, g)}
<1>1. ASSUME Without # {}
      PROVE  FALSE
  <2>0. Without \in SUBSET Nat
    BY Zenon
  <2>1. PICK m \in Without : \A l \in Without : m <= l
    BY Zenon, <1>1, <2>0, LeastNatural
  <2>2. CASE m = 0
    <3>1. Unfolds(S, s0, h, 0, [k \in 0..0 |-> s0])
      BY DEF Unfolds
    <3>. QED
      BY Zenon, <3>1, <2>1, <2>2
  <2>3. CASE m # 0
    <3>1. m \in Nat /\ m - 1 \in Nat /\ ~(m <= m - 1)
      BY <2>3
    <3>2. PICK g : Unfolds(S, s0, h, m - 1, g)
      BY Zenon, <3>1, <2>1
    <3>. QED
      BY Zenon, <3>1, <3>2, <2>1, <2>3, UnfoldsMore
  <2>. QED
    BY <2>2, <2>3
<1>. QED
  BY Zenon, <1>1

LEMMA UnfoldsOnce ==
  ASSUME NEW S, NEW s0, NEW h, NEW m \in Nat, NEW n \in Nat, NEW f, NEW g,
         Unfolds(S, s0, h, m, f), Unfolds(S, s0, h, n, g)
  PROVE  \A i \in Nat : i <= m /\ i <= n => f[i] = g[i]
<1>. DEFINE Off == {k \in Nat : k <= m /\ k <= n /\ f[k] # g[k]}
<1>1. ASSUME Off # {}
      PROVE  FALSE
  <2>0. Off \in SUBSET Nat
    BY Zenon
  <2>1. PICK k \in Off : \A l \in Off : k <= l
    BY Zenon, <1>1, <2>0, LeastNatural
  <2>2. k # 0
    BY <2>1 DEF Unfolds
  <2>3. k - 1 \in Nat /\ k - 1 <= m /\ k - 1 <= n /\ ~(k <= k - 1)
        /\ k \in 1..m /\ k \in 1..n
    BY <2>1, <2>2
  <2>4. f[k - 1] = g[k - 1]
    BY Zenon, <2>3, <2>1
  <2>5. f[k] = h[k][f[k - 1]] /\ g[k] = h[k][g[k - 1]]
    BY Zenon, <2>3 DEF Unfolds
  <2>. QED
    BY Zenon, <2>1, <2>4, <2>5
<1>. QED
  BY Zenon, <1>1

StepOf(S, h) == h \in [Nat -> [S -> S]]
Recurs(S, s0, h, f) ==
    /\ f \in [Nat -> S] /\ f[0] = s0
    /\ \A k \in Nat \ {0} : f[k] = h[k][f[k - 1]]

\* A first value and a step give a function.
LEMMA RecursionExists ==
  ASSUME NEW S, NEW s0 \in S, NEW h, StepOf(S, h)
  PROVE  \E f : Recurs(S, s0, h, f)
<1>0. h \in [Nat -> [S -> S]]
  BY DEF StepOf
<1>. DEFINE Begun == [m \in Nat |-> CHOOSE g : Unfolds(S, s0, h, m, g)]
            f == [m \in Nat |-> Begun[m][m]]
<1>1. \A m \in Nat : Unfolds(S, s0, h, m, Begun[m])
  BY Zenon, <1>0, UnfoldsAll
<1>. HIDE DEF Begun
<1>2. f[0] = s0
  BY <1>1 DEF Unfolds
<1>3. ASSUME NEW k \in Nat \ {0}
      PROVE  f[k] = h[k][f[k - 1]]
  <2>1. k \in Nat /\ k - 1 \in Nat /\ k \in 1..k /\ k - 1 <= k
        /\ k - 1 <= k - 1
    BY <1>3
  <2>2. Begun[k][k] = h[k][Begun[k][k - 1]]
    BY Zenon, <1>1, <2>1 DEF Unfolds
  <2>3. Unfolds(S, s0, h, k, Begun[k])
        /\ Unfolds(S, s0, h, k - 1, Begun[k - 1])
    BY Zenon, <1>1, <2>1
  <2>. HIDE DEF f
  <2>. DEFINE l == k - 1
              a == Begun[k]
              b == Begun[k - 1]
  <2>4. /\ l \in Nat /\ k \in Nat
        /\ Unfolds(S, s0, h, k, a) /\ Unfolds(S, s0, h, l, b)
    BY Zenon, <2>1, <2>3
  <2>. HIDE DEF a, b, l
  <2>5. \A i \in Nat : i <= k /\ i <= l => a[i] = b[i]
    BY <2>4, UnfoldsOnce
  <2>6. f[k] = Begun[k][k] /\ f[k - 1] = Begun[k - 1][k - 1]
    BY Zenon, <2>1 DEF f
  <2>7. Begun[k][k - 1] = Begun[k - 1][k - 1]
    BY Zenon, <2>1, <2>5 DEF a, b, l
  <2>. QED
    BY <2>2, <2>6, <2>7
<1>4. f \in [Nat -> S]
  <2>1. ASSUME NEW m \in Nat PROVE Begun[m][m] \in S
    <3>1. m \in 0..m
      OBVIOUS
    <3>. QED
      BY Zenon, <1>1, <3>1 DEF Unfolds
  <2>. QED
    BY Zenon, <2>1
<1>. HIDE DEF f
<1>. QED
  BY Zenon, <1>2, <1>3, <1>4 DEF Recurs

\* What is given in this way has values in S only.
LEMMA UnfoldsWithin ==
  ASSUME NEW S, NEW h, StepOf(S, h), NEW n \in Nat, NEW f, f[0] \in S,
         \A k \in 1..n : f[k - 1] \in S => f[k] = h[k][f[k - 1]]
  PROVE  \A k \in 0..n : f[k] \in S
<1>. DEFINE Off == {k \in 0..n : f[k] \notin S}
<1>1. ASSUME Off # {}
      PROVE  FALSE
  <2>0. Off \in SUBSET Nat
    OBVIOUS
  <2>1. PICK k \in Off : \A l \in Off : k <= l
    BY Zenon, <1>1, <2>0, LeastNatural
  <2>2. k \in 0..n /\ k # 0 /\ k - 1 \in 0..n /\ ~(k <= k - 1)
        /\ k \in 1..n /\ k \in Nat
    BY <2>1
  <2>3. f[k - 1] \in S
    BY Zenon, <2>1, <2>2
  <2>5. f[k] = h[k][f[k - 1]] /\ h[k] \in [S -> S]
    BY <2>2, <2>3 DEF StepOf
  <2>. QED
    BY <2>1, <2>3, <2>5
<1>. QED
  BY Zenon, <1>1

-----------------------------------------------------------------------------
(* Powers of two, and the order of words that is made of them.             *)

LEMMA TwoToIs ==
  /\ TwoTo[0] = 1
  /\ \A n \in Nat : TwoTo[n + 1] = 2 * TwoTo[n]
<1>. DEFINE h == [k \in Nat |-> [x \in Nat |-> 2 * x]]
            Step(f) == [n \in Nat |-> IF n = 0 THEN 1 ELSE 2 * f[n - 1]]
<1>1. PICK f : Recurs(Nat, 1, h, f)
  <2>1. StepOf(Nat, h) /\ 1 \in Nat
    BY DEF StepOf
  <2>. HIDE DEF h
  <2>. QED
    BY Zenon, <2>1, RecursionExists
<1>2. ASSUME NEW n \in Nat, n # 0
      PROVE  f[n] = 2 * f[n - 1]
  <2>1. n - 1 \in Nat /\ f[n - 1] \in Nat
    BY <1>1, <1>2 DEF Recurs
  <2>2. h[n][f[n - 1]] = 2 * f[n - 1]
    BY Zenon, <2>1
  <2>. QED
    BY <1>1, <1>2, <2>2 DEF Recurs
<1>. HIDE DEF h
<1>3. f = Step(f)
  BY <1>1, <1>2 DEF Recurs
<1>4. TwoTo = CHOOSE g : g = Step(g)
  BY Zenon DEF TwoTo
<1>5. TwoTo = Step(TwoTo)
  BY Zenon, <1>3, <1>4
<1>6. ASSUME NEW n \in Nat
      PROVE  TwoTo[n + 1] = 2 * TwoTo[n]
  <2>1. n + 1 \in Nat /\ n + 1 # 0 /\ (n + 1) - 1 = n
    OBVIOUS
  <2>. QED
    BY <1>5, <2>1
<1>7. TwoTo[0] = 1
  BY <1>5
<1>. QED
  BY <1>6, <1>7

LEMMA TwoToPositive ==
  \A n \in Nat : TwoTo[n] \in Nat \ {0} /\ n < TwoTo[n]
<1>. DEFINE Off == {n \in Nat : ~(TwoTo[n] \in Nat \ {0} /\ n < TwoTo[n])}
<1>1. ASSUME Off # {}
      PROVE  FALSE
  <2>0. Off \in SUBSET Nat
    BY Zenon
  <2>1. PICK n \in Off : \A l \in Off : n <= l
    BY Zenon, <1>1, <2>0, LeastNatural
  <2>2. n # 0
    BY <2>1, TwoToIs
  <2>3. n - 1 \in Nat /\ ~(n <= n - 1) /\ (n - 1) + 1 = n
    BY <2>1, <2>2
  <2>4. TwoTo[n - 1] \in Nat \ {0} /\ n - 1 < TwoTo[n - 1]
    BY <2>1, <2>3
  <2>5. TwoTo[n] = 2 * TwoTo[n - 1]
    BY <2>3, TwoToIs
  <2>. QED
    BY <2>1, <2>3, <2>4, <2>5
<1>. QED
  BY Zenon, <1>1

LEMMA TwoToGrows ==
  \A n, m \in Nat : n < m => 2 * TwoTo[n] <= TwoTo[m]
<1>. SUFFICES ASSUME NEW n \in Nat
              PROVE  \A m \in Nat : n < m => 2 * TwoTo[n] <= TwoTo[m]
  OBVIOUS
<1>. DEFINE Off == {m \in Nat : n < m /\ ~(2 * TwoTo[n] <= TwoTo[m])}
<1>1. ASSUME Off # {}
      PROVE  FALSE
  <2>0. Off \in SUBSET Nat
    BY Zenon
  <2>1. PICK m \in Off : \A l \in Off : m <= l
    BY Zenon, <1>1, <2>0, LeastNatural
  <2>2. m - 1 \in Nat /\ ~(m <= m - 1) /\ (m - 1) + 1 = m
    BY <2>1
  <2>3. TwoTo[m] = 2 * TwoTo[m - 1]
    BY <2>2, TwoToIs
  <2>4. TwoTo[m - 1] \in Nat /\ TwoTo[m] \in Nat /\ TwoTo[n] \in Nat
    BY <2>2, <2>1, TwoToPositive
  <2>5. CASE m - 1 = n
    BY <2>1, <2>3, <2>4, <2>5
  <2>6. CASE m - 1 # n
    <3>1. n < m - 1
      BY <2>1, <2>2, <2>6
    <3>2. 2 * TwoTo[n] <= TwoTo[m - 1]
      BY <2>1, <2>2, <3>1
    <3>. QED
      BY <2>1, <2>3, <2>4, <3>2
  <2>. QED
    BY <2>5, <2>6
<1>. QED
  BY <1>1

LEMMA NBitsIs ==
  ASSUME NEW max \in Nat \ {0}
  PROVE  /\ NBits(max) \in Nat
         /\ TwoTo[NBits(max)] <= max /\ max < TwoTo[NBits(max) + 1]
<1>. DEFINE Above == {n \in Nat : max < TwoTo[n]}
<1>1. Above \in SUBSET Nat /\ Above # {}
  BY TwoToPositive
<1>2. PICK n \in Above : \A l \in Above : n <= l
  BY Zenon, <1>1, LeastNatural
<1>3. n # 0
  BY <1>2, TwoToIs
<1>4. n - 1 \in Nat /\ ~(n <= n - 1) /\ (n - 1) + 1 = n
  BY <1>2, <1>3
<1>5. TwoTo[n - 1] <= max
  BY <1>2, <1>4, TwoToPositive
<1>6. n - 1 \in 0..max
  BY <1>4, <1>5, TwoToPositive
<1>7. \E i \in 0..max : TwoTo[i] <= max /\ max < TwoTo[i + 1]
  BY <1>2, <1>4, <1>5, <1>6
<1>8. /\ NBits(max) \in 0..max
      /\ TwoTo[NBits(max)] <= max /\ max < TwoTo[NBits(max) + 1]
  BY Zenon, <1>7 DEF NBits
<1>. QED
  BY <1>8

LEMMA NBitsOfPower ==
  ASSUME NEW n \in Nat, PowerOfTwo(n)
  PROVE  n # 0 /\ NBits(n) \in Nat /\ TwoTo[NBits(n)] = n
<1>1. PICK i \in 0..n : n = TwoTo[i]
  BY Zenon DEF PowerOfTwo
<1>2. n \in Nat \ {0}
  BY <1>1, TwoToPositive
<1>. DEFINE b == NBits(n)
<1>3. b \in Nat /\ TwoTo[b] <= n /\ n < TwoTo[b + 1]
  BY <1>2, NBitsIs
<1>. HIDE DEF b
<1>4. TwoTo[b + 1] = 2 * TwoTo[b] /\ TwoTo[b] \in Nat
  BY <1>3, TwoToIs, TwoToPositive
<1>5. ~(i < b) /\ ~(b < i)
  <2>1. i < b => 2 * TwoTo[i] <= TwoTo[b]
    BY <1>3, TwoToGrows
  <2>2. b < i => 2 * TwoTo[b] <= TwoTo[i]
    BY <1>3, TwoToGrows
  <2>. QED
    BY <1>1, <1>2, <1>3, <1>4, <2>1, <2>2
<1>6. i = b
  BY <1>3, <1>5
<1>. QED
  BY <1>1, <1>2, <1>3, <1>6 DEF b

LEMMA ReversedIs ==
  /\ Reversed[0] = [i \in Nat |-> 0]
  /\ \A n \in Nat :
        Reversed[n + 1] =
           [i \in Nat |-> (i % 2) * TwoTo[n] + Reversed[n][i \div 2]]
<1>. DEFINE S == [Nat -> Nat]
            More(n, g) == [i \in Nat |-> (i % 2) * TwoTo[n - 1] + g[i \div 2]]
            h == [n \in Nat |-> [g \in S |->
                     IF n = 0 THEN g ELSE More(n, g)]]
            none == [i \in Nat |-> 0]
            Step(f) == [n \in Nat |-> IF n = 0 THEN none ELSE More(n, f[n - 1])]
<1>0. ASSUME NEW n \in Nat, n # 0, NEW g \in S
      PROVE  More(n, g) \in S
  <2>1. TwoTo[n - 1] \in Nat
    BY <1>0, TwoToPositive
  <2>2. ASSUME NEW i \in Nat
        PROVE  (i % 2) * TwoTo[n - 1] + g[i \div 2] \in Nat
    <3>1. (i % 2) \in {0, 1} /\ i \div 2 \in Nat
      OBVIOUS
    <3>2. g[i \div 2] \in Nat
      BY <3>1
    <3>. QED
      BY <2>1, <3>1, <3>2
  <2>. QED
    BY <2>2
<1>. HIDE DEF More
<1>1. StepOf(S, h) /\ none \in S
  <2>1. ASSUME NEW n \in Nat, NEW g \in S
        PROVE  (IF n = 0 THEN g ELSE More(n, g)) \in S
    BY Zenon, <1>0
  <2>. HIDE DEF S
  <2>2. h \in [Nat -> [S -> S]]
    BY <2>1
  <2>3. none \in S
    BY DEF S
  <2>. QED
    BY <2>2, <2>3 DEF StepOf
<1>. HIDE DEF S
<1>2. PICK f : Recurs(S, none, h, f)
  <2>. HIDE DEF h, none
  <2>. QED
    BY Zenon, <1>1, RecursionExists
<1>3. ASSUME NEW n \in Nat, n # 0
      PROVE  f[n] = More(n, f[n - 1])
  <2>1. n - 1 \in Nat /\ f[n - 1] \in S /\ n \in Nat \ {0}
    BY <1>2, <1>3 DEF Recurs
  <2>2. h[n][f[n - 1]] = More(n, f[n - 1])
    BY <2>1
  <2>. QED
    BY <1>2, <2>1, <2>2 DEF Recurs
<1>4. f[0] = none /\ DOMAIN f = Nat
  BY <1>2 DEF Recurs
<1>. HIDE DEF h, none
<1>5. f = Step(f)
  <2>1. f \in [Nat -> S]
    BY <1>2 DEF Recurs
  <2>. QED
    BY <1>3, <1>4, <2>1
<1>6. Reversed = CHOOSE g : g = Step(g)
  BY Zenon DEF Reversed, More, none
<1>. HIDE DEF Step
<1>7. Reversed = Step(Reversed)
  BY Zenon, <1>5, <1>6
<1>8. Reversed[0] = none
  BY <1>7 DEF Step
<1>9. ASSUME NEW n \in Nat
      PROVE  Reversed[n + 1] = More(n + 1, Reversed[n])
  <2>1. n + 1 \in Nat /\ n + 1 # 0 /\ (n + 1) - 1 = n
    OBVIOUS
  <2>. QED
    BY <1>7, <2>1 DEF Step
<1>10. ASSUME NEW n \in Nat
       PROVE  More(n + 1, Reversed[n])
              = [i \in Nat |-> (i % 2) * TwoTo[n] + Reversed[n][i \div 2]]
  <2>1. (n + 1) - 1 = n
    OBVIOUS
  <2>. QED
    BY Zenon, <2>1 DEF More
<1>. QED
  BY Zenon, <1>8, <1>9, <1>10 DEF none

LEMMA ReversedMore ==
  ASSUME NEW n \in Nat, NEW i \in Nat
  PROVE  /\ i \div 2 \in Nat /\ i % 2 \in {0, 1} /\ i = 2 * (i \div 2) + (i % 2)
         /\ Reversed[n + 1][i] = (i % 2) * TwoTo[n] + Reversed[n][i \div 2]
<1>1. i \div 2 \in Nat /\ i % 2 \in {0, 1} /\ i = 2 * (i \div 2) + (i % 2)
  OBVIOUS
<1>2. Reversed[n + 1] =
         [k \in Nat |-> (k % 2) * TwoTo[n] + Reversed[n][k \div 2]]
  BY ReversedIs
<1>3. Reversed[n + 1][i] = (i % 2) * TwoTo[n] + Reversed[n][i \div 2]
  BY Zenon, <1>2
<1>. QED
  BY <1>1, <1>3

LEMMA ReversedBelow ==
  \A n \in Nat : \A i \in Nat : Reversed[n][i] \in 0..TwoTo[n] - 1
<1>. DEFINE Off == {n \in Nat : \E i \in Nat :
                       Reversed[n][i] \notin 0..TwoTo[n] - 1}
<1>1. ASSUME Off # {}
      PROVE  FALSE
  <2>0. Off \in SUBSET Nat
    BY Zenon
  <2>1. PICK n \in Off : \A l \in Off : n <= l
    BY Zenon, <1>1, <2>0, LeastNatural
  <2>2. PICK i \in Nat : Reversed[n][i] \notin 0..TwoTo[n] - 1
    BY <2>1
  <2>3. n # 0
    <3>1. Reversed[0][i] = 0
      BY <2>2, ReversedIs
    <3>2. Reversed[0][i] \in 0..TwoTo[0] - 1
      BY <3>1, TwoToIs
    <3>. QED
      BY Zenon, <2>2, <3>2
  <2>4. PICK k \in Nat : n = k + 1 /\ ~(n <= k)
    <3>1. n - 1 \in Nat /\ n = (n - 1) + 1 /\ ~(n <= n - 1)
      BY <2>1, <2>3
    <3>. QED
      BY <3>1
  <2>5. /\ i \div 2 \in Nat /\ i % 2 \in {0, 1}
        /\ Reversed[n][i] = (i % 2) * TwoTo[k] + Reversed[k][i \div 2]
    BY <2>4, ReversedMore
  <2>6. Reversed[k][i \div 2] \in 0..TwoTo[k] - 1
    BY <2>1, <2>4, <2>5
  <2>7. TwoTo[n] = 2 * TwoTo[k] /\ TwoTo[k] \in Nat \ {0}
    BY <2>4, TwoToIs, TwoToPositive
  <2>8. CASE i % 2 = 0
    BY <2>2, <2>5, <2>6, <2>7, <2>8
  <2>9. CASE i % 2 = 1
    BY <2>2, <2>5, <2>6, <2>7, <2>9
  <2>. QED
    BY <2>5, <2>8, <2>9
<1>. QED
  BY Zenon, <1>1

LEMMA ReversedZero ==
  \A n \in Nat : Reversed[n][0] = 0
<1>. DEFINE Off == {n \in Nat : Reversed[n][0] # 0}
<1>1. ASSUME Off # {}
      PROVE  FALSE
  <2>0. Off \in SUBSET Nat
    BY Zenon
  <2>1. PICK n \in Off : \A l \in Off : n <= l
    BY Zenon, <1>1, <2>0, LeastNatural
  <2>2. n # 0
    BY <2>1, ReversedIs
  <2>3. PICK k \in Nat : n = k + 1 /\ ~(n <= k)
    <3>1. n - 1 \in Nat /\ n = (n - 1) + 1 /\ ~(n <= n - 1)
      BY <2>1, <2>2
    <3>. QED
      BY <3>1
  <2>4. Reversed[n][0] = (0 % 2) * TwoTo[k] + Reversed[k][0 \div 2]
    BY <2>3, ReversedMore
  <2>5. 0 % 2 = 0 /\ 0 \div 2 = 0
    OBVIOUS
  <2>6. Reversed[k][0] = 0 /\ TwoTo[k] \in Nat
    BY <2>1, <2>3, TwoToPositive
  <2>. QED
    BY <2>1, <2>4, <2>5, <2>6
<1>. QED
  BY Zenon, <1>1

\* No two numbers of n bits have the same reversal.
LEMMA ReversedApart ==
  \A n \in Nat : \A i, j \in 0..TwoTo[n] - 1 :
     Reversed[n][i] = Reversed[n][j] => i = j
<1>. DEFINE Off == {n \in Nat : \E i, j \in 0..TwoTo[n] - 1 :
                       Reversed[n][i] = Reversed[n][j] /\ i # j}
<1>1. ASSUME Off # {}
      PROVE  FALSE
  <2>0. Off \in SUBSET Nat
    BY Zenon
  <2>1. PICK n \in Off : \A l \in Off : n <= l
    BY Zenon, <1>1, <2>0, LeastNatural
  <2>2. PICK i \in 0..TwoTo[n] - 1, j \in 0..TwoTo[n] - 1 :
           Reversed[n][i] = Reversed[n][j] /\ i # j
    BY <2>1
  <2>3. n # 0
    BY <2>2, TwoToIs
  <2>4. PICK k \in Nat : n = k + 1 /\ ~(n <= k)
    <3>1. n - 1 \in Nat /\ n = (n - 1) + 1 /\ ~(n <= n - 1)
      BY <2>1, <2>3
    <3>. QED
      BY <3>1
  <2>5. TwoTo[n] = 2 * TwoTo[k] /\ TwoTo[k] \in Nat \ {0}
    BY <2>4, TwoToIs, TwoToPositive
  <2>6. i \in Nat /\ j \in Nat
    BY <2>2, <2>5
  <2>7. /\ i \div 2 \in Nat /\ i % 2 \in {0, 1} /\ i = 2 * (i \div 2) + (i % 2)
        /\ Reversed[n][i] = (i % 2) * TwoTo[k] + Reversed[k][i \div 2]
    BY <2>4, <2>6, ReversedMore
  <2>8. /\ j \div 2 \in Nat /\ j % 2 \in {0, 1} /\ j = 2 * (j \div 2) + (j % 2)
        /\ Reversed[n][j] = (j % 2) * TwoTo[k] + Reversed[k][j \div 2]
    BY <2>4, <2>6, ReversedMore
  <2>9. /\ Reversed[k][i \div 2] \in 0..TwoTo[k] - 1
        /\ Reversed[k][j \div 2] \in 0..TwoTo[k] - 1
    BY <2>7, <2>8, ReversedBelow
  <2>10. i % 2 = j % 2 /\ Reversed[k][i \div 2] = Reversed[k][j \div 2]
    <3>. DEFINE x == i % 2
                y == j % 2
                a == Reversed[k][i \div 2]
                b == Reversed[k][j \div 2]
                t == TwoTo[k]
    <3>1. /\ x \in {0, 1} /\ y \in {0, 1} /\ t \in Nat \ {0}
          /\ a \in 0..t - 1 /\ b \in 0..t - 1 /\ x * t + a = y * t + b
      BY <2>2, <2>5, <2>7, <2>8, <2>9
    <3>. HIDE DEF x, y, a, b, t
    <3>2. x = y /\ a = b
      BY <3>1
    <3>. QED
      BY <3>2 DEF x, y, a, b
  <2>11. i \div 2 # j \div 2
    BY <2>2, <2>7, <2>8, <2>10
  <2>12. i \div 2 \in 0..TwoTo[k] - 1 /\ j \div 2 \in 0..TwoTo[k] - 1
    <3>. DEFINE a == i \div 2
                b == j \div 2
                t == TwoTo[k]
    <3>1. a \in Nat /\ b \in Nat /\ t \in Nat /\ 2 * a < 2 * t /\ 2 * b < 2 * t
      BY <2>2, <2>5, <2>7, <2>8
    <3>. HIDE DEF a, b, t
    <3>2. a \in 0..t - 1 /\ b \in 0..t - 1
      BY <3>1
    <3>. QED
      BY <3>2 DEF a, b, t
  <2>13. k \in Off
    BY Zenon, <2>4, <2>10, <2>11, <2>12
  <2>. QED
    BY <2>1, <2>4, <2>13
<1>. QED
  BY Zenon, <1>1

\* The place of the i-th word of n, before it is scaled.
Turned(n, i) == Reversed[NBits(n)][i]

LEMMA TurnedIn ==
  ASSUME NEW n \in Nat \ {0}, NEW i \in Nat
  PROVE  Turned(n, i) \in 0..n - 1
<1>1. NBits(n) \in Nat /\ TwoTo[NBits(n)] <= n
  BY NBitsIs
<1>2. Turned(n, i) \in 0..TwoTo[NBits(n)] - 1 /\ TwoTo[NBits(n)] \in Nat
  BY <1>1, ReversedBelow, TwoToPositive DEF Turned
<1>. QED
  BY <1>1, <1>2

LEMMA TurnedZero ==
  ASSUME NEW n \in Nat \ {0}
  PROVE  Turned(n, 0) = 0
BY NBitsIs, ReversedZero DEF Turned

LEMMA TurnedApart ==
  ASSUME NEW n \in Nat, PowerOfTwo(n), NEW i \in 0..n - 1, NEW j \in 0..n - 1,
         Turned(n, i) = Turned(n, j)
  PROVE  i = j
<1>1. NBits(n) \in Nat /\ TwoTo[NBits(n)] = n
  BY NBitsOfPower
<1>2. i \in 0..TwoTo[NBits(n)] - 1 /\ j \in 0..TwoTo[NBits(n)] - 1
  BY <1>1
<1>. QED
  BY <1>1, <1>2, ReversedApart DEF Turned

-----------------------------------------------------------------------------
(* Walks, and chains that are circles.                                     *)

LEMMA PathIs ==
  ASSUME NEW m, NEW a, NEW n \in Nat
  PROVE  /\ DOMAIN Path(m, a, n) = 0..n
         /\ Path(m, a, n)[0] = a
         /\ \A k \in 1..n : Path(m, a, n)[k] = Follow(m, Path(m, a, n)[k - 1])
<1>. DEFINE S == {a, Nil} \cup {m[x] : x \in DOMAIN m}
            h == [k \in Nat |-> [x \in S |-> Follow(m, x)]]
            Step(f) == [k \in 0..n |-> IF k = 0 THEN a ELSE Follow(m, f[k - 1])]
<1>1. \A x \in S : Follow(m, x) \in S
  BY DEF Follow
<1>2. h \in [Nat -> [S -> S]] /\ a \in S
  BY <1>1
<1>. HIDE DEF S
<1>3. PICK f : Unfolds(S, a, h, n, f)
  <2>. HIDE DEF h
  <2>. QED
    BY Zenon, <1>2, UnfoldsAll
<1>4. f \in [0..n -> S] /\ f[0] = a
  BY Zenon, <1>3 DEF Unfolds
<1>5. ASSUME NEW k \in 1..n
      PROVE  f[k] = Follow(m, f[k - 1])
  <2>1. f[k] = h[k][f[k - 1]]
    BY Zenon, <1>3 DEF Unfolds
  <2>2. k - 1 \in 0..n /\ k \in Nat
    OBVIOUS
  <2>3. f[k - 1] \in S
    BY <1>4, <2>2
  <2>. QED
    BY Zenon, <2>1, <2>2, <2>3
<1>. HIDE DEF h
<1>6. f = Step(f)
  <2>1. ASSUME NEW k \in 0..n
        PROVE  f[k] = (IF k = 0 THEN a ELSE Follow(m, f[k - 1]))
    BY <1>4, <1>5
  <2>. QED
    BY <1>4, <2>1
<1>7. Path(m, a, n) = CHOOSE g : g = Step(g)
  BY Zenon DEF Path
<1>8. Path(m, a, n) = Step(Path(m, a, n))
  BY Zenon, <1>6, <1>7
<1>. DEFINE q == Path(m, a, n)
<1>9. q = Step(q)
  BY Zenon, <1>8
<1>. HIDE DEF q
<1>10. DOMAIN q = 0..n /\ q[0] = a
  BY <1>9
<1>11. ASSUME NEW k \in 1..n
       PROVE  q[k] = Follow(m, q[k - 1])
  <2>1. k \in 0..n /\ k # 0
    OBVIOUS
  <2>. QED
    BY <1>9, <2>1
<1>. QED
  BY <1>10, <1>11 DEF q

\* A set that is never left.
Closed(m, S) == \A x \in S : x \in DOMAIN m /\ m[x] \in S

LEMMA PathWithin ==
  ASSUME NEW m, NEW S, Closed(m, S), NEW a \in S, NEW n \in Nat
  PROVE  \A k \in 0..n : Path(m, a, n)[k] \in S
<1>. DEFINE q == Path(m, a, n)
            Off == {k \in 0..n : q[k] \notin S}
<1>0. /\ q[0] = a
      /\ \A k \in 1..n : q[k] = Follow(m, q[k - 1])
  BY PathIs
<1>. HIDE DEF q
<1>1. ASSUME Off # {}
      PROVE  FALSE
  <2>0. Off \in SUBSET Nat
    OBVIOUS
  <2>1. PICK k \in Off : \A l \in Off : k <= l
    BY Zenon, <1>1, <2>0, LeastNatural
  <2>2. k \in 0..n /\ k # 0 /\ k - 1 \in 0..n /\ ~(k <= k - 1) /\ k \in 1..n
    BY <1>0, <2>1
  <2>3. q[k - 1] \in S
    BY <2>1, <2>2
  <2>4. q[k] = Follow(m, q[k - 1])
    BY <1>0, <2>2
  <2>. QED
    BY <2>1, <2>3, <2>4 DEF Closed, Follow
<1>. QED
  BY <1>1 DEF q

LEMMA WalkWithin ==
  ASSUME NEW m, NEW S, Closed(m, S), NEW a \in S, NEW n \in Nat
  PROVE  Walk(m, a, n) \in S
<1>1. n \in 0..n
  OBVIOUS
<1>. QED
  BY <1>1, PathWithin DEF Walk

\* The n words of S in a circle that begins at first.
Rounds(m, first, n, S, e) ==
    /\ e \in [0..n - 1 -> S] /\ e[0] = first
    /\ \A x \in S : \E c \in 0..n - 1 : e[c] = x
    /\ \A c, d \in 0..n - 1 : e[c] = e[d] => c = d
    /\ \A c \in 0..n - 1 : e[c] \in DOMAIN m
    /\ \A c \in 0..n - 2 : m[e[c]] = e[c + 1]
    /\ m[e[n - 1]] = first

Circle(m, first, n, S) ==
    n \in Nat \ {0} /\ \E e : Rounds(m, first, n, S, e)

LEMMA CircleClosed ==
  ASSUME NEW m, NEW first, NEW n, NEW S, Circle(m, first, n, S)
  PROVE  Closed(m, S) /\ first \in S
<1>1. n \in Nat \ {0} /\ 0 \in 0..n - 1
  BY DEF Circle
<1>2. PICK e : Rounds(m, first, n, S, e)
  BY Zenon DEF Circle
<1>3. first \in S
  BY <1>1, <1>2 DEF Rounds
<1>4. ASSUME NEW x \in S
      PROVE  x \in DOMAIN m /\ m[x] \in S
  <2>1. PICK c \in 0..n - 1 : e[c] = x
    BY <1>2 DEF Rounds
  <2>2. CASE c = n - 1
    BY <1>2, <1>3, <2>1, <2>2 DEF Rounds
  <2>3. CASE c # n - 1
    <3>1. c \in 0..n - 2 /\ c + 1 \in 0..n - 1
      BY <1>1, <2>3
    <3>. QED
      BY <1>2, <2>1, <3>1 DEF Rounds
  <2>. QED
    BY <2>2, <2>3
<1>. QED
  BY <1>3, <1>4 DEF Closed

LEMMA CirclePath ==
  ASSUME NEW m, NEW first, NEW n, NEW S, Circle(m, first, n, S)
  PROVE  /\ Path(m, first, n)[n] = first
         /\ Range(Path(m, first, n)) = S
         /\ Cardinality(S) = n
<1>1. n \in Nat \ {0} /\ 0 \in 0..n - 1 /\ n - 1 \in 0..n - 1
  BY DEF Circle
<1>2. PICK e : Rounds(m, first, n, S, e)
  BY Zenon DEF Circle
<1>. DEFINE q == Path(m, first, n)
            Off == {k \in 0..n - 1 : q[k] # e[k]}
<1>3. /\ DOMAIN q = 0..n /\ q[0] = first
      /\ \A k \in 1..n : q[k] = Follow(m, q[k - 1])
  BY <1>1, PathIs
<1>. HIDE DEF q
<1>4. ASSUME Off # {}
      PROVE  FALSE
  <2>0. Off \in SUBSET Nat
    OBVIOUS
  <2>1. PICK k \in Off : \A l \in Off : k <= l
    BY Zenon, <1>4, <2>0, LeastNatural
  <2>2. k # 0
    BY <1>2, <1>3, <2>1 DEF Rounds
  <2>3. /\ k - 1 \in 0..n - 1 /\ k - 1 \in 0..n - 2 /\ k \in 1..n
        /\ ~(k <= k - 1) /\ (k - 1) + 1 = k
    BY <1>1, <2>1, <2>2
  <2>4. q[k - 1] = e[k - 1]
    BY <2>1, <2>3
  <2>5. q[k] = m[e[k - 1]]
    BY <1>2, <1>3, <2>3, <2>4 DEF Follow, Rounds
  <2>6. m[e[k - 1]] = e[k]
    BY <1>2, <2>3 DEF Rounds
  <2>. QED
    BY <2>1, <2>5, <2>6
<1>5. \A k \in 0..n - 1 : q[k] = e[k]
  BY <1>4
<1>6. q[n] = first
  <2>1. n \in 1..n
    BY <1>1
  <2>2. q[n] = Follow(m, e[n - 1])
    BY <1>1, <1>3, <1>5, <2>1
  <2>. QED
    BY <1>1, <1>2, <2>2 DEF Follow, Rounds
<1>7. \A k \in 0..n : k \in 0..n - 1 \/ k = n
  BY <1>1
<1>8. Range(q) = S
  <2>1. ASSUME NEW k \in 0..n
        PROVE  q[k] \in S
    <3>1. first \in S
      BY <1>1, <1>2 DEF Rounds
    <3>. QED
      BY <1>2, <1>5, <1>6, <1>7, <3>1 DEF Rounds
  <2>2. ASSUME NEW x \in S
        PROVE  \E k \in 0..n : q[k] = x
    <3>1. PICK c \in 0..n - 1 : e[c] = x
      BY <1>2 DEF Rounds
    <3>2. c \in 0..n
      BY <1>1
    <3>. QED
      BY <1>5, <3>1, <3>2
  <2>. QED
    BY <1>3, <2>1, <2>2 DEF Range
<1>9. Cardinality(S) = n
  <2>. DEFINE f == [k \in 1..n |-> e[k - 1]]
  <2>1. f \in [1..n -> S]
    BY <1>1, <1>2 DEF Rounds
  <2>2. ASSUME NEW x \in S
        PROVE  \E k \in 1..n : f[k] = x
    <3>1. PICK c \in 0..n - 1 : e[c] = x
      BY <1>2 DEF Rounds
    <3>2. c + 1 \in 1..n /\ (c + 1) - 1 = c
      BY <1>1
    <3>. QED
      BY <3>1, <3>2
  <2>3. ASSUME NEW k \in 1..n, NEW l \in 1..n, f[k] = f[l]
        PROVE  k = l
    <3>1. k - 1 \in 0..n - 1 /\ l - 1 \in 0..n - 1
      BY <1>1
    <3>2. k - 1 = l - 1
      BY <1>2, <2>3, <3>1 DEF Rounds
    <3>. QED
      BY <3>2
  <2>. HIDE DEF f
  <2>4. f \in Bijection(1..n, S)
    BY <2>1, <2>2, <2>3 DEF Bijection, Injection, Surjection, IsInjective
  <2>5. ExistsBijection(1..n, S)
    BY <2>4 DEF ExistsBijection
  <2>. QED
    BY <1>1, <2>5, FS_CountingElements
<1>. QED
  BY <1>6, <1>8, <1>9 DEF q

\* The steps C of a stair: cell x of section g has the number C[g] + x.
Stairs(Q, C) ==
    /\ Q \in Nat \ {0} /\ C \in [0..Q -> Nat] /\ C[0] = 0
    /\ \A g \in 0..Q - 1 : C[g] < C[g + 1]

Cells(C, g) == 0..C[g + 1] - (C[g] + 1)

LEMMA StairsClimb ==
  ASSUME NEW Q, NEW C, Stairs(Q, C)
  PROVE  \A g, h \in 0..Q : g < h => C[g] < C[h]
<1>1. /\ Q \in Nat \ {0} /\ C \in [0..Q -> Nat]
      /\ \A g \in 0..Q - 1 : C[g] < C[g + 1]
  BY DEF Stairs
<1>. SUFFICES ASSUME NEW g \in 0..Q
              PROVE  \A h \in 0..Q : g < h => C[g] < C[h]
  OBVIOUS
<1>. DEFINE Off == {h \in 0..Q : g < h /\ ~(C[g] < C[h])}
<1>2. ASSUME Off # {}
      PROVE  FALSE
  <2>0. Off \in SUBSET Nat
    BY <1>1
  <2>1. PICK h \in Off : \A l \in Off : h <= l
    BY Zenon, <1>2, <2>0, LeastNatural
  <2>2. PICK k \in 0..Q - 1 : h = k + 1 /\ k \in 0..Q /\ ~(h <= k)
    <3>1. h - 1 \in 0..Q - 1 /\ h = (h - 1) + 1 /\ h - 1 \in 0..Q
          /\ ~(h <= h - 1)
      BY <1>1, <2>1
    <3>. QED
      BY <3>1
  <2>3. C[k] < C[h] /\ C[k] \in Nat /\ C[h] \in Nat /\ C[g] \in Nat
    BY <1>1, <2>1, <2>2
  <2>4. CASE k = g
    BY <2>1, <2>3, <2>4
  <2>5. CASE k # g
    <3>1. g < k
      BY <2>1, <2>2, <2>5
    <3>2. C[g] < C[k]
      BY <2>1, <2>2, <3>1
    <3>. QED
      BY <2>1, <2>3, <3>2
  <2>. QED
    BY <2>4, <2>5
<1>. QED
  BY <1>2

LEMMA StairsLevel ==
  ASSUME NEW Q, NEW C, Stairs(Q, C), NEW r \in 0..C[Q] - 1
  PROVE  \E g \in 0..Q - 1 : C[g] <= r /\ r < C[g + 1]
<1>1. Q \in Nat \ {0} /\ C \in [0..Q -> Nat] /\ C[0] = 0 /\ C[Q] \in Nat
  BY DEF Stairs
<1>. DEFINE Above == {h \in 0..Q : r < C[h]}
<1>2. Above \in SUBSET Nat /\ Q \in Above
  BY <1>1
<1>3. PICK h \in Above : \A l \in Above : h <= l
  BY <1>2, LeastNatural
<1>4. h # 0
  BY <1>1, <1>3
<1>5. h - 1 \in 0..Q - 1 /\ (h - 1) + 1 = h /\ h - 1 \in 0..Q /\ ~(h <= h - 1)
  BY <1>1, <1>3, <1>4
<1>6. C[h - 1] <= r
  BY <1>1, <1>3, <1>5
<1>. QED
  BY <1>3, <1>5, <1>6

LEMMA StairsOnce ==
  ASSUME NEW Q, NEW C, Stairs(Q, C), NEW g \in 0..Q - 1, NEW h \in 0..Q - 1,
         NEW r \in Int, C[g] <= r, r < C[g + 1], C[h] <= r, r < C[h + 1]
  PROVE  g = h
<1>1. Q \in Nat \ {0} /\ C \in [0..Q -> Nat]
  BY DEF Stairs
<1>2. /\ g \in 0..Q /\ h \in 0..Q /\ g + 1 \in 0..Q /\ h + 1 \in 0..Q
      /\ g \in Int /\ h \in Int
  BY <1>1
<1>3. C[g] \in Nat /\ C[h] \in Nat /\ C[g + 1] \in Nat /\ C[h + 1] \in Nat
  BY <1>1, <1>2
<1>4. ~(g < h)
  <2>1. g + 1 = h \/ g + 1 < h => C[g + 1] <= C[h]
    BY <1>2, <1>3, StairsClimb
  <2>. QED
    BY <1>2, <1>3, <2>1
<1>5. ~(h < g)
  <2>1. h + 1 = g \/ h + 1 < g => C[h + 1] <= C[g]
    BY <1>2, <1>3, StairsClimb
  <2>. QED
    BY <1>2, <1>3, <2>1
<1>. QED
  BY <1>2, <1>4, <1>5

LEMMA StairsCells ==
  ASSUME NEW Q, NEW C, Stairs(Q, C)
  PROVE  /\ C[Q] \in Nat \ {0}
         /\ \A g \in 0..Q - 1 : \A x \in Cells(C, g) :
               C[g] + x \in 0..C[Q] - 1
         /\ \A r \in 0..C[Q] - 1 :
               \E g \in 0..Q - 1 : \E x \in Cells(C, g) : r = C[g] + x
         /\ \A g \in 0..Q - 1 : \A x \in Cells(C, g) :
               /\ C[g] <= C[g] + x /\ C[g] + x < C[g + 1]
               /\ C[g] \in Nat /\ x \in Nat
<1>1. /\ Q \in Nat \ {0} /\ C \in [0..Q -> Nat] /\ C[0] = 0
      /\ \A g \in 0..Q - 1 : C[g] < C[g + 1]
  BY DEF Stairs
<1>2. C[Q] \in Nat \ {0}
  <2>1. 0 \in 0..Q /\ Q \in 0..Q /\ 0 < Q
    BY <1>1
  <2>2. \A g, h \in 0..Q : g < h => C[g] < C[h]
    BY StairsClimb
  <2>3. C[0] < C[Q]
    BY Zenon, <2>1, <2>2
  <2>. QED
    BY <1>1, <2>1, <2>3
<1>3. ASSUME NEW g \in 0..Q - 1, NEW x \in Cells(C, g)
      PROVE  /\ C[g] + x \in 0..C[Q] - 1
             /\ C[g] <= C[g] + x /\ C[g] + x < C[g + 1]
             /\ C[g] \in Nat /\ x \in Nat
  <2>1. g \in 0..Q /\ g + 1 \in 0..Q /\ Q \in 0..Q /\ g \in Int /\ Q \in Int
        /\ (g + 1 = Q \/ g + 1 < Q)
    BY <1>1
  <2>2. C[g] \in Nat /\ C[g + 1] \in Nat
    BY <1>1, <2>1
  <2>3. x \in Nat /\ x < C[g + 1] - C[g]
    BY <2>2 DEF Cells
  <2>4. C[g + 1] <= C[Q]
    BY <1>2, <2>1, <2>2, StairsClimb
  <2>. QED
    BY <1>2, <2>2, <2>3, <2>4
<1>4. ASSUME NEW r \in 0..C[Q] - 1
      PROVE  \E g \in 0..Q - 1 : \E x \in Cells(C, g) : r = C[g] + x
  <2>1. PICK g \in 0..Q - 1 : C[g] <= r /\ r < C[g + 1]
    BY StairsLevel
  <2>2. g \in 0..Q /\ g + 1 \in 0..Q
    BY <1>1
  <2>3. C[g] \in Nat /\ C[g + 1] \in Nat /\ r \in Nat
    BY <1>1, <1>2, <2>2
  <2>4. r - C[g] \in Cells(C, g) /\ r = C[g] + (r - C[g])
    BY <2>1, <2>3 DEF Cells
  <2>. QED
    BY <2>4
<1>. QED
  BY <1>2, <1>3, <1>4

\* What the cells hold can be listed in the order of their numbers.
Lists(Q, C, v, q) == /\ DOMAIN q = 0..C[Q] - 1
                     /\ \A g \in 0..Q - 1 : \A x \in Cells(C, g) :
                           q[C[g] + x] = v[g][x]

LEMMA StairsListed ==
  ASSUME NEW Q, NEW C, Stairs(Q, C), NEW v
  PROVE  \E q : Lists(Q, C, v, q)
<1>. DEFINE Level(r) == CHOOSE g \in 0..Q - 1 : C[g] <= r /\ r < C[g + 1]
            q == [r \in 0..C[Q] - 1 |-> v[Level(r)][r - C[Level(r)]]]
<1>5. ASSUME NEW g \in 0..Q - 1, NEW x \in Cells(C, g)
      PROVE  q[C[g] + x] = v[g][x]
  <2>. DEFINE r == C[g] + x
  <2>1. /\ r \in 0..C[Q] - 1 /\ C[g] <= r /\ r < C[g + 1]
        /\ r \in Int /\ r - C[g] = x
    <3>1. /\ r \in 0..C[Q] - 1 /\ C[g] <= r /\ r < C[g + 1]
          /\ C[g] \in Nat /\ x \in Nat
      BY StairsCells
    <3>2. r = C[g] + x
      OBVIOUS
    <3>. HIDE DEF r
    <3>. QED
      BY <3>1, <3>2
  <2>. HIDE DEF r
  <2>2. Level(r) \in 0..Q - 1 /\ C[Level(r)] <= r /\ r < C[Level(r) + 1]
    BY <2>1
  <2>. HIDE DEF Level
  <2>3. Level(r) = g
    BY <2>1, <2>2, StairsOnce
  <2>4. q[r] = v[g][r - C[g]]
    BY <2>1, <2>3
  <2>. QED
    BY Zenon, <2>1, <2>4 DEF r
<1>6. DOMAIN q = 0..C[Q] - 1
  OBVIOUS
<1>. HIDE DEF q
<1>7. Lists(Q, C, v, q)
  BY Zenon, <1>5, <1>6 DEF Lists
<1>. QED
  BY Zenon, <1>7

LEMMA Lots ==
  ASSUME NEW T \in Nat \ {0}, NEW W \in Nat \ {0}
  PROVE  /\ Stairs(W, [k \in 0..W |-> k * T])
         /\ W * T \in Nat \ {0}
         /\ \A k \in 0..W - 1 : (k + 1) * T = k * T + T /\ k * T \in Nat
         /\ 0 * T = 0
<1>1. ASSUME NEW k \in Nat
      PROVE  k * T \in Nat
  OBVIOUS
<1>2. ASSUME NEW k \in Nat
      PROVE  (k + 1) * T = k * T + T
  OBVIOUS
<1>3. 0 * T = 0
  OBVIOUS
<1>4. W * T \in Nat \ {0}
  <2>1. PICK V \in Nat : W = V + 1
    <3>1. W - 1 \in Nat /\ W = (W - 1) + 1
      OBVIOUS
    <3>. QED
      BY <3>1
  <2>2. W * T = V * T + T /\ V * T \in Nat
    BY <1>1, <1>2, <2>1
  <2>. QED
    BY <2>2
<1>5. \A k \in 0..W : k * T \in Nat
  BY <1>1
<1>6. \A k \in 0..W - 1 : k * T < (k + 1) * T /\ k \in 0..W /\ k + 1 \in 0..W
  <2>. TAKE k \in 0..W - 1
  <2>1. k \in Nat /\ k \in 0..W /\ k + 1 \in 0..W
    OBVIOUS
  <2>2. (k + 1) * T = k * T + T /\ k * T \in Nat
    BY <1>1, <1>2, <2>1
  <2>. QED
    BY <2>1, <2>2
<1>. DEFINE D == [k \in 0..W |-> k * T]
<1>7. D \in [0..W -> Nat]
  BY <1>5
<1>8. D[0] = 0
  <2>1. 0 \in 0..W
    OBVIOUS
  <2>. QED
    BY <1>3, <2>1
<1>9. \A k \in 0..W - 1 : D[k] < D[k + 1]
  BY <1>6
<1>. HIDE DEF D
<1>10. Stairs(W, D)
  BY <1>7, <1>8, <1>9 DEF Stairs
<1>. QED
  BY <1>1, <1>2, <1>3, <1>4, <1>10 DEF D

\* Rounds over the cells, each with contents of its own; round k begins with
\* number D[k].
Lapped(W, D, T) == Stairs(W, D) /\ \A k \in 0..W - 1 : D[k + 1] = D[k] + T

LEMMA RoundsCells ==
  ASSUME NEW Q, NEW C, Stairs(Q, C), NEW W, NEW D, Lapped(W, D, C[Q])
  PROVE  /\ C[Q] \in Nat \ {0} /\ D[W] \in Nat \ {0}
         /\ \A g \in 0..Q - 1 : \A x \in Cells(C, g) : C[g] + x \in 0..C[Q] - 1
         /\ \A k \in 0..W - 1 : \A r \in 0..C[Q] - 1 : D[k] + r \in 0..D[W] - 1
         /\ \A c \in 0..D[W] - 1 :
               \E k \in 0..W - 1 : \E g \in 0..Q - 1 : \E x \in Cells(C, g) :
                  c = D[k] + (C[g] + x)
<1>. DEFINE T == C[Q]
<1>1. /\ T \in Nat \ {0}
      /\ \A g \in 0..Q - 1 : \A x \in Cells(C, g) : C[g] + x \in 0..T - 1
      /\ \A r \in 0..T - 1 :
            \E g \in 0..Q - 1 : \E x \in Cells(C, g) : r = C[g] + x
  BY StairsCells
<1>3. /\ Stairs(W, D) /\ W \in Nat \ {0} /\ D \in [0..W -> Nat]
      /\ \A k \in 0..W - 1 : D[k + 1] = D[k] + T
  BY DEF Lapped, Stairs
<1>. HIDE DEF T
<1>4. \A k \in 0..W - 1 : D[k] \in Nat
  BY <1>3
<1>5. \A k \in 0..W - 1 : Cells(D, k) = 0..T - 1
  BY <1>1, <1>3, <1>4 DEF Cells
<1>6. /\ D[W] \in Nat \ {0}
      /\ \A k \in 0..W - 1 : \A r \in 0..T - 1 : D[k] + r \in 0..D[W] - 1
      /\ \A c \in 0..D[W] - 1 :
            \E k \in 0..W - 1 : \E r \in 0..T - 1 : c = D[k] + r
  <2>1. /\ D[W] \in Nat \ {0}
        /\ \A k \in 0..W - 1 : \A r \in Cells(D, k) :
              D[k] + r \in 0..D[W] - 1
        /\ \A c \in 0..D[W] - 1 :
              \E k \in 0..W - 1 : \E r \in Cells(D, k) : c = D[k] + r
    <3>1. Stairs(W, D)
      BY <1>3
    <3>2. D[W] \in Nat \ {0}
      BY Zenon, <3>1, StairsCells
    <3>3. \A k \in 0..W - 1 : \A r \in Cells(D, k) :
             D[k] + r \in 0..D[W] - 1
      BY Zenon, <3>1, StairsCells
    <3>4. \A c \in 0..D[W] - 1 :
             \E k \in 0..W - 1 : \E r \in Cells(D, k) : c = D[k] + r
      BY SMTT(30), <3>1, StairsCells
    <3>. QED
      BY Zenon, <3>2, <3>3, <3>4
  <2>2. ASSUME NEW c \in 0..D[W] - 1
        PROVE  \E k \in 0..W - 1 : \E r \in 0..T - 1 : c = D[k] + r
    <3>1. PICK k \in 0..W - 1 : \E r \in Cells(D, k) : c = D[k] + r
      BY Zenon, <2>1
    <3>2. Cells(D, k) = 0..T - 1
      BY Zenon, <1>5
    <3>3. \E r \in 0..T - 1 : c = D[k] + r
      BY <3>1, <3>2
    <3>. QED
      BY Zenon, <3>3
  <2>. QED
    BY Zenon, <1>5, <2>1, <2>2
<1>8. ASSUME NEW c \in 0..D[W] - 1
      PROVE  \E k \in 0..W - 1 : \E g \in 0..Q - 1 : \E x \in Cells(C, g) :
                c = D[k] + (C[g] + x)
  <2>1. PICK k \in 0..W - 1, r \in 0..T - 1 : c = D[k] + r
    BY Zenon, <1>6
  <2>2. PICK g \in 0..Q - 1 : \E x \in Cells(C, g) : r = C[g] + x
    BY Zenon, <1>1
  <2>. QED
    BY Zenon, <2>1, <2>2
<1>. QED
  BY Zenon, <1>1, <1>6, <1>8 DEF T

ListsRounds(Q, C, W, D, u, e) ==
    /\ DOMAIN e = 0..D[W] - 1
    /\ \A k \in 0..W - 1 : \A g \in 0..Q - 1 : \A x \in Cells(C, g) :
          e[D[k] + (C[g] + x)] = u[k][g][x]

LEMMA RoundsListed ==
  ASSUME NEW Q, NEW C, Stairs(Q, C), NEW W, NEW D, Lapped(W, D, C[Q]), NEW u
  PROVE  \E e : ListsRounds(Q, C, W, D, u, e)
<1>. DEFINE T == C[Q]
            qs == [k \in 0..W - 1 |-> CHOOSE q : Lists(Q, C, u[k], q)]
<1>1. /\ T \in Nat \ {0}
      /\ \A g \in 0..Q - 1 : \A x \in Cells(C, g) : C[g] + x \in 0..T - 1
  BY StairsCells
<1>2. ASSUME NEW k \in 0..W - 1
      PROVE  Lists(Q, C, u[k], qs[k])
  <2>1. \E q : Lists(Q, C, u[k], q)
    BY Zenon, StairsListed
  <2>2. qs[k] = CHOOSE q : Lists(Q, C, u[k], q)
    OBVIOUS
  <2>. QED
    BY Zenon, <2>1, <2>2
<1>3. /\ Stairs(W, D) /\ W \in Nat \ {0} /\ D \in [0..W -> Nat]
      /\ \A k \in 0..W - 1 : D[k + 1] = D[k] + T
  BY DEF Lapped, Stairs
<1>. HIDE DEF T, qs
<1>4. \A k \in 0..W - 1 : D[k] \in Nat
  BY <1>3
<1>5. \A k \in 0..W - 1 : Cells(D, k) = 0..T - 1
  BY <1>1, <1>3, <1>4 DEF Cells
<1>6. PICK e : Lists(W, D, qs, e)
  BY Zenon, <1>3, StairsListed
<1>7. DOMAIN e = 0..D[W] - 1
  BY Zenon, <1>6 DEF Lists
<1>8. ASSUME NEW k \in 0..W - 1, NEW g \in 0..Q - 1, NEW x \in Cells(C, g)
      PROVE  e[D[k] + (C[g] + x)] = u[k][g][x]
  <2>1. C[g] + x \in 0..T - 1
    BY Zenon, <1>1
  <2>2. C[g] + x \in Cells(D, k)
    BY Zenon, <1>5, <2>1
  <2>3. e[D[k] + (C[g] + x)] = qs[k][C[g] + x]
    BY Zenon, <1>6, <2>2 DEF Lists
  <2>4. qs[k][C[g] + x] = u[k][g][x]
    BY Zenon, <1>2 DEF Lists
  <2>. QED
    BY Zenon, <2>3, <2>4
<1>9. ListsRounds(Q, C, W, D, u, e)
  BY Zenon, <1>7, <1>8 DEF ListsRounds
<1>. QED
  BY Zenon, <1>9

-----------------------------------------------------------------------------

Goes(m, a, b) == a \in DOMAIN m /\ m[a] = b

\* In round k, u[k][g][x] is the address of cell x of section g: each has
\* one of its own, and points to the next one.
LastCell(C, g) == C[g + 1] - (C[g] + 1)
CellsApart(W, Q, C, u) ==
    \A k, l \in 0..W - 1 : \A g, h \in 0..Q - 1 :
       \A x \in Cells(C, g) : \A y \in Cells(C, h) :
          u[k][g][x] = u[l][h][y] => k = l /\ g = h /\ x = y
Within(m, W, Q, C, u) ==
    \A k \in 0..W - 1 : \A g \in 0..Q - 1 : \A x \in Cells(C, g) :
       x # LastCell(C, g) => Goes(m, u[k][g][x], u[k][g][x + 1])
Across(m, W, Q, C, u) ==
    \A k \in 0..W - 1 : \A g \in 0..Q - 2 :
       Goes(m, u[k][g][LastCell(C, g)], u[k][g + 1][0])
Around(m, W, Q, C, u) ==
    \A k \in 0..W - 1 :
       Goes(m, u[k][Q - 1][LastCell(C, Q - 1)],
            u[IF k = W - 1 THEN 0 ELSE k + 1][0][0])
Fills(W, Q, C, u, S) ==
    /\ \A k \in 0..W - 1 : \A g \in 0..Q - 1 : \A x \in Cells(C, g) :
          u[k][g][x] \in S
    /\ \A a \in S : \E k \in 0..W - 1 : \E g \in 0..Q - 1 :
          \E x \in Cells(C, g) : a = u[k][g][x]

LEMMA CellsOf ==
  ASSUME NEW Q, NEW C, Stairs(Q, C), NEW g \in 0..Q - 1
  PROVE  /\ 0 \in Cells(C, g) /\ LastCell(C, g) \in Cells(C, g)
         /\ \A x \in Cells(C, g) :
               /\ x \in Nat
               /\ x # LastCell(C, g) =>
                     x + 1 \in Cells(C, g) /\ C[g] + (x + 1) = C[g] + x + 1
         /\ C[g] \in Nat /\ C[g + 1] = C[g] + LastCell(C, g) + 1
         /\ C[g + 1] \in Nat
<1>1. /\ Q \in Nat \ {0} /\ C \in [0..Q -> Nat] /\ C[g] < C[g + 1]
      /\ g \in 0..Q /\ g + 1 \in 0..Q
  BY DEF Stairs
<1>2. C[g] \in Nat /\ C[g + 1] \in Nat
  BY <1>1
<1>. DEFINE a == C[g]
            b == C[g + 1]
<1>3. a \in Nat /\ b \in Nat /\ a < b
  BY <1>1, <1>2
<1>4. Cells(C, g) = 0..b - (a + 1) /\ LastCell(C, g) = b - (a + 1)
  BY DEF Cells, LastCell
<1>. HIDE DEF a, b
<1>5. /\ 0 \in Cells(C, g) /\ LastCell(C, g) \in Cells(C, g)
      /\ b = a + LastCell(C, g) + 1
  BY <1>3, <1>4
<1>6. \A x \in Cells(C, g) :
         /\ x \in Nat
         /\ x # LastCell(C, g) =>
               x + 1 \in Cells(C, g) /\ a + (x + 1) = a + x + 1
  BY <1>3, <1>4
<1>. QED
  BY <1>3, <1>5, <1>6 DEF a, b

\* Sections one after the other, round by round, make a circle.
LEMMA SectionsCircle ==
  ASSUME NEW m, NEW Q, NEW C, Stairs(Q, C), NEW W, NEW D, Lapped(W, D, C[Q]),
         NEW u, NEW S, CellsApart(W, Q, C, u), Within(m, W, Q, C, u),
         Across(m, W, Q, C, u), Around(m, W, Q, C, u), Fills(W, Q, C, u, S)
  PROVE  Circle(m, u[0][0][0], D[W], S)
<1>. DEFINE T == C[Q]
            n == D[W]
            first == u[0][0][0]
            At(k, g, x) == D[k] + (C[g] + x)
<1>1. /\ T \in Nat \ {0} /\ n \in Nat \ {0}
      /\ \A g \in 0..Q - 1 : \A x \in Cells(C, g) : C[g] + x \in 0..T - 1
      /\ \A k \in 0..W - 1 : \A r \in 0..T - 1 : D[k] + r \in 0..n - 1
      /\ \A c \in 0..n - 1 :
            \E k \in 0..W - 1 : \E g \in 0..Q - 1 : \E x \in Cells(C, g) :
               c = At(k, g, x)
  <2>1. Stairs(Q, C) /\ Lapped(W, D, C[Q])
    OBVIOUS
  <2>2. C[Q] \in Nat \ {0} /\ D[W] \in Nat \ {0}
    BY Zenon, <2>1, RoundsCells
  <2>3. \A g \in 0..Q - 1 : \A x \in Cells(C, g) : C[g] + x \in 0..C[Q] - 1
    BY Zenon, <2>1, RoundsCells
  <2>4. \A k \in 0..W - 1 : \A r \in 0..C[Q] - 1 : D[k] + r \in 0..D[W] - 1
    BY Zenon, <2>1, RoundsCells
  <2>5. \A c \in 0..D[W] - 1 :
           \E k \in 0..W - 1 : \E g \in 0..Q - 1 : \E x \in Cells(C, g) :
               c = D[k] + (C[g] + x)
    BY <2>1, RoundsCells
  <2>. QED
    BY Zenon, <2>2, <2>3, <2>4, <2>5
<1>2. PICK l : ListsRounds(Q, C, W, D, u, l)
  BY Zenon, RoundsListed
<1>3. /\ Stairs(W, D) /\ W \in Nat \ {0} /\ D \in [0..W -> Nat]
      /\ \A k \in 0..W - 1 : D[k + 1] = D[k] + T
      /\ D[0] = 0
  BY DEF Lapped, Stairs
<1>4. Q \in Nat \ {0} /\ C \in [0..Q -> Nat] /\ C[0] = 0
  BY DEF Stairs
<1>. DEFINE e == [c \in 0..n - 1 |-> l[c]]
<1>. HIDE DEF T, n, first
<1>5. ASSUME NEW k \in 0..W - 1, NEW g \in 0..Q - 1, NEW x \in Cells(C, g)
      PROVE  At(k, g, x) \in 0..n - 1 /\ e[At(k, g, x)] = u[k][g][x]
  <2>1. At(k, g, x) \in 0..n - 1
    BY Zenon, <1>1
  <2>2. l[At(k, g, x)] = u[k][g][x]
    BY Zenon, <1>2 DEF ListsRounds
  <2>. HIDE DEF At
  <2>. QED
    BY <2>1, <2>2
<1>6. ASSUME NEW c \in 0..n - 1
      PROVE  \E k \in 0..W - 1 : \E g \in 0..Q - 1 : \E x \in Cells(C, g) :
                c = At(k, g, x) /\ e[c] = u[k][g][x]
  <2>1. PICK k \in 0..W - 1, g \in 0..Q - 1 :
             \E x \in Cells(C, g) : c = At(k, g, x)
    BY Zenon, <1>1
  <2>1a. PICK x \in Cells(C, g) : c = At(k, g, x)
    BY Zenon, <2>1
  <2>2. e[c] = u[k][g][x]
    BY Zenon, <1>5, <2>1a
  <2>. QED
    BY Zenon, <2>1a, <2>2
<1>7. DOMAIN e = 0..n - 1
  OBVIOUS
<1>8. e \in [0..n - 1 -> S]
  <2>1. ASSUME NEW c \in 0..n - 1
        PROVE  l[c] \in S
    <3>1. PICK k \in 0..W - 1, g \in 0..Q - 1 :
               \E x \in Cells(C, g) : c = At(k, g, x)
      BY Zenon, <1>1
    <3>1a. PICK x \in Cells(C, g) : c = At(k, g, x)
      BY Zenon, <3>1
    <3>2. l[c] = u[k][g][x]
      <4>1. l[At(k, g, x)] = u[k][g][x]
        BY Zenon, <1>2 DEF ListsRounds
      <4>. QED
        BY Zenon, <3>1a, <4>1
    <3>3. u[k][g][x] \in S
      BY Zenon DEF Fills
    <3>. QED
      BY Zenon, <3>2, <3>3
  <2>. QED
    BY <2>1
<1>9. 0 \in 0..W - 1 /\ 0 \in 0..Q - 1 /\ W - 1 \in 0..W - 1 /\ Q - 1 \in 0..Q - 1
  BY <1>3, <1>4
<1>10. \A k \in 0..W - 1 : D[k] \in Nat
  BY <1>3
<1>11. e[0] = first
  <2>1. 0 \in Cells(C, 0)
    BY Zenon, <1>9, CellsOf
  <2>2. At(0, 0, 0) = 0
    BY <1>3, <1>4
  <2>3. e[At(0, 0, 0)] = u[0][0][0]
    BY Zenon, <1>5, <1>9, <2>1
  <2>. QED
    BY Zenon, <2>2, <2>3 DEF first
<1>12. ASSUME NEW a \in S
       PROVE  \E c \in 0..n - 1 : e[c] = a
  <2>1. PICK k \in 0..W - 1, g \in 0..Q - 1 :
             \E x \in Cells(C, g) : a = u[k][g][x]
    BY Zenon DEF Fills
  <2>1a. PICK x \in Cells(C, g) : a = u[k][g][x]
    BY Zenon, <2>1
  <2>. QED
    BY Zenon, <1>5, <2>1a
<1>13. ASSUME NEW c \in 0..n - 1, NEW d \in 0..n - 1, e[c] = e[d]
       PROVE  c = d
  <2>1. PICK k \in 0..W - 1, g \in 0..Q - 1 :
             \E x \in Cells(C, g) : c = At(k, g, x) /\ e[c] = u[k][g][x]
    BY Zenon, <1>6
  <2>1a. PICK x \in Cells(C, g) : c = At(k, g, x) /\ e[c] = u[k][g][x]
    BY Zenon, <2>1
  <2>2. PICK r \in 0..W - 1, h \in 0..Q - 1 :
             \E y \in Cells(C, h) : d = At(r, h, y) /\ e[d] = u[r][h][y]
    BY Zenon, <1>6
  <2>2a. PICK y \in Cells(C, h) : d = At(r, h, y) /\ e[d] = u[r][h][y]
    BY Zenon, <2>2
  <2>3. u[k][g][x] = u[r][h][y]
    BY Zenon, <1>13, <2>1a, <2>2a
  <2>4. k = r /\ g = h /\ x = y
    <3>1. \A v \in Cells(C, g) : \A w \in Cells(C, h) :
             u[k][g][v] = u[r][h][w] => k = r /\ g = h /\ v = w
      BY DEF CellsApart
    <3>. QED
      BY Zenon, <2>3, <3>1
  <2>. QED
    BY Zenon, <2>1a, <2>2a, <2>4
<1>14. ASSUME NEW k \in 0..W - 1, NEW g \in 0..Q - 1, NEW x \in Cells(C, g)
       PROVE  /\ u[k][g][x] \in DOMAIN m
              /\ \/ /\ At(k, g, x) + 1 \in 0..n - 1
                    /\ m[u[k][g][x]] = e[At(k, g, x) + 1]
                 \/ At(k, g, x) + 1 = n /\ m[u[k][g][x]] = first
  <2>1. /\ LastCell(C, g) \in Cells(C, g) /\ x \in Nat
        /\ x # LastCell(C, g) =>
              x + 1 \in Cells(C, g) /\ C[g] + (x + 1) = C[g] + x + 1
        /\ C[g] \in Nat /\ C[g + 1] = C[g] + LastCell(C, g) + 1
        /\ C[g + 1] \in Nat
    BY SMTT(30), CellsOf
  <2>2. D[k] \in Nat
    BY <1>10
  <2>3. CASE x # LastCell(C, g)
    <3>1. x + 1 \in Cells(C, g) /\ At(k, g, x + 1) = At(k, g, x) + 1
      BY <2>1, <2>2, <2>3
    <3>2. Goes(m, u[k][g][x], u[k][g][x + 1])
      BY Zenon, <2>3 DEF Within
    <3>3. At(k, g, x + 1) \in 0..n - 1 /\ e[At(k, g, x + 1)] = u[k][g][x + 1]
      BY Zenon, <1>5, <3>1
    <3>4. u[k][g][x] \in DOMAIN m
      BY Zenon, <3>2 DEF Goes
    <3>5. m[u[k][g][x]] = e[At(k, g, x) + 1]
      BY Zenon, <3>1, <3>2, <3>3 DEF Goes
    <3>6. At(k, g, x) + 1 \in 0..n - 1
      BY Zenon, <3>1, <3>3
    <3>. QED
      BY Zenon, <3>4, <3>5, <3>6
  <2>4. CASE x = LastCell(C, g) /\ g # Q - 1
    <3>1. g \in 0..Q - 2 /\ g + 1 \in 0..Q - 1
      BY <1>4, <2>4
    <3>2. Goes(m, u[k][g][x], u[k][g + 1][0])
      BY Zenon, <2>4, <3>1 DEF Across
    <3>3. 0 \in Cells(C, g + 1)
      BY Zenon, <3>1, CellsOf
    <3>4. At(k, g + 1, 0) = At(k, g, x) + 1
      BY <2>1, <2>2, <2>4
    <3>5. /\ At(k, g + 1, 0) \in 0..n - 1
          /\ e[At(k, g + 1, 0)] = u[k][g + 1][0]
      BY Zenon, <1>5, <3>1, <3>3
    <3>6. u[k][g][x] \in DOMAIN m
      BY Zenon, <3>2 DEF Goes
    <3>7. m[u[k][g][x]] = e[At(k, g, x) + 1]
      BY Zenon, <3>2, <3>4, <3>5 DEF Goes
    <3>8. At(k, g, x) + 1 \in 0..n - 1
      BY Zenon, <3>4, <3>5
    <3>. QED
      BY Zenon, <3>6, <3>7, <3>8
  <2>5. CASE x = LastCell(C, g) /\ g = Q - 1
    <3>1. At(k, g, x) + 1 = D[k] + T /\ D[k + 1] = D[k] + T
      <4>1. g + 1 = Q
        BY <1>4, <2>5
      <4>2. T = C[g] + LastCell(C, g) + 1
        BY <2>1, <4>1 DEF T
      <4>3. D[k + 1] = D[k] + T
        BY <1>3
      <4>. QED
        BY <1>1, <2>1, <2>2, <2>5, <4>2, <4>3
    <3>2. Goes(m, u[k][g][x], u[IF k = W - 1 THEN 0 ELSE k + 1][0][0])
      BY Zenon, <2>5 DEF Around
    <3>3. u[k][g][x] \in DOMAIN m
      BY Zenon, <3>2 DEF Goes
    <3>4. CASE k = W - 1
      <4>1. k + 1 = W
        BY <1>3, <3>4
      <4>2. At(k, g, x) + 1 = n
        BY Zenon, <3>1, <4>1 DEF n
      <4>3. m[u[k][g][x]] = first
        BY Zenon, <3>2, <3>4 DEF Goes, first
      <4>. QED
        BY Zenon, <3>3, <4>2, <4>3
    <3>5. CASE k # W - 1
      <4>1. k + 1 \in 0..W - 1
        BY <1>3, <3>5
      <4>2. At(k + 1, 0, 0) = At(k, g, x) + 1
        <5>1. D[k + 1] \in Nat /\ At(k + 1, 0, 0) = D[k + 1] + (0 + 0)
          BY <1>4, <1>10, <4>1
        <5>. QED
          BY <3>1, <5>1
      <4>3. 0 \in Cells(C, 0)
        BY Zenon, <1>9, CellsOf
      <4>4. /\ At(k + 1, 0, 0) \in 0..n - 1
            /\ e[At(k + 1, 0, 0)] = u[k + 1][0][0]
        BY Zenon, <1>5, <1>9, <4>1, <4>3
      <4>5. m[u[k][g][x]] = u[k + 1][0][0]
        BY Zenon, <3>2, <3>5 DEF Goes
      <4>6. m[u[k][g][x]] = e[At(k, g, x) + 1] /\ At(k, g, x) + 1 \in 0..n - 1
        BY Zenon, <4>2, <4>4, <4>5
      <4>. QED
        BY Zenon, <3>3, <4>6
    <3>. QED
      BY Zenon, <3>4, <3>5
  <2>. QED
    BY Zenon, <2>3, <2>4, <2>5
<1>. HIDE DEF e
<1>15. ASSUME NEW c \in 0..n - 1
       PROVE  /\ e[c] \in DOMAIN m
              /\ \/ c + 1 \in 0..n - 1 /\ m[e[c]] = e[c + 1]
                 \/ c + 1 = n /\ m[e[c]] = first
  <2>1. PICK k \in 0..W - 1, g \in 0..Q - 1 :
             \E x \in Cells(C, g) : c = At(k, g, x) /\ e[c] = u[k][g][x]
    BY Zenon, <1>6
  <2>1a. PICK x \in Cells(C, g) : c = At(k, g, x) /\ e[c] = u[k][g][x]
    BY Zenon, <2>1
  <2>. HIDE DEF At
  <2>. QED
    BY Zenon, <1>14, <2>1a
<1>16. \A c \in 0..n - 1 : e[c] \in DOMAIN m
  BY Zenon, <1>15
<1>17. ASSUME NEW c \in 0..n - 2
       PROVE  m[e[c]] = e[c + 1]
  <2>1. c \in 0..n - 1 /\ c + 1 # n
    BY <1>1
  <2>. QED
    BY Zenon, <1>15, <2>1
<1>18. m[e[n - 1]] = first
  <2>1. n - 1 \in 0..n - 1 /\ ~((n - 1) + 1 \in 0..n - 1)
    BY <1>1
  <2>. QED
    BY Zenon, <1>15, <2>1
<1>19. Rounds(m, first, n, S, e)
  BY Zenon, <1>8, <1>11, <1>12, <1>13, <1>16, <1>17, <1>18 DEF Rounds
<1>20. Circle(m, first, n, S)
  BY Zenon, <1>1, <1>19 DEF Circle
<1>. QED
  BY Zenon, <1>20 DEF first, n

-----------------------------------------------------------------------------
(* Pages, lines and words of a buffer.                                     *)

LEMMA Rows ==
  ASSUME NEW b \in Nat \ {0}, NEW s \in Int, NEW t \in Int
  PROVE  /\ b * s \in Int
         /\ s < t => b * s + b <= b * t
         /\ b * (s + 1) = b * s + b
         /\ s \in Nat => b * s \in Nat
<1>1. b * s \in Int /\ b * t \in Int
  OBVIOUS
<1>2. b * (s + 1) = b * s + b
  OBVIOUS
<1>3. ASSUME s < t
      PROVE  b * s + b <= b * t
  <2>1. PICK d \in Nat : t = (s + 1) + d
    <3>1. t - (s + 1) \in Nat /\ t = (s + 1) + (t - (s + 1))
      BY <1>3
    <3>. QED
      BY <3>1
  <2>2. b * ((s + 1) + d) = b * (s + 1) + b * d
    OBVIOUS
  <2>3. b * d \in Nat
    OBVIOUS
  <2>. QED
    BY <1>1, <1>2, <2>1, <2>2, <2>3
<1>4. s \in Nat => b * s \in Nat
  OBVIOUS
<1>. QED
  BY <1>1, <1>2, <1>3, <1>4

LEMMA RowUnique ==
  ASSUME NEW b \in Nat \ {0}, NEW s \in Int, NEW t \in Int,
         NEW r \in 0..b - 1, NEW v \in 0..b - 1, b * s + r = b * t + v
  PROVE  s = t /\ r = v
<1>1. b * s \in Int /\ b * t \in Int
  BY Rows
<1>2. s < t => b * s + b <= b * t
  BY Rows
<1>3. t < s => b * t + b <= b * s
  BY Rows
<1>. DEFINE x == b * s
            y == b * t
<1>4. x \in Int /\ y \in Int /\ x + r = y + v
  BY <1>1
<1>5. /\ s < t => x + b <= y
      /\ t < s => y + b <= x
  BY <1>2, <1>3
<1>. HIDE DEF x, y
<1>6. ~(s < t) /\ ~(t < s)
  BY <1>4, <1>5
<1>7. s = t
  BY <1>6
<1>8. x = y
  BY <1>7 DEF x, y
<1>. QED
  BY <1>4, <1>7, <1>8

LEMMA Euclid ==
  ASSUME NEW a \in Nat, NEW b \in Nat \ {0}
  PROVE  /\ a \div b \in Nat /\ a % b \in 0..b - 1
         /\ a = b * (a \div b) + (a % b)
         /\ b * (a \div b) \in Nat /\ b * (a \div b) <= a
<1>1. a \div b \in Nat /\ a % b \in 0..b - 1
  OBVIOUS
<1>2. a = b * (a \div b) + (a % b)
  OBVIOUS
<1>3. b * (a \div b) \in Nat
  BY <1>1, Rows
<1>. DEFINE x == b * (a \div b)
            y == a % b
<1>4. x \in Nat /\ y \in Nat /\ a = x + y
  BY <1>1, <1>2, <1>3
<1>. HIDE DEF x, y
<1>5. x <= a
  BY <1>4
<1>. QED
  BY <1>1, <1>2, <1>3, <1>5 DEF x

\* a div b is the number of whole b in a.
LEMMA DivBetween ==
  ASSUME NEW a \in Nat, NEW b \in Nat \ {0}, NEW q \in Int,
         b * q <= a, a < b * q + b
  PROVE  a \div b = q /\ a % b = a - b * q
<1>1. /\ a \div b \in Nat /\ a % b \in 0..b - 1
      /\ a = b * (a \div b) + (a % b)
  BY Euclid
<1>2. b * q \in Int
  BY Rows
<1>. DEFINE x == b * q
            r == a - x
<1>3. r \in 0..b - 1 /\ x + r = a
  BY <1>2
<1>4. b * (a \div b) + (a % b) = b * q + r
  BY <1>1, <1>3
<1>. DEFINE s == a \div b
            u == a % b
<1>5. s \in Int /\ u \in 0..b - 1
  BY <1>1
<1>6. b * s + u = b * q + r
  BY Zenon, <1>4
<1>. HIDE DEF r, x, s, u
<1>7. r \in 0..b - 1
  BY <1>3
<1>8. s = q /\ u = r
  BY <1>5, <1>6, <1>7, RowUnique
<1>. QED
  BY Zenon, <1>8 DEF r, x, s, u

LEMMA DivGrows ==
  ASSUME NEW a \in Nat, NEW c \in Nat, a <= c, NEW b \in Nat \ {0}
  PROVE  a \div b <= c \div b
<1>. DEFINE s == a \div b
            t == c \div b
            x == b * s
            y == b * t
<1>1. s \in Nat /\ t \in Nat
  BY Euclid
<1>2. x \in Nat /\ x <= a
  BY Euclid
<1>3. y \in Nat /\ c < y + b
  <2>1. y \in Nat /\ c % b \in 0..b - 1 /\ c = y + (c % b)
    BY Euclid
  <2>. HIDE DEF y
  <2>. QED
    BY <2>1
<1>4. t < s => y + b <= x
  BY <1>1, Rows
<1>. HIDE DEF x, y, s, t
<1>5. s <= t
  BY <1>1, <1>2, <1>3, <1>4
<1>. QED
  BY <1>5 DEF s, t

LEMMA CeilDivIs ==
  ASSUME NEW a \in Nat \ {0}, NEW b \in Nat \ {0}
  PROVE  /\ CeilDiv(a, b) \in Nat \ {0}
         /\ a <= b * CeilDiv(a, b) /\ b * CeilDiv(a, b) < a + b
<1>. DEFINE s == (a + b - 1) \div b
            x == b * s
<1>1. a + b - 1 \in Nat
  OBVIOUS
<1>2. s \in Nat
  BY <1>1, Euclid
<1>3. x \in Nat /\ x <= a + b - 1 /\ a + b - 1 < x + b
  <2>. DEFINE c == a + b - 1
  <2>1. c \in Nat
    BY <1>1
  <2>. HIDE DEF c
  <2>2. /\ b * (c \div b) \in Nat /\ c % b \in 0..b - 1
        /\ c = b * (c \div b) + (c % b)
    BY <2>1, Euclid
  <2>. DEFINE y == b * (c \div b)
  <2>3. y \in Nat /\ y <= c /\ c < y + b
    <3>. HIDE DEF y
    <3>. QED
      BY <2>1, <2>2 DEF y
  <2>4. x = y
    BY DEF c
  <2>. HIDE DEF x, y
  <2>5. x \in Nat /\ x <= c /\ c < x + b
    BY Zenon, <2>3, <2>4
  <2>. QED
    BY <2>5 DEF c
<1>4. s # 0
  <2>1. b * 0 = 0
    OBVIOUS
  <2>2. s = 0 => x = 0
    BY <2>1
  <2>. HIDE DEF x, s
  <2>. QED
    BY <1>3, <2>2
<1>5. a <= x /\ x < a + b
  <2>. HIDE DEF x
  <2>. QED
    BY <1>3
<1>6. CeilDiv(a, b) = s
  BY DEF CeilDiv
<1>. HIDE DEF s
<1>. QED
  BY <1>2, <1>4, <1>5, <1>6

LEMMA LayoutFacts ==
  ASSUME layout \in Layouts
  PROVE  /\ layout.kind \in {"stride", "thrash", "mem", "line", "tlb"}
         /\ layout.len \in Nat \ {0} /\ layout.line \in Nat \ {0}
         /\ layout.page \in Nat \ {0} /\ layout.max \in Nat \ {0}
         /\ layout.group \in Nat \ {0}
         /\ layout.len <= layout.max /\ layout.narrow \subseteq Nat
BY LayoutsAssumption

LEMMA PageFacts ==
  ASSUME layout \in Layouts, pages \in Orders(layout)
  PROVE  /\ NPages \in Nat \ {0}
         /\ \A i \in 0..NPages - 1 :
               /\ i \in DOMAIN pages /\ pages[i] \in Nat
               /\ \E t \in Nat : pages[i] = layout.page * t
         /\ \A i, j \in 0..NPages - 1 : pages[i] = pages[j] => i = j
         /\ layout.kind = "tlb" => pages[0] = 0
<1>. DEFINE n == CeilDiv(layout.max, layout.page)
            b == layout.page
<1>1. /\ layout.len \in Nat \ {0} /\ layout.page \in Nat \ {0}
      /\ layout.max \in Nat \ {0} /\ layout.len <= layout.max
  BY LayoutFacts
<1>2. n \in Nat \ {0} /\ NPages \in Nat \ {0}
  BY <1>1, CeilDivIs DEF NPages
<1>3. NPages <= n
  <2>. DEFINE a == layout.len + layout.page - 1
              c == layout.max + layout.page - 1
  <2>1. a \in Nat /\ c \in Nat /\ a <= c
    BY <1>1
  <2>. HIDE DEF a, c
  <2>2. a \div layout.page <= c \div layout.page
    BY <1>1, <2>1, DivGrows
  <2>. QED
    BY Zenon, <2>2 DEF a, c, NPages, CeilDiv
<1>4. /\ pages \in [0..n - 1 -> {b * i : i \in 0..n - 1}]
      /\ \A i, j \in 0..n - 1 : pages[i] = pages[j] => i = j
      /\ layout.kind = "tlb" => pages[0] = 0
  BY DEF Orders
<1>. DEFINE P == NPages
<1>5. P \in Nat \ {0} /\ P <= n
  BY <1>2, <1>3
<1>. HIDE DEF n, b, P
<1>6. \A i \in 0..P - 1 : i \in 0..n - 1
  BY <1>2, <1>5 DEF n
<1>7. ASSUME NEW i \in 0..P - 1
      PROVE  /\ i \in DOMAIN pages /\ pages[i] \in Nat
             /\ \E t \in Nat : pages[i] = b * t
  <2>1. i \in 0..n - 1
    BY <1>6
  <2>2. PICK t \in 0..n - 1 : pages[i] = b * t
    BY <1>4, <2>1
  <2>3. t \in Nat /\ b \in Nat \ {0}
    BY <1>1 DEF b
  <2>4. b * t \in Nat
    BY <2>3, Rows
  <2>. QED
    BY Zenon, <1>4, <2>1, <2>2, <2>3, <2>4
<1>8. \A i, j \in 0..P - 1 : pages[i] = pages[j] => i = j
  BY Zenon, <1>4, <1>6
<1>. QED
  BY <1>4, <1>5, <1>7, <1>8 DEF P, b

LEMMA LineFacts ==
  ASSUME layout \in Layouts, NLines # 0
  PROVE  /\ NLines \in Nat \ {0} /\ LineAt(0) = 0
         /\ \A j \in Nat :
               /\ LineAt(j) \in Nat /\ LineAt(j) + layout.line <= layout.page
               /\ LineAt(j) = layout.line * Turned(NLines, j)
<1>1. layout.line \in Nat \ {0} /\ layout.page \in Nat \ {0}
  BY LayoutFacts
<1>. DEFINE n == NLines
            b == layout.line
<1>2. n \in Nat \ {0} /\ b * n \in Nat /\ b * n <= layout.page
  BY <1>1, Euclid DEF NLines
<1>. HIDE DEF n
<1>3. \A j : LineAt(j) = b * Turned(n, j)
  BY DEF LineAt, Word, Turned, n
<1>4. LineAt(0) = 0
  <2>1. Turned(n, 0) = 0
    BY <1>2, TurnedZero
  <2>2. b * 0 = 0
    BY <1>1
  <2>. QED
    BY Zenon, <1>3, <2>1, <2>2
<1>5. ASSUME NEW j \in Nat
      PROVE  LineAt(j) \in Nat /\ LineAt(j) + b <= layout.page
  <2>. DEFINE t == Turned(n, j)
  <2>1. t \in 0..n - 1
    BY <1>2, TurnedIn
  <2>. HIDE DEF t
  <2>2. t \in Nat /\ t < n
    BY <1>2, <2>1
  <2>3. b * t \in Nat /\ b * t + b <= b * n
    BY <1>1, <1>2, <2>2, Rows
  <2>4. LineAt(j) = b * t
    BY <1>3 DEF t
  <2>. DEFINE x == b * t
              y == b * n
  <2>5. x \in Nat /\ x + b <= y /\ y <= layout.page /\ y \in Nat
    BY <1>2, <2>3
  <2>. HIDE DEF x, y
  <2>6. x \in Nat /\ x + b <= layout.page
    BY <1>1, <2>5
  <2>. QED
    BY <2>4, <2>6 DEF x
<1>. QED
  BY <1>2, <1>3, <1>4, <1>5 DEF n

\* Words at different places have different addresses.
LEMMA AddressApart ==
  ASSUME layout \in Layouts, pages \in Orders(layout), PowerOfTwo(NLines),
         NEW i \in 0..NPages - 1, NEW h \in 0..NPages - 1,
         NEW j \in 0..NLines - 1, NEW l \in 0..NLines - 1,
         NEW w \in 0..layout.line - 1, NEW z \in 0..layout.line - 1,
         pages[i] + LineAt(j) + w = pages[h] + LineAt(l) + z
  PROVE  i = h /\ j = l /\ w = z
<1>1. layout.line \in Nat \ {0} /\ layout.page \in Nat \ {0}
  BY LayoutFacts
<1>2. NLines \in Nat
  BY <1>1, Euclid DEF NLines
<1>3. NLines # 0
  BY <1>2, NBitsOfPower
<1>4. PICK s \in Nat : pages[i] = layout.page * s
  BY PageFacts
<1>5. PICK t \in Nat : pages[h] = layout.page * t
  BY PageFacts
<1>. DEFINE r == LineAt(j) + w
            v == LineAt(l) + z
            b == layout.page
<1>6. /\ LineAt(j) \in Nat /\ LineAt(j) + layout.line <= b
      /\ LineAt(j) = layout.line * Turned(NLines, j)
      /\ LineAt(l) \in Nat /\ LineAt(l) + layout.line <= b
      /\ LineAt(l) = layout.line * Turned(NLines, l)
  BY <1>3, LineFacts
<1>7. r \in 0..b - 1 /\ v \in 0..b - 1
  BY <1>1, <1>6
<1>8. pages[i] \in Nat /\ pages[h] \in Nat
  BY PageFacts
<1>9. pages[i] + r = pages[h] + v
  BY <1>1, <1>6, <1>8
<1>10. b * s + r = b * t + v
  BY Zenon, <1>4, <1>5, <1>9
<1>. HIDE DEF r, v, b
<1>11. b \in Nat \ {0}
  BY <1>1 DEF b
<1>12. s = t /\ r = v
  BY <1>7, <1>10, <1>11, RowUnique
<1>13. i = h
  <2>1. pages[i] = pages[h]
    BY Zenon, <1>4, <1>5, <1>12
  <2>. QED
    BY <2>1, PageFacts
<1>. DEFINE c == layout.line
            x == Turned(NLines, j)
            y == Turned(NLines, l)
<1>14. x \in 0..NLines - 1 /\ y \in 0..NLines - 1
  BY <1>2, <1>3, TurnedIn
<1>15. LineAt(j) + w = LineAt(l) + z
  BY Zenon, <1>12 DEF r, v
<1>16. c * x + w = c * y + z
  BY Zenon, <1>6, <1>15
<1>17. w \in 0..c - 1 /\ z \in 0..c - 1 /\ c \in Nat \ {0}
  BY <1>1
<1>18. x \in Int /\ y \in Int
  BY <1>2, <1>14
<1>. HIDE DEF c, x, y
<1>19. x = y /\ w = z
  BY <1>16, <1>17, <1>18, RowUnique
<1>20. j = l
  <2>1. Turned(NLines, j) = Turned(NLines, l)
    BY Zenon, <1>19 DEF x, y
  <2>. QED
    BY <1>2, <2>1, TurnedApart
<1>. QED
  BY Zenon, <1>13, <1>19, <1>20

-----------------------------------------------------------------------------
(* What is linked.                                                         *)

LEMMA LinkedAt ==
  ASSUME NEW m, NEW pairs, NEW a, NEW b, <<a, b>> \in pairs,
         \A x \in pairs : x[1] = a => x[2] = b
  PROVE  Goes(Linked(m, pairs), a, b)
<1>. DEFINE from == {x[1] : x \in pairs}
            d == DOMAIN m \cup from
            val(c) == IF c \in from THEN (CHOOSE x \in pairs : x[1] = c)[2]
                                   ELSE m[c]
<1>1. <<a, b>>[1] = a
  OBVIOUS
<1>2. a \in from
  BY <1>1
<1>3. (CHOOSE x \in pairs : x[1] = a) \in pairs
      /\ (CHOOSE x \in pairs : x[1] = a)[1] = a
  BY Zenon, <1>1
<1>4. (CHOOSE x \in pairs : x[1] = a)[2] = b
  BY Zenon, <1>3
<1>5. Linked(m, pairs) = [c \in d |-> val(c)]
  BY Zenon DEF Linked
<1>6. a \in d
  BY <1>2
<1>7. val(a) = b
  BY Zenon, <1>2, <1>4
<1>. HIDE DEF d, val
<1>8. [c \in d |-> val(c)][a] = b /\ a \in DOMAIN [c \in d |-> val(c)]
  BY <1>6, <1>7
<1>. QED
  BY Zenon, <1>5, <1>8 DEF Goes

LEMMA LinkedElse ==
  ASSUME NEW m, NEW pairs, NEW a, NEW b, Goes(m, a, b),
         \A x \in pairs : x[1] # a
  PROVE  Goes(Linked(m, pairs), a, b)
<1>. DEFINE from == {x[1] : x \in pairs}
            d == DOMAIN m \cup from
            val(c) == IF c \in from THEN (CHOOSE x \in pairs : x[1] = c)[2]
                                   ELSE m[c]
<1>1. a \notin from /\ a \in DOMAIN m /\ m[a] = b
  BY DEF Goes
<1>2. Linked(m, pairs) = [c \in d |-> val(c)]
  BY Zenon DEF Linked
<1>3. a \in d
  BY <1>1
<1>4. val(a) = b
  BY Zenon, <1>1
<1>. HIDE DEF d, val
<1>5. [c \in d |-> val(c)][a] = b /\ a \in DOMAIN [c \in d |-> val(c)]
  BY <1>3, <1>4
<1>. QED
  BY Zenon, <1>2, <1>5 DEF Goes

\* W rows of T cells, one row after the other.
LEMMA GridCircle ==
  ASSUME NEW m, NEW W \in Nat \ {0}, NEW T \in Nat \ {0}, NEW v,
         \A k, l \in 0..W - 1 : \A x, y \in 0..T - 1 :
            v[k][x] = v[l][y] => k = l /\ x = y,
         \A k \in 0..W - 1 : \A x \in 0..T - 2 : Goes(m, v[k][x], v[k][x + 1]),
         \A k \in 0..W - 1 :
            Goes(m, v[k][T - 1], v[IF k = W - 1 THEN 0 ELSE k + 1][0]),
         NEW S, \A k \in 0..W - 1 : \A x \in 0..T - 1 : v[k][x] \in S,
         \A a \in S : \E k \in 0..W - 1 : \E x \in 0..T - 1 : a = v[k][x]
  PROVE  Circle(m, v[0][0], W * T, S)
<1>. DEFINE C == [g \in 0..1 |-> g * T]
            D == [k \in 0..W |-> k * T]
            u == [k \in 0..W - 1 |-> [g \in 0..0 |-> v[k]]]
<1>1. /\ Stairs(1, C) /\ C[0] = 0 /\ C[1] = T
  <2>1. Stairs(1, [g \in 0..1 |-> g * T])
    <3>1. 1 \in Nat \ {0}
      OBVIOUS
    <3>. QED
      BY Zenon, <3>1, Lots
  <2>2. 0 * T = 0 /\ 1 * T = T
    OBVIOUS
  <2>. QED
    BY <2>1, <2>2
<1>2. Stairs(W, D) /\ D[W] = W * T /\ \A k \in 0..W - 1 : D[k + 1] = D[k] + T
  <2>1. Stairs(W, [k \in 0..W |-> k * T])
    BY Lots
  <2>2. \A k \in 0..W - 1 : (k + 1) * T = k * T + T
    BY Lots
  <2>3. W \in 0..W /\ \A k \in 0..W - 1 : k \in 0..W /\ k + 1 \in 0..W
    OBVIOUS
  <2>. QED
    BY <2>1, <2>2, <2>3
<1>3. Lapped(W, D, C[1])
  BY <1>1, <1>2 DEF Lapped
<1>4. /\ Cells(C, 0) = 0..T - 1 /\ LastCell(C, 0) = T - 1
  <2>1. C[0] = 0 /\ C[0 + 1] = T
    BY <1>1
  <2>. HIDE DEF C
  <2>. QED
    BY <2>1 DEF Cells, LastCell
<1>5. \A k \in 0..W - 1 : u[k][0] = v[k]
  OBVIOUS
<1>6. 0..1 - 1 = {0} /\ 1 - 1 = 0 /\ 0..1 - 2 = {}
  OBVIOUS
<1>7. \A x \in 0..T - 1 : x # T - 1 => x \in 0..T - 2
  OBVIOUS
<1>8. \A k \in 0..W - 1 : (IF k = W - 1 THEN 0 ELSE k + 1) \in 0..W - 1
  OBVIOUS
<1>9. 0 \in 0..W - 1
  OBVIOUS
<1>. HIDE DEF C, D, u
<1>10. CellsApart(W, 1, C, u)
  <2>. SUFFICES ASSUME NEW k \in 0..W - 1, NEW l \in 0..W - 1,
                       NEW g \in 0..1 - 1, NEW h \in 0..1 - 1,
                       NEW x \in Cells(C, g), NEW y \in Cells(C, h),
                       u[k][g][x] = u[l][h][y]
                PROVE  k = l /\ g = h /\ x = y
    BY DEF CellsApart
  <2>1. g = 0 /\ h = 0
    BY <1>6
  <2>2. x \in 0..T - 1 /\ y \in 0..T - 1
    BY Zenon, <1>4, <2>1
  <2>3. v[k][x] = v[l][y]
    BY Zenon, <1>5, <2>1
  <2>4. k = l /\ x = y
    BY <2>2, <2>3
  <2>. QED
    BY Zenon, <2>1, <2>4
<1>11. Within(m, W, 1, C, u)
  <2>. SUFFICES ASSUME NEW k \in 0..W - 1, NEW g \in 0..1 - 1,
                       NEW x \in Cells(C, g), x # LastCell(C, g)
                PROVE  Goes(m, u[k][g][x], u[k][g][x + 1])
    BY Zenon DEF Within
  <2>1. g = 0
    BY <1>6
  <2>2. x \in 0..T - 2
    BY Zenon, <1>4, <1>7, <2>1
  <2>3. Goes(m, v[k][x], v[k][x + 1])
    BY Zenon, <2>2
  <2>. QED
    BY Zenon, <1>5, <2>1, <2>3
<1>12. Across(m, W, 1, C, u)
  BY <1>6 DEF Across
<1>13. Around(m, W, 1, C, u)
  <2>. SUFFICES ASSUME NEW k \in 0..W - 1
                PROVE  Goes(m, u[k][1 - 1][LastCell(C, 1 - 1)],
                            u[IF k = W - 1 THEN 0 ELSE k + 1][0][0])
    BY Zenon DEF Around
  <2>1. Goes(m, v[k][T - 1], v[IF k = W - 1 THEN 0 ELSE k + 1][0])
    OBVIOUS
  <2>. DEFINE l == IF k = W - 1 THEN 0 ELSE k + 1
  <2>2. l \in 0..W - 1
    BY <1>8
  <2>. HIDE DEF l
  <2>3. u[k][1 - 1][LastCell(C, 1 - 1)] = v[k][T - 1]
    BY <1>4, <1>5, <1>6
  <2>4. u[l][0][0] = v[l][0]
    BY Zenon, <1>5, <2>2
  <2>. QED
    BY Zenon, <2>1, <2>3, <2>4 DEF l
<1>14. Fills(W, 1, C, u, S)
  <2>1. ASSUME NEW k \in 0..W - 1, NEW g \in 0..1 - 1, NEW x \in Cells(C, g)
        PROVE  u[k][g][x] \in S
    <3>1. g = 0
      BY <1>6
    <3>2. x \in 0..T - 1
      BY Zenon, <1>4, <3>1
    <3>3. u[k][g][x] = v[k][x]
      BY Zenon, <1>5, <3>1
    <3>4. v[k][x] \in S
      BY <3>2
    <3>. QED
      BY Zenon, <3>3, <3>4
  <2>2. ASSUME NEW a \in S
        PROVE  \E k \in 0..W - 1 : \E g \in 0..1 - 1 : \E x \in Cells(C, g) :
                  a = u[k][g][x]
    <3>1. PICK k \in 0..W - 1, x \in 0..T - 1 : a = v[k][x]
      OBVIOUS
    <3>2. 0 \in 0..1 - 1 /\ x \in Cells(C, 0) /\ a = u[k][0][x]
      BY <1>4, <1>5, <1>6, <3>1
    <3>. QED
      BY <3>2
  <2>. QED
    BY Zenon, <2>1, <2>2 DEF Fills
<1>15. Circle(m, u[0][0][0], D[W], S)
  BY Zenon, <1>1, <1>3, <1>10, <1>11, <1>12, <1>13, <1>14, SectionsCircle
<1>16. u[0][0][0] = v[0][0]
  BY Zenon, <1>5, <1>9
<1>. QED
  BY <1>2, <1>15, <1>16

LEMMA LineCircle ==
  ASSUME NEW m, NEW T \in Nat \ {0}, NEW v,
         \A x, y \in 0..T - 1 : v[x] = v[y] => x = y,
         \A x \in 0..T - 2 : Goes(m, v[x], v[x + 1]),
         Goes(m, v[T - 1], v[0]),
         NEW S, \A x \in 0..T - 1 : v[x] \in S,
         \A a \in S : \E x \in 0..T - 1 : a = v[x]
  PROVE  Circle(m, v[0], T, S)
<1>. DEFINE w == [k \in 0..0 |-> v]
<1>1. w[0] = v /\ 0..1 - 1 = {0} /\ 1 \in Nat \ {0} /\ 1 - 1 = 0 /\ 1 * T = T
  OBVIOUS
<1>. HIDE DEF w
<1>3. \A k, l \in 0..1 - 1 : \A x, y \in 0..T - 1 :
         w[k][x] = w[l][y] => k = l /\ x = y
  BY <1>1
<1>4. \A k \in 0..1 - 1 : \A x \in 0..T - 2 : Goes(m, w[k][x], w[k][x + 1])
  BY <1>1
<1>5. \A k \in 0..1 - 1 :
         Goes(m, w[k][T - 1], w[IF k = 1 - 1 THEN 0 ELSE k + 1][0])
  BY <1>1
<1>6. \A k \in 0..1 - 1 : \A x \in 0..T - 1 : w[k][x] \in S
  BY <1>1
<1>7. \A a \in S : \E k \in 0..1 - 1 : \E x \in 0..T - 1 : a = w[k][x]
  <2>. TAKE a \in S
  <2>1. PICK x \in 0..T - 1 : a = v[x]
    OBVIOUS
  <2>2. 0 \in 0..1 - 1 /\ a = w[0][x]
    BY <1>1, <2>1
  <2>. QED
    BY <2>2
<1>8. Circle(m, w[0][0], 1 * T, S)
  BY <1>1, <1>3, <1>4, <1>5, <1>6, <1>7, GridCircle
<1>. QED
  BY <1>1, <1>8

LEMMA StrideCircle ==
  ASSUME layout \in Layouts, layout.kind = "stride", NEW m
  PROVE  \E S : Circle(Linked(m, StrideLinks), 0,
                       CeilDiv(layout.len, layout.line), S)
<1>. DEFINE b == layout.line
            len == layout.len
            n == CeilDiv(len, b)
            v == [x \in 0..n - 1 |-> b * x]
            S == {v[x] : x \in 0..n - 1}
            Next(a) == IF a + b < len THEN a + b ELSE 0
<1>1. b \in Nat \ {0} /\ len \in Nat \ {0}
  BY LayoutFacts
<1>2. StrideLinks = {<<a, Next(a)>> : a \in {x \in 0..len - 1 : x % b = 0}}
  BY DEF StrideLinks
<1>. HIDE DEF b, len
<1>3. n \in Nat \ {0} /\ len <= b * n /\ b * n < len + b
  BY <1>1, CeilDivIs
<1>. HIDE DEF n
<1>4. ASSUME NEW x \in 0..n - 1
      PROVE  /\ v[x] \in Nat /\ v[x] \in 0..len - 1 /\ v[x] % b = 0
             /\ x # n - 1 => x + 1 \in 0..n - 1 /\ Next(v[x]) = v[x + 1]
             /\ x = n - 1 => Next(v[x]) = 0
  <2>. DEFINE c == b * x
              t == b * n
  <2>1. x \in Nat /\ n \in Nat /\ x + 1 \in Nat /\ x < n
    BY <1>3
  <2>2. c \in Nat /\ t \in Nat
    BY <1>1, <2>1, Rows
  <2>3. b * (x + 1) = c + b /\ c + b <= t
    BY <1>1, <2>1, Rows
  <2>4. x # n - 1 => x + 1 < n /\ x + 1 \in 0..n - 1
    BY <1>3
  <2>5. x # n - 1 => b * (x + 1) + b <= t
    <3>. HAVE x # n - 1
    <3>1. x + 1 < n /\ x + 1 \in Int /\ n \in Int
      BY <2>1, <2>4
    <3>. QED
      BY <1>1, <3>1, Rows
  <2>6. v[x] = c
    OBVIOUS
  <2>7. x # n - 1 => v[x + 1] = c + b
    BY <2>3, <2>4
  <2>8. len <= t /\ t < len + b
    BY <1>3
  <2>9. x = n - 1 => c + b = t
    <3>. HAVE x = n - 1
    <3>1. x + 1 = n
      BY <1>3
    <3>. QED
      BY Zenon, <2>3, <3>1
  <2>10. c % b = 0
    <3>1. c <= c /\ c < c + b
      BY <1>1, <2>2
    <3>2. c % b = c - b * x
      BY <1>1, <2>1, <2>2, <3>1, DivBetween
    <3>. HIDE DEF c
    <3>3. c % b = c - c
      BY Zenon, <3>2 DEF c
    <3>. QED
      BY <2>2, <3>3
  <2>11. x # n - 1 => (c + b) + b <= t
    BY <2>3, <2>5
  <2>. HIDE DEF c, t
  <2>12. c \in 0..len - 1
    BY <1>1, <2>2, <2>3, <2>8
  <2>13. x # n - 1 => c + b < len
    BY <1>1, <2>2, <2>8, <2>11
  <2>14. x = n - 1 => ~(c + b < len)
    BY <1>1, <2>2, <2>8, <2>9
  <2>. HIDE DEF v
  <2>15. x # n - 1 => Next(v[x]) = v[x + 1]
    BY Zenon, <2>6, <2>7, <2>13
  <2>16. x = n - 1 => Next(v[x]) = 0
    BY Zenon, <2>6, <2>14
  <2>. QED
    BY Zenon, <2>2, <2>4, <2>6, <2>10, <2>12, <2>15, <2>16
<1>5. ASSUME NEW x \in 0..n - 1
      PROVE  Goes(Linked(m, StrideLinks), v[x], Next(v[x]))
  <2>. HIDE DEF v, Next
  <2>1. <<v[x], Next(v[x])>> \in StrideLinks
    BY <1>2, <1>4
  <2>2. \A y \in StrideLinks : y[1] = v[x] => y[2] = Next(v[x])
    BY <1>2
  <2>. QED
    BY Zenon, <2>1, <2>2, LinkedAt
<1>6. \A x, y \in 0..n - 1 : v[x] = v[y] => x = y
  <2>. SUFFICES ASSUME NEW x \in 0..n - 1, NEW y \in 0..n - 1, b * x = b * y
                PROVE  x = y
    BY DEF v
  <2>1. x \in Int /\ y \in Int /\ 0 \in 0..b - 1
    BY <1>1, <1>3
  <2>2. b * x + 0 = b * y + 0
    OBVIOUS
  <2>. QED
    BY <1>1, <2>1, <2>2, RowUnique
<1>7. v[0] = 0
  <2>1. b * 0 = 0 /\ 0 \in 0..n - 1
    BY <1>1, <1>3
  <2>. QED
    BY <2>1
<1>. HIDE DEF v, Next
<1>8. \A x \in 0..n - 2 : x \in 0..n - 1 /\ x # n - 1
  BY <1>3
<1>9. \A x \in 0..n - 2 : Goes(Linked(m, StrideLinks), v[x], v[x + 1])
  <2>. TAKE x \in 0..n - 2
  <2>1. x \in 0..n - 1 /\ x # n - 1
    BY <1>8
  <2>. QED
    BY Zenon, <1>4, <1>5, <2>1
<1>10. Goes(Linked(m, StrideLinks), v[n - 1], v[0])
  <2>1. n - 1 \in 0..n - 1
    BY <1>3
  <2>. QED
    BY Zenon, <1>4, <1>5, <1>7, <2>1
<1>11. /\ \A x \in 0..n - 1 : v[x] \in S
       /\ \A a \in S : \E x \in 0..n - 1 : a = v[x]
  OBVIOUS
<1>. HIDE DEF S
<1>12. Circle(Linked(m, StrideLinks), v[0], n, S)
  BY <1>3, <1>6, <1>9, <1>10, <1>11, LineCircle
<1>. QED
  BY Zenon, <1>7, <1>12 DEF n, len, b

LEMMA TlbCircle ==
  ASSUME layout \in Layouts, pages \in Orders(layout), layout.kind = "tlb",
         NEW m
  PROVE  \E S : Circle(Linked(m, TlbLinks), pages[0],
                       layout.len \div layout.page, S)
<1>. DEFINE b == layout.page
            n == layout.len \div layout.page
            at(i) == pages[i] + Word(layout.page, 1, i % layout.page)
            v == [x \in 0..n - 1 |-> at(x)]
            S == {v[x] : x \in 0..n - 1}
            Next(i) == IF i < n - 1 THEN at(i + 1) ELSE pages[0]
<1>1. b \in Nat \ {0} /\ layout.len \in Nat \ {0}
  BY LayoutFacts
<1>2. n \in Nat \ {0}
  <2>1. b <= layout.len
    BY LayoutsAssumption
  <2>2. b \div b = 1
    <3>1. b * 1 <= b /\ b < b * 1 + b /\ b \in Nat /\ 1 \in Int
      BY <1>1
    <3>. QED
      BY <1>1, <3>1, DivBetween
  <2>3. b \div b <= n
    BY <1>1, <2>1, DivGrows
  <2>4. n \in Nat
    BY <1>1, Euclid
  <2>. HIDE DEF n, b
  <2>. QED
    BY <2>2, <2>3, <2>4
<1>3. n <= NPages
  <2>. DEFINE c == layout.len + layout.page - 1
  <2>1. layout.len \in Nat /\ c \in Nat /\ layout.len <= c
    BY <1>1
  <2>. HIDE DEF c
  <2>2. layout.len \div layout.page <= c \div layout.page
    BY <1>1, <2>1, DivGrows
  <2>. QED
    BY Zenon, <2>2 DEF c, NPages, CeilDiv
<1>4. TlbLinks = {<<at(i), Next(i)>> : i \in 0..n - 1}
  BY DEF TlbLinks
<1>5. ASSUME NEW i \in Nat
      PROVE  Word(b, 1, i % b) \in 0..b - 1
  <2>1. i % b \in Nat
    BY <1>1
  <2>2. Turned(b, i % b) \in 0..b - 1
    BY <1>1, <2>1, TurnedIn
  <2>3. Word(b, 1, i % b) = 1 * Turned(b, i % b)
    BY DEF Word, Turned
  <2>. DEFINE t == Turned(b, i % b)
  <2>. HIDE DEF t, b
  <2>4. t \in 0..b - 1 /\ 1 * t = t
    BY <1>1, <2>2 DEF t
  <2>. QED
    BY Zenon, <2>3, <2>4 DEF t
<1>6. Word(b, 1, 0 % b) = 0
  <2>1. 0 % b = 0
    BY <1>1
  <2>2. Turned(b, 0) = 0
    BY <1>1, TurnedZero
  <2>3. Word(b, 1, 0 % b) = 1 * Turned(b, 0)
    BY <2>1 DEF Word, Turned
  <2>. QED
    BY <2>2, <2>3
<1>. HIDE DEF n
<1>7. \A i \in 0..n - 1 : i \in Nat /\ i \in 0..NPages - 1
  BY <1>2, <1>3, PageFacts
<1>8. \A i, h \in 0..n - 1 : at(i) = at(h) => i = h
  <2>. SUFFICES ASSUME NEW i \in 0..n - 1, NEW h \in 0..n - 1, at(i) = at(h)
                PROVE  i = h
    OBVIOUS
  <2>1. i \in 0..NPages - 1 /\ h \in 0..NPages - 1 /\ i \in Nat /\ h \in Nat
    BY <1>7
  <2>2. PICK s \in Nat : pages[i] = b * s
    BY <2>1, PageFacts
  <2>3. PICK t \in Nat : pages[h] = b * t
    BY <2>1, PageFacts
  <2>. DEFINE r == Word(b, 1, i % b)
              w == Word(b, 1, h % b)
  <2>4. r \in 0..b - 1 /\ w \in 0..b - 1
    BY <1>5, <2>1
  <2>5. b * s + r = b * t + w
    BY Zenon, <2>2, <2>3
  <2>. HIDE DEF r, w, b
  <2>6. s = t
    BY <1>1, <2>4, <2>5, RowUnique
  <2>7. pages[i] = pages[h]
    BY Zenon, <2>2, <2>3, <2>6
  <2>. QED
    BY <2>1, <2>7, PageFacts
<1>9. at(0) = pages[0]
  <2>1. pages[0] \in Nat
    BY PageFacts
  <2>2. Word(layout.page, 1, 0 % layout.page) = 0
    BY Zenon, <1>6
  <2>. QED
    BY <2>1, <2>2
<1>10. \A i \in 0..n - 1 : v[i] = at(i)
  OBVIOUS
<1>11. /\ \A x \in 0..n - 1 : v[x] \in S
       /\ \A a \in S : \E x \in 0..n - 1 : a = v[x]
  OBVIOUS
<1>. HIDE DEF at, v, S
<1>12. ASSUME NEW i \in 0..n - 1
       PROVE  Goes(Linked(m, TlbLinks), v[i], Next(i))
  <2>. HIDE DEF Next
  <2>1. <<at(i), Next(i)>> \in TlbLinks
    BY <1>4
  <2>2. \A y \in TlbLinks : y[1] = at(i) => y[2] = Next(i)
    BY <1>4, <1>8
  <2>3. Goes(Linked(m, TlbLinks), at(i), Next(i))
    BY Zenon, <2>1, <2>2, LinkedAt
  <2>. QED
    BY Zenon, <1>10, <2>3
<1>13. \A x \in 0..n - 2 : Goes(Linked(m, TlbLinks), v[x], v[x + 1])
  <2>. TAKE x \in 0..n - 2
  <2>1. x \in 0..n - 1 /\ x + 1 \in 0..n - 1 /\ x < n - 1
    BY <1>2
  <2>2. Next(x) = v[x + 1]
    BY Zenon, <1>10, <2>1
  <2>. QED
    BY Zenon, <1>12, <2>1, <2>2
<1>14. 0 \in 0..n - 1 /\ n - 1 \in 0..n - 1 /\ ~(n - 1 < n - 1)
  BY <1>2
<1>15. v[0] = pages[0]
  BY Zenon, <1>9, <1>10, <1>14
<1>16. Goes(Linked(m, TlbLinks), v[n - 1], v[0])
  <2>1. Next(n - 1) = v[0]
    BY Zenon, <1>14, <1>15
  <2>. QED
    BY Zenon, <1>12, <1>14, <2>1
<1>17. \A x, y \in 0..n - 1 : v[x] = v[y] => x = y
  BY Zenon, <1>8, <1>10
<1>18. Circle(Linked(m, TlbLinks), v[0], n, S)
  BY <1>2, <1>11, <1>13, <1>16, <1>17, LineCircle
<1>. QED
  BY Zenon, <1>15, <1>18 DEF n

LEMMA ModApart ==
  ASSUME NEW n \in Nat \ {0}, NEW i \in Nat, NEW j \in 0..n - 1,
         NEW l \in 0..n - 1, (i + j) % n = (i + l) % n
  PROVE  j = l
<1>. DEFINE a == i + j
            c == i + l
            s == a \div n
            t == c \div n
            r == a % n
<1>1. a \in Nat /\ c \in Nat
  OBVIOUS
<1>2. /\ s \in Nat /\ a = n * s + r /\ r \in 0..n - 1
      /\ t \in Nat /\ c = n * t + r
  <2>. HIDE DEF a, c
  <2>1. s \in Nat /\ a = n * s + r /\ r \in 0..n - 1
    BY <1>1, Euclid
  <2>2. t \in Nat /\ c = n * t + (c % n)
    BY <1>1, Euclid
  <2>. QED
    BY Zenon, <2>1, <2>2 DEF a, c
<1>. DEFINE x == n * s
            y == n * t
<1>3. x \in Int /\ y \in Int
  BY <1>2, Rows
<1>4. (s < t => x + n <= y) /\ (t < s => y + n <= x)
  BY <1>2, Rows
<1>5. i + j = x + r /\ i + l = y + r
  BY Zenon, <1>2
<1>. HIDE DEF a, c, s, t, r, x, y
<1>6. ~(s < t) /\ ~(t < s)
  BY <1>2, <1>3, <1>4, <1>5
<1>7. s = t
  BY <1>2, <1>6
<1>8. x = y
  BY Zenon, <1>7 DEF x, y
<1>. QED
  BY <1>2, <1>3, <1>5, <1>8

LEMMA ModSmall ==
  ASSUME NEW n \in Nat \ {0}, NEW i \in Nat
  PROVE  i % n \in 0..n - 1 /\ (i < n => i % n = i)
OBVIOUS

LEMMA ThrashCircle ==
  ASSUME layout \in Layouts, pages \in Orders(layout), PowerOfTwo(NLines),
         NEW m
  PROVE  \E S : Circle(Linked(m, ThrashLinks), pages[0], NPages * NLines, S)
<1>. DEFINE N == NLines
            P == NPages
            at(i, j) == pages[i] + LineAt((i + j) % N)
            Next(i, j) == IF i < P - 1 THEN at(i + 1, j)
                          ELSE pages[0] + LineAt((j + 1) % N)
            To(i, j) == IF i < P - 1 THEN pages[i + 1] + LineAt((i + j + 1) % N)
                        ELSE pages[0] + LineAt((j + 1) % N)
            v == [j \in 0..N - 1 |-> [i \in 0..P - 1 |-> at(i, j)]]
            S == {v[j][i] : j \in 0..N - 1, i \in 0..P - 1}
            M == Linked(m, ThrashLinks)
<1>1. layout.line \in Nat \ {0} /\ layout.page \in Nat \ {0}
  BY LayoutFacts
<1>2. N \in Nat \ {0}
  <2>1. N \in Nat
    BY <1>1, Euclid DEF NLines
  <2>. QED
    BY <2>1, NBitsOfPower
<1>3. P \in Nat \ {0} /\ \A i \in 0..P - 1 : pages[i] \in Nat
  BY PageFacts
<1>4. LineAt(0) = 0 /\ \A j \in Nat : LineAt(j) \in Nat
  BY <1>2, LineFacts
<1>5. ThrashLinks = {<<at(i, j), To(i, j)>> : i \in 0..P - 1, j \in 0..N - 1}
  BY DEF ThrashLinks
<1>6. ASSUME NEW i \in 0..P - 1, NEW h \in 0..P - 1,
             NEW j \in 0..N - 1, NEW l \in 0..N - 1, at(i, j) = at(h, l)
      PROVE  i = h /\ j = l
  <2>. DEFINE x == (i + j) % N
              y == (h + l) % N
  <2>1. x \in 0..N - 1 /\ y \in 0..N - 1 /\ i \in Nat /\ h \in Nat
    <3>1. i \in Nat /\ h \in Nat /\ i + j \in Nat /\ h + l \in Nat
      BY <1>2, <1>3
    <3>2. N \in Nat \ {0}
      BY <1>2
    <3>. HIDE DEF N
    <3>3. x \in 0..N - 1
      BY Zenon, <3>1, <3>2, ModSmall
    <3>4. y \in 0..N - 1
      BY Zenon, <3>1, <3>2, ModSmall
    <3>. QED
      BY Zenon, <3>1, <3>3, <3>4
  <2>2. LineAt(x) \in Nat /\ LineAt(y) \in Nat /\ pages[i] \in Nat /\ pages[h] \in Nat
    BY <1>2, <1>3, <1>4, <2>1
  <2>3. pages[i] + LineAt(x) = pages[h] + LineAt(y)
    BY Zenon, <1>6
  <2>. HIDE DEF x, y
  <2>4. pages[i] + LineAt(x) + 0 = pages[h] + LineAt(y) + 0
    BY <2>2, <2>3
  <2>5. 0 \in 0..layout.line - 1
    BY <1>1
  <2>6. i \in 0..NPages - 1 /\ h \in 0..NPages - 1 /\ x \in 0..NLines - 1
        /\ y \in 0..NLines - 1
    BY <2>1
  <2>7. i = h /\ x = y
    BY <2>4, <2>5, <2>6, AddressApart
  <2>8. (i + j) % N = (i + l) % N
    BY Zenon, <2>7 DEF x, y
  <2>. HIDE DEF N
  <2>9. j = l
    BY <1>2, <2>1, <2>8, ModApart
  <2>. QED
    BY <2>7, <2>9
<1>. HIDE DEF N, P
<1>7. \A i \in 0..P - 1 : i \in Nat /\ (i < P - 1 => i + 1 \in 0..P - 1)
  BY <1>3
<1>8. ASSUME NEW i \in 0..P - 1, NEW j \in 0..N - 1
      PROVE  Goes(M, at(i, j), Next(i, j))
  <2>. HIDE DEF at
  <2>1. <<at(i, j), To(i, j)>> \in ThrashLinks
    BY <1>5
  <2>2. \A y \in ThrashLinks : y[1] = at(i, j) => y[2] = To(i, j)
    <3>. HIDE DEF To
    <3>. SUFFICES ASSUME NEW h \in 0..P - 1, NEW l \in 0..N - 1,
                         at(h, l) = at(i, j)
                  PROVE  To(h, l) = To(i, j)
      BY <1>5
    <3>1. h = i /\ l = j
      BY <1>6
    <3>. QED
      BY Zenon, <3>1
  <2>3. Goes(M, at(i, j), To(i, j))
    <3>. HIDE DEF To
    <3>. QED
      BY Zenon, <2>1, <2>2, LinkedAt
  <2>4. To(i, j) = Next(i, j)
    <3>1. (i + 1) + j = i + j + 1
      BY <1>2, <1>3
    <3>2. at(i + 1, j) = pages[i + 1] + LineAt((i + j + 1) % N)
      BY Zenon, <3>1 DEF at
    <3>. QED
      BY Zenon, <3>2
  <2>. HIDE DEF To, Next
  <2>. QED
    BY Zenon, <2>3, <2>4
<1>9. \A j \in 0..N - 1 : at(0, j) = pages[0] + LineAt(j)
  <2>. TAKE j \in 0..N - 1
  <2>1. (0 + j) % N = j
    BY <1>2
  <2>. QED
    BY Zenon, <2>1
<1>10. \A j \in 0..N - 1 : \A i \in 0..P - 1 : v[j][i] = at(i, j)
  OBVIOUS
<1>11. /\ \A j \in 0..N - 1 : \A i \in 0..P - 1 : v[j][i] \in S
       /\ \A a \in S : \E j \in 0..N - 1 : \E i \in 0..P - 1 : a = v[j][i]
  OBVIOUS
<1>. HIDE DEF at, v, S
<1>12. \A k, l \in 0..N - 1 : \A x, y \in 0..P - 1 :
          v[k][x] = v[l][y] => k = l /\ x = y
  BY <1>6, <1>10
<1>13. \A k \in 0..N - 1 : \A x \in 0..P - 2 : Goes(M, v[k][x], v[k][x + 1])
  <2>. SUFFICES ASSUME NEW k \in 0..N - 1, NEW x \in 0..P - 2
                PROVE  Goes(M, v[k][x], v[k][x + 1])
    OBVIOUS
  <2>1. x \in 0..P - 1 /\ x + 1 \in 0..P - 1 /\ x < P - 1
    BY <1>3
  <2>2. Next(x, k) = v[k][x + 1]
    BY Zenon, <1>10, <2>1
  <2>3. Goes(M, at(x, k), Next(x, k))
    BY Zenon, <1>8, <2>1
  <2>4. at(x, k) = v[k][x]
    BY Zenon, <1>10, <2>1
  <2>. HIDE DEF Next
  <2>. QED
    BY Zenon, <2>2, <2>3, <2>4
<1>14. \A k \in 0..N - 1 :
          Goes(M, v[k][P - 1], v[IF k = N - 1 THEN 0 ELSE k + 1][0])
  <2>. SUFFICES ASSUME NEW k \in 0..N - 1
                PROVE  Goes(M, v[k][P - 1], v[IF k = N - 1 THEN 0 ELSE k + 1][0])
    OBVIOUS
  <2>. DEFINE l == IF k = N - 1 THEN 0 ELSE k + 1
  <2>1. P - 1 \in 0..P - 1 /\ 0 \in 0..P - 1 /\ ~(P - 1 < P - 1)
    BY <1>3
  <2>2. l \in 0..N - 1 /\ (k + 1) % N = l
    <3>1. CASE k = N - 1
      <4>1. k + 1 = N /\ N % N = 0
        BY <1>2, <3>1
      <4>2. (k + 1) % N = 0
        BY Zenon, <4>1
      <4>. QED
        BY <1>2, <3>1, <4>2
    <3>2. CASE k # N - 1
      <4>1. k + 1 \in 0..N - 1
        BY <1>2, <3>2
      <4>2. (k + 1) % N = k + 1
        BY <1>2, <4>1
      <4>. QED
        BY Zenon, <3>2, <4>1, <4>2
    <3>. QED
      BY Zenon, <3>1, <3>2
  <2>. HIDE DEF l
  <2>3. Next(P - 1, k) = pages[0] + LineAt((k + 1) % N)
    BY Zenon, <2>1
  <2>4. v[l][0] = pages[0] + LineAt(l)
    BY Zenon, <1>9, <1>10, <2>1, <2>2
  <2>5. Next(P - 1, k) = v[l][0]
    BY Zenon, <2>2, <2>3, <2>4
  <2>6. Goes(M, at(P - 1, k), Next(P - 1, k)) /\ at(P - 1, k) = v[k][P - 1]
    BY Zenon, <1>8, <1>10, <2>1
  <2>. HIDE DEF Next
  <2>. QED
    BY Zenon, <2>5, <2>6 DEF l
<1>. HIDE DEF M
<1>15. Circle(M, v[0][0], N * P, S)
  BY <1>2, <1>3, <1>11, <1>12, <1>13, <1>14, GridCircle
<1>16. v[0][0] = pages[0]
  <2>1. 0 \in 0..N - 1 /\ 0 \in 0..P - 1 /\ pages[0] \in Nat
    BY <1>2, <1>3
  <2>2. v[0][0] = pages[0] + LineAt(0)
    BY Zenon, <1>9, <1>10, <2>1
  <2>. QED
    BY <1>4, <2>1, <2>2
<1>17. N * P = P * N
  BY <1>2, <1>3
<1>18. Circle(M, pages[0], P * N, S)
  BY <1>15, <1>16, <1>17
<1>. QED
  BY Zenon, <1>18 DEF M, N, P

LEMMA PartCircle ==
  ASSUME layout \in Layouts, layout.kind = "thrash", PowerOfTwo(NPointers),
         NEW m
  PROVE  \E S : Circle(Linked(m, ThrashPartLinks), 0, NPointers, S)
<1>. DEFINE b == layout.line
            n == NPointers
            w(i) == Word(n, b, i)
            last(a) == CHOOSE i \in 0..n - 1 :
                          w(i) = a /\ \A j \in i + 1..n - 1 : w(j) # a
            To(a) == IF last(a) = n - 1 THEN 0 ELSE w(last(a) + 1)
            v == [x \in 0..n - 1 |-> w(x)]
            S == {v[x] : x \in 0..n - 1}
            M == Linked(m, ThrashPartLinks)
<1>1. b \in Nat \ {0} /\ layout.len \in Nat \ {0}
  BY LayoutFacts
<1>2. n \in Nat \ {0}
  <2>1. n \in Nat
    BY <1>1, Euclid DEF NPointers
  <2>. QED
    BY <2>1, NBitsOfPower
<1>3. ThrashPartLinks = {<<a, To(a)>> : a \in {w(i) : i \in 0..n - 1}}
  BY DEF ThrashPartLinks
<1>4. \A i : w(i) = b * Turned(n, i)
  BY DEF Word, Turned
<1>5. ASSUME NEW i \in 0..n - 1, NEW j \in 0..n - 1, w(i) = w(j)
      PROVE  i = j
  <2>. DEFINE x == Turned(n, i)
              y == Turned(n, j)
  <2>1. b * x = b * y
    BY Zenon, <1>4, <1>5
  <2>2. x \in 0..n - 1 /\ y \in 0..n - 1
    BY <1>2, TurnedIn
  <2>3. x \in Int /\ y \in Int /\ 0 \in 0..b - 1
    BY <1>1, <1>2, <2>2
  <2>. HIDE DEF x, y
  <2>4. b * x + 0 = b * y + 0
    BY <2>1
  <2>5. x = y
    BY <1>1, <2>3, <2>4, RowUnique
  <2>6. PowerOfTwo(n)
    OBVIOUS
  <2>7. Turned(n, i) = Turned(n, j)
    BY Zenon, <2>5 DEF x, y
  <2>. HIDE DEF n
  <2>. QED
    BY <1>2, <2>6, <2>7, TurnedApart
<1>6. w(0) = 0
  <2>1. Turned(n, 0) = 0
    BY <1>2, TurnedZero
  <2>2. b * 0 = 0
    BY <1>1
  <2>. QED
    BY Zenon, <1>4, <2>1, <2>2
<1>. HIDE DEF n, w
<1>7. \A i \in 0..n - 1 : last(w(i)) = i
  <2>. TAKE i \in 0..n - 1
  <2>1. \A j \in i + 1..n - 1 : w(j) # w(i)
    <3>. TAKE j \in i + 1..n - 1
    <3>1. j \in 0..n - 1 /\ j # i
      BY <1>2
    <3>. QED
      BY Zenon, <1>5, <3>1
  <2>2. \A h \in 0..n - 1 :
           (w(h) = w(i) /\ \A j \in h + 1..n - 1 : w(j) # w(i)) => h = i
    BY Zenon, <1>5
  <2>. QED
    BY Zenon, <2>1, <2>2
<1>. HIDE DEF last
<1>8. \A i \in 0..n - 1 :
         To(w(i)) = IF i = n - 1 THEN 0 ELSE w(i + 1)
  BY Zenon, <1>7
<1>. HIDE DEF To
<1>9. \A i \in 0..n - 1 : Goes(M, w(i), To(w(i)))
  <2>. TAKE i \in 0..n - 1
  <2>1. <<w(i), To(w(i))>> \in ThrashPartLinks
    BY <1>3
  <2>2. \A y \in ThrashPartLinks : y[1] = w(i) => y[2] = To(w(i))
    BY <1>3
  <2>. QED
    BY Zenon, <2>1, <2>2, LinkedAt
<1>10. \A x \in 0..n - 1 : v[x] = w(x)
  OBVIOUS
<1>11. /\ \A x \in 0..n - 1 : v[x] \in S
       /\ \A a \in S : \E x \in 0..n - 1 : a = v[x]
  OBVIOUS
<1>. HIDE DEF v, S, M
<1>12. \A x, y \in 0..n - 1 : v[x] = v[y] => x = y
  BY Zenon, <1>5, <1>10
<1>13. 0 \in 0..n - 1 /\ n - 1 \in 0..n - 1
  BY <1>2
<1>14. v[0] = 0
  BY Zenon, <1>6, <1>10, <1>13
<1>15. \A x \in 0..n - 2 : Goes(M, v[x], v[x + 1])
  <2>. TAKE x \in 0..n - 2
  <2>1. x \in 0..n - 1 /\ x + 1 \in 0..n - 1 /\ x # n - 1
    BY <1>2
  <2>2. To(w(x)) = v[x + 1]
    BY Zenon, <1>8, <1>10, <2>1
  <2>. QED
    BY Zenon, <1>9, <1>10, <2>1, <2>2
<1>16. Goes(M, v[n - 1], v[0])
  <2>1. To(w(n - 1)) = v[0]
    BY Zenon, <1>8, <1>13, <1>14
  <2>. QED
    BY Zenon, <1>9, <1>10, <1>13, <2>1
<1>17. Circle(M, v[0], n, S)
  BY <1>2, <1>11, <1>12, <1>15, <1>16, LineCircle
<1>. QED
  BY Zenon, <1>14, <1>17 DEF M, n

-----------------------------------------------------------------------------
(* The chains of line.                                                     *)

\* The first n lines of each page are in the chain.
NextPage(i) == IF i = NPages - 1 THEN 0 ELSE i + 1
LinePlace(i, j) == pages[i] + LineAt(j)
Onward(i, j, n) == IF j = NLines - 1 \/ j = n - 1 THEN LinePlace(NextPage(i), 0)
                   ELSE LinePlace(i, j + 1)
LinesGo(m, n) == \A i \in 0..NPages - 1 : \A j \in 0..NLines - 1 :
                    Goes(m, LinePlace(i, j), Onward(i, j, n))
LinePlaces(n) == {LinePlace(i, j) : i \in 0..NPages - 1, j \in 0..n - 1}

LEMMA PlaceFacts ==
  ASSUME layout \in Layouts, pages \in Orders(layout), PowerOfTwo(NLines)
  PROVE  /\ NLines \in Nat \ {0} /\ NPages \in Nat \ {0}
         /\ LineAt(0) = 0 /\ LinePlace(0, 0) = pages[0]
         /\ \A i, h \in 0..NPages - 1 : \A j, l \in 0..NLines - 1 :
               LinePlace(i, j) = LinePlace(h, l) => i = h /\ j = l
         /\ \A i \in 0..NPages - 1 : \A j \in Nat :
               pages[i] \in Nat /\ LineAt(j) \in Nat /\ LinePlace(i, j) \in Nat
         /\ \A i \in 0..NPages - 1 : NextPage(i) \in 0..NPages - 1
<1>1. layout.line \in Nat \ {0} /\ layout.page \in Nat \ {0}
  BY LayoutFacts
<1>2. NLines \in Nat \ {0}
  <2>1. NLines \in Nat
    BY <1>1, Euclid DEF NLines
  <2>. QED
    BY <2>1, NBitsOfPower
<1>3. NPages \in Nat \ {0} /\ \A i \in 0..NPages - 1 : pages[i] \in Nat
  BY PageFacts
<1>4. LineAt(0) = 0 /\ \A j \in Nat : LineAt(j) \in Nat
  BY <1>2, LineFacts
<1>5. LinePlace(0, 0) = pages[0]
  BY <1>3, <1>4 DEF LinePlace
<1>6. ASSUME NEW i \in 0..NPages - 1, NEW h \in 0..NPages - 1,
             NEW j \in 0..NLines - 1, NEW l \in 0..NLines - 1,
             LinePlace(i, j) = LinePlace(h, l)
      PROVE  i = h /\ j = l
  <2>1. pages[i] \in Nat /\ pages[h] \in Nat /\ j \in Nat /\ l \in Nat
    BY <1>2, <1>3
  <2>2. LineAt(j) \in Nat /\ LineAt(l) \in Nat
    BY <1>4, <2>1
  <2>3. pages[i] + LineAt(j) + 0 = pages[h] + LineAt(l) + 0
    BY <1>6, <2>1, <2>2 DEF LinePlace
  <2>4. 0 \in 0..layout.line - 1
    BY <1>1
  <2>. QED
    BY <2>3, <2>4, AddressApart
<1>7. ASSUME NEW i \in 0..NPages - 1, NEW j \in Nat
      PROVE  pages[i] \in Nat /\ LineAt(j) \in Nat /\ LinePlace(i, j) \in Nat
  BY <1>3, <1>4 DEF LinePlace
<1>8. \A i \in 0..NPages - 1 : NextPage(i) \in 0..NPages - 1
  BY <1>3 DEF NextPage
<1>. QED
  BY Zenon, <1>2, <1>3, <1>4, <1>5, <1>6, <1>7, <1>8

LEMMA LinesCircle ==
  ASSUME layout \in Layouts, pages \in Orders(layout), PowerOfTwo(NLines),
         NEW m, NEW n \in 1..NLines, LinesGo(m, n)
  PROVE  Circle(m, pages[0], NPages * n, LinePlaces(n))
<1>. DEFINE v == [i \in 0..NPages - 1 |-> [j \in 0..n - 1 |-> LinePlace(i, j)]]
            P == NPages
            N == NLines
            S == LinePlaces(n)
<1>1. /\ N \in Nat \ {0} /\ P \in Nat \ {0}
      /\ LinePlace(0, 0) = pages[0]
      /\ \A i \in 0..P - 1 : NextPage(i) \in 0..P - 1
  BY Zenon, PlaceFacts
<1>2. \A i, h \in 0..P - 1 : \A j, l \in 0..N - 1 :
         LinePlace(i, j) = LinePlace(h, l) => i = h /\ j = l
  BY PlaceFacts
<1>3. \A i \in 0..P - 1 : \A j \in 0..N - 1 :
         Goes(m, LinePlace(i, j), Onward(i, j, n))
  BY DEF LinesGo
<1>4. \A i \in 0..P - 1 : \A j \in 0..n - 1 : v[i][j] = LinePlace(i, j)
  OBVIOUS
<1>5. /\ \A i \in 0..P - 1 : \A j \in 0..n - 1 : v[i][j] \in S
      /\ \A a \in S : \E i \in 0..P - 1 : \E j \in 0..n - 1 : a = v[i][j]
  BY DEF LinePlaces
<1>6. n \in Nat \ {0} /\ n <= N /\ \A j \in 0..n - 1 : j \in 0..N - 1
  BY <1>1
<1>7. \A i \in 0..P - 1 : NextPage(i) = IF i = P - 1 THEN 0 ELSE i + 1
  BY DEF NextPage
<1>8. \A i, j : Onward(i, j, n) =
                   IF j = N - 1 \/ j = n - 1 THEN LinePlace(NextPage(i), 0)
                   ELSE LinePlace(i, j + 1)
  BY DEF Onward
<1>. HIDE DEF v, P, N, S
<1>9. \A k, l \in 0..P - 1 : \A x, y \in 0..n - 1 :
         v[k][x] = v[l][y] => k = l /\ x = y
  BY <1>2, <1>4, <1>6
<1>10. \A k \in 0..P - 1 : \A x \in 0..n - 2 : Goes(m, v[k][x], v[k][x + 1])
  <2>. SUFFICES ASSUME NEW k \in 0..P - 1, NEW x \in 0..n - 2
                PROVE  Goes(m, v[k][x], v[k][x + 1])
    OBVIOUS
  <2>1. /\ x \in 0..n - 1 /\ x + 1 \in 0..n - 1 /\ x \in 0..N - 1
        /\ x # N - 1 /\ x # n - 1
    BY <1>1, <1>6
  <2>2. Onward(k, x, n) = LinePlace(k, x + 1)
    BY Zenon, <1>8, <2>1
  <2>. QED
    BY Zenon, <1>3, <1>4, <2>1, <2>2
<1>11. \A k \in 0..P - 1 :
          Goes(m, v[k][n - 1], v[IF k = P - 1 THEN 0 ELSE k + 1][0])
  <2>. SUFFICES ASSUME NEW k \in 0..P - 1
                PROVE  Goes(m, v[k][n - 1], v[IF k = P - 1 THEN 0 ELSE k + 1][0])
    OBVIOUS
  <2>. DEFINE l == IF k = P - 1 THEN 0 ELSE k + 1
  <2>1. n - 1 \in 0..n - 1 /\ n - 1 \in 0..N - 1 /\ 0 \in 0..n - 1
    BY <1>1, <1>6
  <2>2. NextPage(k) = l /\ l \in 0..P - 1
    BY Zenon, <1>1, <1>7
  <2>. HIDE DEF l
  <2>3. Onward(k, n - 1, n) = v[l][0]
    BY Zenon, <1>4, <1>8, <2>1, <2>2
  <2>4. Goes(m, v[k][n - 1], v[l][0])
    BY Zenon, <1>3, <1>4, <2>1, <2>3
  <2>. QED
    BY Zenon, <2>4 DEF l
<1>12. Circle(m, v[0][0], P * n, S)
  BY <1>1, <1>5, <1>6, <1>9, <1>10, <1>11, GridCircle
<1>13. v[0][0] = pages[0]
  <2>1. 0 \in 0..P - 1 /\ 0 \in 0..n - 1
    BY <1>1, <1>6
  <2>. QED
    BY Zenon, <1>1, <1>4, <2>1
<1>. QED
  BY Zenon, <1>12, <1>13 DEF P, S

LEMMA LineLinked ==
  ASSUME layout \in Layouts, pages \in Orders(layout), PowerOfTwo(NLines),
         NEW m
  PROVE  LinesGo(Linked(m, LineLinks), NLines)
<1>. DEFINE P == NPages
            N == NLines
            M == Linked(m, LineLinks)
            To(i, j) == IF j < N - 1 THEN LinePlace(i, j + 1)
                        ELSE pages[IF i < P - 1 THEN i + 1 ELSE 0] + LineAt(0)
<1>1. N \in Nat \ {0} /\ P \in Nat \ {0}
  BY Zenon, PlaceFacts
<1>2. \A i, h \in 0..P - 1 : \A j, l \in 0..N - 1 :
         LinePlace(i, j) = LinePlace(h, l) => i = h /\ j = l
  BY PlaceFacts
<1>3. LineLinks = {<<LinePlace(i, j), To(i, j)>> : i \in 0..P - 1, j \in 0..N - 1}
  BY DEF LineLinks, LinePlace
<1>. HIDE DEF P, N
<1>4. ASSUME NEW i \in 0..P - 1, NEW j \in 0..N - 1
      PROVE  Goes(M, LinePlace(i, j), Onward(i, j, N))
  <2>1. To(i, j) = Onward(i, j, N)
    <3>1. i < P - 1 <=> i # P - 1
      BY <1>1
    <3>2. j < N - 1 <=> j # N - 1
      BY <1>1
    <3>3. pages[IF i < P - 1 THEN i + 1 ELSE 0] + LineAt(0) =
             LinePlace(NextPage(i), 0)
      BY Zenon, <3>1 DEF LinePlace, NextPage, P
    <3>. QED
      BY Zenon, <3>2, <3>3 DEF Onward, N
  <2>. HIDE DEF To
  <2>2. <<LinePlace(i, j), To(i, j)>> \in LineLinks
    BY <1>3
  <2>3. \A y \in LineLinks : y[1] = LinePlace(i, j) => y[2] = To(i, j)
    <3>. SUFFICES ASSUME NEW h \in 0..P - 1, NEW l \in 0..N - 1,
                         LinePlace(h, l) = LinePlace(i, j)
                  PROVE  To(h, l) = To(i, j)
      BY <1>3
    <3>1. h = i /\ l = j
      BY <1>2
    <3>. QED
      BY Zenon, <3>1
  <2>. QED
    BY Zenon, <2>1, <2>2, <2>3, LinkedAt
<1>. QED
  BY Zenon, <1>4 DEF LinesGo, P, N

\* What line_test() changes and gives back.
LEMMA LineNarrowed ==
  ASSUME layout \in Layouts, pages \in Orders(layout), PowerOfTwo(NLines),
         NEW m, NEW n \in 1..NLines, LinesGo(m, NLines)
  PROVE  LinesGo(Linked(m, {<<pages[i] + LineAt(n - 1),
                              pages[(i + 1) % NPages] + LineAt(0)>> :
                              i \in 0..NPages - 1}), n)
<1>. DEFINE P == NPages
            N == NLines
            pairs == {<<pages[i] + LineAt(n - 1),
                        pages[(i + 1) % NPages] + LineAt(0)>> :
                        i \in 0..NPages - 1}
            M == Linked(m, pairs)
            To(i) == pages[(i + 1) % P] + LineAt(0)
<1>1. N \in Nat \ {0} /\ P \in Nat \ {0}
  BY Zenon, PlaceFacts
<1>2. \A i, h \in 0..P - 1 : \A j, l \in 0..N - 1 :
         LinePlace(i, j) = LinePlace(h, l) => i = h /\ j = l
  BY PlaceFacts
<1>3. pairs = {<<LinePlace(i, n - 1), To(i)>> : i \in 0..P - 1}
  BY DEF LinePlace
<1>4. \A i \in 0..P - 1 : \A j \in 0..N - 1 :
         Goes(m, LinePlace(i, j), Onward(i, j, N))
  BY DEF LinesGo
<1>5. n - 1 \in 0..N - 1
  BY <1>1
<1>6. \A i \in 0..P - 1 : (i + 1) % P = IF i = P - 1 THEN 0 ELSE i + 1
  <2>. HIDE DEF P
  <2>. TAKE i \in 0..P - 1
  <2>1. CASE i = P - 1
    <3>1. i + 1 = P /\ P % P = 0
      BY <1>1, <2>1
    <3>. QED
      BY Zenon, <2>1, <3>1
  <2>2. CASE i # P - 1
    <3>1. i + 1 \in 0..P - 1
      BY <1>1, <2>2
    <3>2. (i + 1) % P = i + 1
      BY <1>1, <3>1
    <3>. QED
      BY Zenon, <2>2, <3>2
  <2>. QED
    BY Zenon, <2>1, <2>2
<1>7. \A i \in 0..P - 1 : To(i) = LinePlace(NextPage(i), 0)
  BY Zenon, <1>6 DEF LinePlace, NextPage
<1>. HIDE DEF P, N, pairs, To
<1>8. ASSUME NEW i \in 0..P - 1, NEW j \in 0..N - 1
      PROVE  Goes(M, LinePlace(i, j), Onward(i, j, n))
  <2>1. CASE j = n - 1
    <3>1. <<LinePlace(i, j), To(i)>> \in pairs
      BY <1>3, <2>1
    <3>2. \A y \in pairs : y[1] = LinePlace(i, j) => y[2] = To(i)
      <4>. SUFFICES ASSUME NEW h \in 0..P - 1, LinePlace(h, n - 1) = LinePlace(i, j)
                    PROVE  To(h) = To(i)
        BY <1>3
      <4>1. h = i
        BY <1>2, <1>5
      <4>. QED
        BY Zenon, <4>1
    <3>3. Goes(M, LinePlace(i, j), To(i))
      BY Zenon, <3>1, <3>2, LinkedAt
    <3>4. To(i) = Onward(i, j, n)
      BY Zenon, <1>7, <2>1 DEF Onward
    <3>. QED
      BY Zenon, <3>3, <3>4
  <2>2. CASE j # n - 1
    <3>1. \A y \in pairs : y[1] # LinePlace(i, j)
      <4>. SUFFICES ASSUME NEW h \in 0..P - 1, LinePlace(h, n - 1) = LinePlace(i, j)
                    PROVE  FALSE
        BY <1>3
      <4>. QED
        BY <1>2, <1>5, <2>2
    <3>2. Goes(m, LinePlace(i, j), Onward(i, j, N))
      BY Zenon, <1>4
    <3>3. Onward(i, j, N) = Onward(i, j, n)
      BY <2>2 DEF Onward, N
    <3>4. Goes(m, LinePlace(i, j), Onward(i, j, n))
      BY Zenon, <3>2, <3>3
    <3>. QED
      BY Zenon, <3>1, <3>4, LinkedElse
  <2>. QED
    BY Zenon, <2>1, <2>2
<1>9. LinesGo(M, n)
  BY Zenon, <1>8 DEF LinesGo, P, N
<1>. QED
  BY Zenon, <1>9 DEF pairs

LEMMA LineWidened ==
  ASSUME layout \in Layouts, pages \in Orders(layout), PowerOfTwo(NLines),
         NEW m, NEW n \in 1..NLines - 1, LinesGo(m, n)
  PROVE  LinesGo(Linked(m, {<<pages[i] + LineAt(n - 1), pages[i] + LineAt(n)>> :
                              i \in 0..NPages - 1}), NLines)
<1>. DEFINE P == NPages
            N == NLines
            pairs == {<<pages[i] + LineAt(n - 1), pages[i] + LineAt(n)>> :
                        i \in 0..NPages - 1}
            M == Linked(m, pairs)
<1>1. N \in Nat \ {0} /\ P \in Nat \ {0}
  BY Zenon, PlaceFacts
<1>2. \A i, h \in 0..P - 1 : \A j, l \in 0..N - 1 :
         LinePlace(i, j) = LinePlace(h, l) => i = h /\ j = l
  BY PlaceFacts
<1>3. pairs = {<<LinePlace(i, n - 1), LinePlace(i, n)>> : i \in 0..P - 1}
  BY DEF LinePlace
<1>4. \A i \in 0..P - 1 : \A j \in 0..N - 1 :
         Goes(m, LinePlace(i, j), Onward(i, j, n))
  BY DEF LinesGo
<1>5. n - 1 \in 0..N - 1 /\ n - 1 # N - 1 /\ (n - 1) + 1 = n
  BY <1>1
<1>. HIDE DEF P, N, pairs
<1>8. ASSUME NEW i \in 0..P - 1, NEW j \in 0..N - 1
      PROVE  Goes(M, LinePlace(i, j), Onward(i, j, N))
  <2>1. CASE j = n - 1
    <3>1. <<LinePlace(i, j), LinePlace(i, n)>> \in pairs
      BY <1>3, <2>1
    <3>2. \A y \in pairs : y[1] = LinePlace(i, j) => y[2] = LinePlace(i, n)
      <4>. SUFFICES ASSUME NEW h \in 0..P - 1, LinePlace(h, n - 1) = LinePlace(i, j)
                    PROVE  LinePlace(h, n) = LinePlace(i, n)
        BY <1>3
      <4>1. h = i
        BY <1>2, <1>5
      <4>. QED
        BY Zenon, <4>1
    <3>3. Goes(M, LinePlace(i, j), LinePlace(i, n))
      BY Zenon, <3>1, <3>2, LinkedAt
    <3>4. LinePlace(i, n) = Onward(i, j, N)
      <4>1. j # N - 1 /\ j + 1 = n
        BY <1>5, <2>1
      <4>. QED
        BY Zenon, <4>1 DEF Onward, N
    <3>. QED
      BY Zenon, <3>3, <3>4
  <2>2. CASE j # n - 1
    <3>1. \A y \in pairs : y[1] # LinePlace(i, j)
      <4>. SUFFICES ASSUME NEW h \in 0..P - 1, LinePlace(h, n - 1) = LinePlace(i, j)
                    PROVE  FALSE
        BY <1>3
      <4>. QED
        BY <1>2, <1>5, <2>2
    <3>2. Goes(m, LinePlace(i, j), Onward(i, j, n))
      BY Zenon, <1>4
    <3>3. Onward(i, j, N) = Onward(i, j, n)
      BY <2>2 DEF Onward, N
    <3>4. Goes(m, LinePlace(i, j), Onward(i, j, N))
      BY Zenon, <3>2, <3>3
    <3>. QED
      BY Zenon, <3>1, <3>4, LinkedElse
  <2>. QED
    BY Zenon, <2>1, <2>2
<1>9. LinesGo(M, NLines)
  BY Zenon, <1>8 DEF LinesGo, P, N
<1>. QED
  BY Zenon, <1>9 DEF pairs

-----------------------------------------------------------------------------
(* The chains of mem_initialize().                                         *)

Cell(i, j, k) == pages[i] + LineAt(j) + WordAt(k)

LEMMA WordFacts ==
  ASSUME layout \in Layouts
  PROVE  /\ NWords \in Nat \ {0} /\ NWords = layout.line /\ WordAt(0) = 0
         /\ \A k \in Nat : WordAt(k) \in 0..NWords - 1
         /\ PowerOfTwo(NWords) =>
               \A k, l \in 0..NWords - 1 : WordAt(k) = WordAt(l) => k = l
<1>. DEFINE n == NWords
<1>1. n \in Nat \ {0} /\ n = layout.line
  BY LayoutFacts DEF NWords
<1>2. \A k : WordAt(k) = 1 * Turned(n, k)
  BY DEF WordAt, Word, Turned
<1>. HIDE DEF n
<1>3. \A k \in Nat : Turned(n, k) \in 0..n - 1 /\ WordAt(k) = Turned(n, k)
  <2>. TAKE k \in Nat
  <2>. DEFINE t == Turned(n, k)
  <2>1. t \in 0..n - 1
    BY <1>1, TurnedIn
  <2>2. WordAt(k) = 1 * t
    BY <1>2
  <2>. HIDE DEF t
  <2>3. 1 * t = t
    BY <1>1, <2>1
  <2>. QED
    BY Zenon, <2>1, <2>2, <2>3 DEF t
<1>4. WordAt(0) = 0
  BY <1>1, <1>3, TurnedZero
<1>5. ASSUME PowerOfTwo(n), NEW k \in 0..n - 1, NEW l \in 0..n - 1,
             WordAt(k) = WordAt(l)
      PROVE  k = l
  <2>1. k \in Nat /\ l \in Nat
    BY <1>1
  <2>2. Turned(n, k) = Turned(n, l)
    BY Zenon, <1>3, <1>5, <2>1
  <2>. QED
    BY <1>1, <1>5, <2>2, TurnedApart
<1>6. PowerOfTwo(n) => \A k, l \in 0..n - 1 : WordAt(k) = WordAt(l) => k = l
  BY Zenon, <1>5
<1>. QED
  BY Zenon, <1>1, <1>3, <1>4, <1>6 DEF n

LEMMA CellApart ==
  ASSUME layout \in Layouts, pages \in Orders(layout), PowerOfTwo(NLines),
         PowerOfTwo(NWords),
         NEW i \in 0..NPages - 1, NEW h \in 0..NPages - 1,
         NEW j \in 0..NLines - 1, NEW l \in 0..NLines - 1,
         NEW k \in 0..NWords - 1, NEW z \in 0..NWords - 1,
         Cell(i, j, k) = Cell(h, l, z)
  PROVE  i = h /\ j = l /\ k = z
<1>1. NWords \in Nat \ {0} /\ NWords = layout.line
  BY WordFacts
<1>2. k \in Nat /\ z \in Nat
  BY <1>1
<1>3. WordAt(k) \in 0..layout.line - 1 /\ WordAt(z) \in 0..layout.line - 1
  BY <1>1, <1>2, WordFacts
<1>4. pages[i] + LineAt(j) + WordAt(k) = pages[h] + LineAt(l) + WordAt(z)
  BY Zenon DEF Cell
<1>5. i = h /\ j = l /\ WordAt(k) = WordAt(z)
  <2>. DEFINE w == WordAt(k)
              y == WordAt(z)
  <2>. HIDE DEF w, y
  <2>1. w \in 0..layout.line - 1 /\ y \in 0..layout.line - 1
    BY <1>3 DEF w, y
  <2>2. pages[i] + LineAt(j) + w = pages[h] + LineAt(l) + y
    BY Zenon, <1>4 DEF w, y
  <2>3. i = h /\ j = l /\ w = y
    BY <2>1, <2>2, AddressApart
  <2>. QED
    BY Zenon, <2>3 DEF w, y
<1>6. k = z
  BY Zenon, <1>5, WordFacts
<1>. QED
  BY Zenon, <1>5, <1>6

\* For each word of a line one round through the lines (a, b): page and line.
LEMMA WordRounds ==
  ASSUME layout \in Layouts, pages \in Orders(layout), PowerOfTwo(NLines),
         PowerOfTwo(NWords), NEW m, NEW Q, NEW C, Stairs(Q, C), NEW a, NEW b,
         \A g \in 0..Q - 1 : \A x \in Cells(C, g) :
            a[g][x] \in 0..NPages - 1 /\ b[g][x] \in 0..NLines - 1,
         \A g, h \in 0..Q - 1 : \A x \in Cells(C, g) : \A y \in Cells(C, h) :
            a[g][x] = a[h][y] /\ b[g][x] = b[h][y] => g = h /\ x = y,
         \A k \in 0..NWords - 1 : \A g \in 0..Q - 1 : \A x \in Cells(C, g) :
            x # LastCell(C, g) =>
               Goes(m, Cell(a[g][x], b[g][x], k),
                       Cell(a[g][x + 1], b[g][x + 1], k)),
         \A k \in 0..NWords - 1 : \A g \in 0..Q - 2 :
            Goes(m, Cell(a[g][LastCell(C, g)], b[g][LastCell(C, g)], k),
                    Cell(a[g + 1][0], b[g + 1][0], k)),
         \A k \in 0..NWords - 1 :
            Goes(m, Cell(a[Q - 1][LastCell(C, Q - 1)],
                         b[Q - 1][LastCell(C, Q - 1)], k),
                    Cell(a[0][0], b[0][0], NextWord(k))),
         NEW S,
         \A k \in 0..NWords - 1 : \A g \in 0..Q - 1 : \A x \in Cells(C, g) :
            Cell(a[g][x], b[g][x], k) \in S,
         \A c \in S : \E k \in 0..NWords - 1 : \E g \in 0..Q - 1 :
            \E x \in Cells(C, g) : c = Cell(a[g][x], b[g][x], k)
  PROVE  Circle(m, Cell(a[0][0], b[0][0], 0), NWords * C[Q], S)
<1>. DEFINE W == NWords
            T == C[Q]
            D == [k \in 0..W |-> k * T]
            u == [k \in 0..W - 1 |-> [g \in 0..Q - 1 |-> [x \in Cells(C, g) |->
                    Cell(a[g][x], b[g][x], k)]]]
<1>1. /\ Q \in Nat \ {0} /\ C \in [0..Q -> Nat] /\ C[0] = 0
      /\ \A g \in 0..Q - 1 : C[g] < C[g + 1]
  BY DEF Stairs
<1>2. W \in Nat \ {0} /\ T \in Nat \ {0}
  BY WordFacts, StairsCells
<1>3. Lapped(W, D, T) /\ D[W] = W * T
  <2>. HIDE DEF W, T
  <2>1. Stairs(W, D)
    BY <1>2, Lots
  <2>2. \A k \in 0..W - 1 : (k + 1) * T = k * T + T
    BY <1>2, Lots
  <2>3. W \in 0..W /\ \A k \in 0..W - 1 : k \in 0..W /\ k + 1 \in 0..W
    BY <1>2
  <2>4. D[W] = W * T /\ \A k \in 0..W - 1 : D[k + 1] = D[k] + T
    BY <2>2, <2>3
  <2>. HIDE DEF D
  <2>. QED
    BY Zenon, <2>1, <2>4 DEF Lapped
<1>4. \A k \in 0..W - 1 : \A g \in 0..Q - 1 : \A x \in Cells(C, g) :
         u[k][g][x] = Cell(a[g][x], b[g][x], k)
  OBVIOUS
<1>5. \A g \in 0..Q - 1 : /\ 0 \in Cells(C, g) /\ LastCell(C, g) \in Cells(C, g)
                          /\ \A x \in Cells(C, g) : x # LastCell(C, g) =>
                                x + 1 \in Cells(C, g)
  BY CellsOf
<1>6. /\ 0 \in 0..Q - 1 /\ Q - 1 \in 0..Q - 1
      /\ \A g \in 0..Q - 2 : g \in 0..Q - 1 /\ g + 1 \in 0..Q - 1
  BY <1>1
<1>. HIDE DEF u, D
<1>7. CellsApart(W, Q, C, u)
  <2>. SUFFICES ASSUME NEW k \in 0..W - 1, NEW l \in 0..W - 1,
                       NEW g \in 0..Q - 1, NEW h \in 0..Q - 1,
                       NEW x \in Cells(C, g), NEW y \in Cells(C, h),
                       u[k][g][x] = u[l][h][y]
                PROVE  k = l /\ g = h /\ x = y
    BY DEF CellsApart
  <2>1. Cell(a[g][x], b[g][x], k) = Cell(a[h][y], b[h][y], l)
    BY <1>4
  <2>. DEFINE i == a[g][x]
              j == b[g][x]
              r == a[h][y]
              s == b[h][y]
  <2>2. /\ i \in 0..NPages - 1 /\ j \in 0..NLines - 1
        /\ r \in 0..NPages - 1 /\ s \in 0..NLines - 1
    OBVIOUS
  <2>3. Cell(i, j, k) = Cell(r, s, l)
    BY Zenon, <2>1
  <2>4. k \in 0..NWords - 1 /\ l \in 0..NWords - 1
    OBVIOUS
  <2>. HIDE DEF i, j, r, s, W
  <2>5. i = r /\ j = s /\ k = l
    BY <2>2, <2>3, <2>4, CellApart
  <2>6. g = h /\ x = y
    BY <2>5 DEF i, j, r, s
  <2>. QED
    BY Zenon, <2>5, <2>6
<1>8. Within(m, W, Q, C, u)
  <2>. SUFFICES ASSUME NEW k \in 0..W - 1, NEW g \in 0..Q - 1,
                       NEW x \in Cells(C, g), x # LastCell(C, g)
                PROVE  Goes(m, u[k][g][x], u[k][g][x + 1])
    BY DEF Within
  <2>1. x + 1 \in Cells(C, g)
    BY Zenon, <1>5
  <2>2. Goes(m, Cell(a[g][x], b[g][x], k), Cell(a[g][x + 1], b[g][x + 1], k))
    OBVIOUS
  <2>. QED
    BY <1>4, <2>1, <2>2
<1>9. Across(m, W, Q, C, u)
  <2>. SUFFICES ASSUME NEW k \in 0..W - 1, NEW g \in 0..Q - 2
                PROVE  Goes(m, u[k][g][LastCell(C, g)], u[k][g + 1][0])
    BY DEF Across
  <2>1. g \in 0..Q - 1 /\ g + 1 \in 0..Q - 1
    BY Zenon, <1>6
  <2>2. Goes(m, Cell(a[g][LastCell(C, g)], b[g][LastCell(C, g)], k),
                Cell(a[g + 1][0], b[g + 1][0], k))
    OBVIOUS
  <2>. QED
    BY <1>4, <1>5, <2>1, <2>2
<1>10. Around(m, W, Q, C, u)
  <2>. SUFFICES ASSUME NEW k \in 0..W - 1
                PROVE  Goes(m, u[k][Q - 1][LastCell(C, Q - 1)],
                            u[IF k = W - 1 THEN 0 ELSE k + 1][0][0])
    BY DEF Around
  <2>. DEFINE l == IF k = W - 1 THEN 0 ELSE k + 1
  <2>1. l \in 0..W - 1
    <3>. HIDE DEF W
    <3>. QED
      BY <1>2
  <2>2. l = NextWord(k)
    BY Zenon DEF NextWord
  <2>3. Goes(m, Cell(a[Q - 1][LastCell(C, Q - 1)],
                     b[Q - 1][LastCell(C, Q - 1)], k),
                Cell(a[0][0], b[0][0], NextWord(k)))
    OBVIOUS
  <2>. HIDE DEF l
  <2>4. u[l][0][0] = Cell(a[0][0], b[0][0], l)
    BY Zenon, <1>4, <1>5, <1>6, <2>1
  <2>5. u[k][Q - 1][LastCell(C, Q - 1)] =
           Cell(a[Q - 1][LastCell(C, Q - 1)], b[Q - 1][LastCell(C, Q - 1)], k)
    <3>1. Q - 1 \in 0..Q - 1 /\ LastCell(C, Q - 1) \in Cells(C, Q - 1)
      BY Zenon, <1>5, <1>6
    <3>2. \A x \in Cells(C, Q - 1) :
             u[k][Q - 1][x] = Cell(a[Q - 1][x], b[Q - 1][x], k)
      BY Zenon, <1>4, <3>1
    <3>. QED
      BY Zenon, <3>1, <3>2
  <2>6. Goes(m, u[k][Q - 1][LastCell(C, Q - 1)], u[l][0][0])
    BY Zenon, <2>2, <2>3, <2>4, <2>5
  <2>. QED
    BY Zenon, <2>6 DEF l
<1>11. Fills(W, Q, C, u, S)
  <2>1. \A k \in 0..W - 1 : \A g \in 0..Q - 1 : \A x \in Cells(C, g) :
           u[k][g][x] \in S
    BY <1>4
  <2>2. ASSUME NEW c \in S
        PROVE  \E k \in 0..W - 1 : \E g \in 0..Q - 1 : \E x \in Cells(C, g) :
                  c = u[k][g][x]
    <3>1. PICK k \in 0..W - 1, g \in 0..Q - 1 : \E x \in Cells(C, g) :
                  c = Cell(a[g][x], b[g][x], k)
      OBVIOUS
    <3>2. PICK x \in Cells(C, g) : c = Cell(a[g][x], b[g][x], k)
      BY <3>1
    <3>3. c = u[k][g][x]
      BY Zenon, <1>4, <3>2
    <3>. QED
      BY <3>3
  <2>. QED
    BY Zenon, <2>1, <2>2 DEF Fills
<1>12. Circle(m, u[0][0][0], D[W], S)
  <2>1. Lapped(W, D, C[Q])
    BY <1>3
  <2>. HIDE DEF W
  <2>. QED
    BY <1>7, <1>8, <1>9, <1>10, <1>11, <2>1, SectionsCircle
<1>13. u[0][0][0] = Cell(a[0][0], b[0][0], 0)
  <2>1. 0 \in 0..W - 1
    <3>. HIDE DEF W
    <3>. QED
      BY <1>2
  <2>. QED
    BY Zenon, <1>4, <1>5, <1>6, <2>1
<1>. QED
  BY <1>3, <1>12, <1>13

\* The lines of page i, and those before it.
Before(i) == i + Lesser(i * (NLines - 1), NPointers - 1)

LEMMA LinesInIs ==
  ASSUME layout \in Layouts, layout.kind = "mem", NLines \in Nat \ {0}
  PROVE  /\ NPages \in Nat \ {0} /\ NPointers \in Nat \ {0}
         /\ \A i \in 0..NPages - 1 :
               LinesIn(i) \in 0..NLines - 1 /\ LinesIn(i) \in Nat
         /\ Stairs(NPages, [i \in 0..NPages |-> Before(i)])
         /\ \A i \in 0..NPages - 1 :
               /\ Before(i) \in Nat /\ Before(i + 1) \in Nat
               /\ Before(i + 1) = Before(i) + LinesIn(i) + 1
         /\ Before(NPages) = Lesser(NPointers + NPages - 1, NPages * NLines)
<1>1. /\ layout.line \in Nat \ {0} /\ layout.len \in Nat \ {0}
      /\ layout.page \in Nat \ {0} /\ 2 * layout.line <= layout.len
  BY LayoutsAssumption
<1>2. NPages \in Nat \ {0}
  BY <1>1, CeilDivIs DEF NPages
<1>3. NPointers \in Nat \ {0}
  <2>1. layout.line <= layout.len
    BY <1>1
  <2>2. layout.line \div layout.line <= NPointers
    BY <1>1, <2>1, DivGrows DEF NPointers
  <2>3. layout.line \div layout.line = 1
    <3>. DEFINE b == layout.line
    <3>. HIDE DEF b
    <3>1. b \in Nat \ {0}
      BY <1>1 DEF b
    <3>2. b * 1 <= b /\ b < b * 1 + b /\ b \in Nat /\ 1 \in Int
      BY <3>1
    <3>3. b \div b = 1
      BY <3>1, <3>2, DivBetween
    <3>. QED
      BY <3>3 DEF b
  <2>4. NPointers \in Nat
    BY <1>1, Euclid DEF NPointers
  <2>. QED
    BY <2>2, <2>3, <2>4
<1>. DEFINE d == NLines - 1
            e == NPointers - 1
            P == NPages
            C == [i \in 0..P |-> Before(i)]
<1>4. d \in Nat /\ e \in Nat
  BY <1>3
<1>5. \A i : /\ Before(i) = i + Lesser(i * d, e)
             /\ LinesIn(i) = LET left == NPointers - (1 + i * d)
                             IN  IF left < 0 THEN 0 ELSE Lesser(d, left)
  BY DEF Before, LinesIn
<1>6. NPointers = e + 1
  BY <1>3
<1>. HIDE DEF d, e, P
<1>7. ASSUME NEW i \in Nat
      PROVE  /\ LinesIn(i) \in 0..d /\ LinesIn(i) \in Nat
             /\ Before(i) \in Nat /\ Before(i + 1) \in Nat
             /\ Before(i + 1) = Before(i) + LinesIn(i) + 1
  <2>. DEFINE x == i * d
              y == (i + 1) * d
  <2>1. x \in Nat /\ y = x + d
    BY <1>4
  <2>2. /\ Before(i) = i + Lesser(x, e) /\ Before(i + 1) = (i + 1) + Lesser(y, e)
        /\ LinesIn(i) = LET left == NPointers - (1 + x)
                        IN  IF left < 0 THEN 0 ELSE Lesser(d, left)
    BY Zenon, <1>5
  <2>. HIDE DEF x, y
  <2>3. NPointers - (1 + x) = e - x
    BY <1>4, <1>6, <2>1
  <2>4. LinesIn(i) = IF e - x < 0 THEN 0 ELSE Lesser(d, e - x)
    BY <2>2, <2>3
  <2>. QED
    BY <1>4, <2>1, <2>2, <2>4 DEF Lesser
<1>8. P \in Nat \ {0}
  BY <1>2 DEF P
<1>9. Before(0) = 0
  <2>1. 0 * d = 0
    BY <1>4
  <2>. QED
    BY <1>4, <1>5, <2>1 DEF Lesser
<1>10. Stairs(P, C)
  <2>1. C \in [0..P -> Nat]
    BY <1>7, <1>8
  <2>2. C[0] = 0
    BY <1>8, <1>9
  <2>3. \A i \in 0..P - 1 : C[i] < C[i + 1]
    <3>. TAKE i \in 0..P - 1
    <3>1. i \in Nat /\ i \in 0..P /\ i + 1 \in 0..P
      BY <1>8
    <3>2. Before(i) < Before(i + 1)
      BY <1>7, <3>1
    <3>. QED
      BY <3>1, <3>2
  <2>. QED
    BY Zenon, <1>8, <2>1, <2>2, <2>3 DEF Stairs
<1>11. Before(P) = Lesser(NPointers + P - 1, P * NLines)
  <2>. DEFINE x == P * d
  <2>1. x \in Nat
    BY <1>4, <1>8
  <2>2. P * NLines = x + P
    <3>1. NLines = d + 1
      BY DEF d
    <3>2. P * (d + 1) = x + P
      BY <1>4, <1>8
    <3>. QED
      BY Zenon, <3>1, <3>2
  <2>3. Before(P) = P + Lesser(x, e)
    BY Zenon, <1>5
  <2>4. NPointers + P - 1 = P + e
    BY <1>4, <1>6, <1>8
  <2>. HIDE DEF x
  <2>5. P + Lesser(x, e) = Lesser(P + e, x + P)
    BY <1>4, <1>8, <2>1 DEF Lesser
  <2>. QED
    BY Zenon, <2>2, <2>3, <2>4, <2>5
<1>12. \A i \in 0..P - 1 : i \in Nat
  BY <1>8
<1>. QED
  BY <1>3, <1>7, <1>8, <1>10, <1>11, <1>12 DEF P, d

-----------------------------------------------------------------------------

WordOf(i, j, w) == pages[i] + LineAt(j) + w

\* The links of mem_initialize(): within a page, to the next page, and from
\* the last one to the next word of the first line.
MemGo(m) ==
    /\ \A i \in 0..NPages - 1 : \A j \in 0..LinesIn(i) - 1 :
          \A w \in 0..NWords - 1 : Goes(m, WordOf(i, j, w), WordOf(i, j + 1, w))
    /\ \A i \in 0..NPages - 2 : \A k \in 0..NWords - 1 :
          Goes(m, Cell(i, LinesIn(i), k), Cell(i + 1, 0, k))
    /\ \A k \in 0..NWords - 1 :
          Goes(m, Cell(NPages - 1, LinesIn(NPages - 1), k),
                  Cell(0, 0, NextWord(k)))

LEMMA MemLinked ==
  ASSUME layout \in Layouts, pages \in Orders(layout), layout.kind = "mem",
         PowerOfTwo(NLines), PowerOfTwo(NWords), NEW m
  PROVE  MemGo(Linked(m, MemLinks))
<1>. DEFINE P == NPages
            W == NWords
            N == NLines
            Inner == UNION {{<<pages[i] + LineAt(j) + k,
                               pages[i] + LineAt(j + 1) + k>> :
                               j \in 0..LinesIn(i) - 1, k \in 0..NWords - 1} :
                            i \in 0..NPages - 1}
            Cross == {<<pages[i] + LineAt(LinesIn(i)) + WordAt(k),
                        pages[i + 1] + LineAt(0) + WordAt(k)>> :
                         i \in 0..NPages - 2, k \in 0..NWords - 1}
            Last == {<<pages[NPages - 1] + LineAt(LinesIn(NPages - 1)) + WordAt(k),
                       pages[0] + LineAt(0) + WordAt(NextWord(k))>> :
                         k \in 0..NWords - 1}
            M == Linked(m, MemLinks)
<1>1. MemLinks = Inner \cup Cross \cup Last
  BY DEF MemLinks
<1>2. N \in Nat \ {0}
  BY PlaceFacts
<1>3. /\ P \in Nat \ {0}
      /\ \A i \in 0..P - 1 : LinesIn(i) \in 0..N - 1 /\ LinesIn(i) \in Nat
  BY <1>2, LinesInIs
<1>4. /\ W \in Nat \ {0} /\ W = layout.line
      /\ \A k \in Nat : WordAt(k) \in 0..W - 1
      /\ \A k, l \in 0..W - 1 : WordAt(k) = WordAt(l) => k = l
  BY WordFacts
<1>5. \A i, h \in 0..P - 1 : \A j, l \in 0..N - 1 : \A w, z \in 0..W - 1 :
         WordOf(i, j, w) = WordOf(h, l, z) => i = h /\ j = l /\ w = z
  <2>. SUFFICES ASSUME NEW i \in 0..P - 1, NEW h \in 0..P - 1,
                       NEW j \in 0..N - 1, NEW l \in 0..N - 1,
                       NEW w \in 0..W - 1, NEW z \in 0..W - 1,
                       WordOf(i, j, w) = WordOf(h, l, z)
                PROVE  i = h /\ j = l /\ w = z
    OBVIOUS
  <2>1. w \in 0..layout.line - 1 /\ z \in 0..layout.line - 1
    BY <1>4
  <2>2. pages[i] + LineAt(j) + w = pages[h] + LineAt(l) + z
    BY DEF WordOf
  <2>. QED
    BY <2>1, <2>2, AddressApart
<1>6. \A i, j, k : Cell(i, j, k) = WordOf(i, j, WordAt(k))
  BY DEF Cell, WordOf
<1>7. \A k \in 0..W - 1 : WordAt(k) \in 0..W - 1
  BY <1>4
<1>8. /\ P - 1 \in 0..P - 1
      /\ \A i \in 0..P - 2 : i \in 0..P - 1 /\ i # P - 1
      /\ \A i \in 0..P - 1 : \A j \in 0..LinesIn(i) - 1 :
            j \in 0..N - 1 /\ j # LinesIn(i)
  BY <1>2, <1>3
<1>9. \A y \in MemLinks :
         \/ \E i \in 0..P - 1 : \E j \in 0..LinesIn(i) - 1 : \E w \in 0..W - 1 :
               y = <<WordOf(i, j, w), WordOf(i, j + 1, w)>>
         \/ \E i \in 0..P - 2 : \E k \in 0..W - 1 :
               y = <<Cell(i, LinesIn(i), k), Cell(i + 1, 0, k)>>
         \/ \E k \in 0..W - 1 :
               y = <<Cell(P - 1, LinesIn(P - 1), k), Cell(0, 0, NextWord(k))>>
  <2>1. \A y \in Inner :
           \E i \in 0..P - 1 : \E j \in 0..LinesIn(i) - 1 : \E w \in 0..W - 1 :
               y = <<WordOf(i, j, w), WordOf(i, j + 1, w)>>
    BY DEF WordOf
  <2>2. \A y \in Cross :
           \E i \in 0..P - 2 : \E k \in 0..W - 1 :
               y = <<Cell(i, LinesIn(i), k), Cell(i + 1, 0, k)>>
    BY DEF Cell
  <2>3. \A y \in Last :
           \E k \in 0..W - 1 :
               y = <<Cell(P - 1, LinesIn(P - 1), k), Cell(0, 0, NextWord(k))>>
    BY DEF Cell
  <2>. HIDE DEF Inner, Cross, Last
  <2>. QED
    BY <1>1, <2>1, <2>2, <2>3
<1>10. /\ \A i \in 0..P - 1 : \A j \in 0..LinesIn(i) - 1 : \A w \in 0..W - 1 :
             <<WordOf(i, j, w), WordOf(i, j + 1, w)>> \in MemLinks
       /\ \A i \in 0..P - 2 : \A k \in 0..W - 1 :
             <<Cell(i, LinesIn(i), k), Cell(i + 1, 0, k)>> \in MemLinks
       /\ \A k \in 0..W - 1 :
             <<Cell(P - 1, LinesIn(P - 1), k), Cell(0, 0, NextWord(k))>>
                \in MemLinks
  <2>1. \A i \in 0..P - 1 : \A j \in 0..LinesIn(i) - 1 : \A w \in 0..W - 1 :
           <<WordOf(i, j, w), WordOf(i, j + 1, w)>> \in Inner
    BY DEF WordOf
  <2>2. \A i \in 0..P - 2 : \A k \in 0..W - 1 :
           <<Cell(i, LinesIn(i), k), Cell(i + 1, 0, k)>> \in Cross
    BY DEF Cell
  <2>3. \A k \in 0..W - 1 :
           <<Cell(P - 1, LinesIn(P - 1), k), Cell(0, 0, NextWord(k))>> \in Last
    BY DEF Cell
  <2>. HIDE DEF Inner, Cross, Last
  <2>. QED
    BY <1>1, <2>1, <2>2, <2>3
<1>. HIDE DEF P, W, N, M
<1>11. ASSUME NEW i \in 0..P - 1, NEW j \in 0..LinesIn(i) - 1, NEW w \in 0..W - 1
       PROVE  Goes(M, WordOf(i, j, w), WordOf(i, j + 1, w))
  <2>1. ASSUME NEW y \in MemLinks, y[1] = WordOf(i, j, w)
        PROVE  y[2] = WordOf(i, j + 1, w)
    <3>1. CASE \E h \in 0..P - 1 : \E l \in 0..LinesIn(h) - 1 :
                  \E z \in 0..W - 1 :
                     y = <<WordOf(h, l, z), WordOf(h, l + 1, z)>>
      <4>1. PICK h \in 0..P - 1 : \E l \in 0..LinesIn(h) - 1 :
                  \E z \in 0..W - 1 :
                     y = <<WordOf(h, l, z), WordOf(h, l + 1, z)>>
        BY <3>1
      <4>2. PICK l \in 0..LinesIn(h) - 1, z \in 0..W - 1 :
                     y = <<WordOf(h, l, z), WordOf(h, l + 1, z)>>
        BY <4>1
      <4>3. l \in 0..N - 1 /\ j \in 0..N - 1
        BY <1>8
      <4>4. WordOf(h, l, z) = WordOf(i, j, w)
        BY <2>1, <4>2
      <4>5. h = i /\ l = j /\ z = w
        BY <1>5, <4>3, <4>4
      <4>. QED
        BY <4>2, <4>5
    <3>2. CASE \E h \in 0..P - 2 : \E k \in 0..W - 1 :
                  y = <<Cell(h, LinesIn(h), k), Cell(h + 1, 0, k)>>
      <4>1. PICK h \in 0..P - 2, k \in 0..W - 1 :
                  y = <<Cell(h, LinesIn(h), k), Cell(h + 1, 0, k)>>
        BY <3>2
      <4>2. WordOf(h, LinesIn(h), WordAt(k)) = WordOf(i, j, w)
        BY <1>6, <2>1, <4>1
      <4>3. /\ h \in 0..P - 1 /\ LinesIn(h) \in 0..N - 1 /\ WordAt(k) \in 0..W - 1
            /\ j \in 0..N - 1 /\ j # LinesIn(i)
        BY <1>3, <1>7, <1>8
      <4>4. h = i /\ LinesIn(h) = j
        BY <1>5, <4>2, <4>3
      <4>. QED
        BY <4>3, <4>4
    <3>3. CASE \E k \in 0..W - 1 :
                  y = <<Cell(P - 1, LinesIn(P - 1), k), Cell(0, 0, NextWord(k))>>
      <4>1. PICK k \in 0..W - 1 :
                  y = <<Cell(P - 1, LinesIn(P - 1), k), Cell(0, 0, NextWord(k))>>
        BY <3>3
      <4>. DEFINE h == P - 1
      <4>2. WordOf(h, LinesIn(h), WordAt(k)) = WordOf(i, j, w)
        BY <1>6, <2>1, <4>1
      <4>3. /\ h \in 0..P - 1 /\ LinesIn(h) \in 0..N - 1 /\ WordAt(k) \in 0..W - 1
            /\ j \in 0..N - 1 /\ j # LinesIn(i)
        BY <1>3, <1>7, <1>8
      <4>. HIDE DEF h
      <4>4. h = i /\ LinesIn(h) = j
        BY <1>5, <4>2, <4>3
      <4>. QED
        BY <4>3, <4>4
    <3>. QED
      BY Zenon, <1>9, <3>1, <3>2, <3>3
  <2>2. <<WordOf(i, j, w), WordOf(i, j + 1, w)>> \in MemLinks
    BY Zenon, <1>10
  <2>. QED
    BY Zenon, <2>1, <2>2, LinkedAt DEF M
<1>12. ASSUME NEW i \in 0..P - 1, NEW k \in 0..W - 1,
              NEW y \in MemLinks, y[1] = Cell(i, LinesIn(i), k)
       PROVE  /\ i # P - 1 => y[2] = Cell(i + 1, 0, k)
              /\ i = P - 1 => y[2] = Cell(0, 0, NextWord(k))
  <2>1. /\ y[1] = WordOf(i, LinesIn(i), WordAt(k))
        /\ LinesIn(i) \in 0..N - 1 /\ WordAt(k) \in 0..W - 1
    BY <1>3, <1>6, <1>7, <1>12
  <2>2. CASE \E h \in 0..P - 1 : \E l \in 0..LinesIn(h) - 1 :
                \E z \in 0..W - 1 :
                   y = <<WordOf(h, l, z), WordOf(h, l + 1, z)>>
    <3>1. PICK h \in 0..P - 1 : \E l \in 0..LinesIn(h) - 1 :
                \E z \in 0..W - 1 :
                   y = <<WordOf(h, l, z), WordOf(h, l + 1, z)>>
      BY <2>2
    <3>2. PICK l \in 0..LinesIn(h) - 1, z \in 0..W - 1 :
                   y = <<WordOf(h, l, z), WordOf(h, l + 1, z)>>
      BY <3>1
    <3>3. l \in 0..N - 1 /\ l # LinesIn(h)
      BY <1>8
    <3>4. WordOf(h, l, z) = WordOf(i, LinesIn(i), WordAt(k))
      BY <2>1, <3>2
    <3>5. h = i /\ l = LinesIn(i)
      BY <1>5, <2>1, <3>3, <3>4
    <3>. QED
      BY <3>3, <3>5
  <2>3. CASE \E h \in 0..P - 2 : \E z \in 0..W - 1 :
                y = <<Cell(h, LinesIn(h), z), Cell(h + 1, 0, z)>>
    <3>1. PICK h \in 0..P - 2, z \in 0..W - 1 :
                y = <<Cell(h, LinesIn(h), z), Cell(h + 1, 0, z)>>
      BY <2>3
    <3>2. WordOf(h, LinesIn(h), WordAt(z)) = WordOf(i, LinesIn(i), WordAt(k))
      BY <1>6, <2>1, <3>1
    <3>3. /\ h \in 0..P - 1 /\ h # P - 1 /\ LinesIn(h) \in 0..N - 1
          /\ WordAt(z) \in 0..W - 1
      BY <1>3, <1>7, <1>8
    <3>4. h = i /\ WordAt(z) = WordAt(k)
      BY <1>5, <2>1, <3>2, <3>3
    <3>5. z = k
      BY <1>4, <3>4
    <3>. QED
      BY <3>1, <3>3, <3>4, <3>5
  <2>4. CASE \E z \in 0..W - 1 :
                y = <<Cell(P - 1, LinesIn(P - 1), z), Cell(0, 0, NextWord(z))>>
    <3>. DEFINE h == P - 1
    <3>1. PICK z \in 0..W - 1 :
                y = <<Cell(h, LinesIn(h), z), Cell(0, 0, NextWord(z))>>
      BY <2>4
    <3>2. WordOf(h, LinesIn(h), WordAt(z)) = WordOf(i, LinesIn(i), WordAt(k))
      BY <1>6, <2>1, <3>1
    <3>3. /\ h \in 0..P - 1 /\ LinesIn(h) \in 0..N - 1 /\ WordAt(z) \in 0..W - 1
      BY <1>3, <1>7, <1>8
    <3>4. y[2] = Cell(0, 0, NextWord(z))
      BY <3>1
    <3>. HIDE DEF h
    <3>5. h = i /\ WordAt(z) = WordAt(k)
      BY <1>5, <2>1, <3>2, <3>3
    <3>6. z = k
      BY <1>4, <3>5
    <3>. QED
      BY Zenon, <3>4, <3>5, <3>6 DEF h
  <2>. QED
    BY Zenon, <1>9, <2>2, <2>3, <2>4
<1>13. ASSUME NEW i \in 0..P - 2, NEW k \in 0..W - 1
       PROVE  Goes(M, Cell(i, LinesIn(i), k), Cell(i + 1, 0, k))
  <2>1. <<Cell(i, LinesIn(i), k), Cell(i + 1, 0, k)>> \in MemLinks
    BY Zenon, <1>10
  <2>2. i \in 0..P - 1 /\ i # P - 1
    BY Zenon, <1>8
  <2>3. \A y \in MemLinks :
           y[1] = Cell(i, LinesIn(i), k) => y[2] = Cell(i + 1, 0, k)
    BY Zenon, <1>12, <2>2
  <2>. QED
    BY Zenon, <2>1, <2>3, LinkedAt DEF M
<1>14. ASSUME NEW k \in 0..W - 1
       PROVE  Goes(M, Cell(P - 1, LinesIn(P - 1), k), Cell(0, 0, NextWord(k)))
  <2>1. <<Cell(P - 1, LinesIn(P - 1), k), Cell(0, 0, NextWord(k))>> \in MemLinks
    BY Zenon, <1>10
  <2>2. \A y \in MemLinks :
           y[1] = Cell(P - 1, LinesIn(P - 1), k) => y[2] = Cell(0, 0, NextWord(k))
    BY Zenon, <1>8, <1>12
  <2>. QED
    BY Zenon, <2>1, <2>2, LinkedAt DEF M
<1>. QED
  BY Zenon, <1>11, <1>13, <1>14 DEF MemGo, P, W, M

MemWords == UNION {{Cell(i, j, k) : j \in 0..LinesIn(i), k \in 0..NWords - 1} :
                   i \in 0..NPages - 1}

LEMMA MemWordsAre ==
  /\ \A i \in 0..NPages - 1 : \A j \in 0..LinesIn(i) :
        \A k \in 0..NWords - 1 : Cell(i, j, k) \in MemWords
  /\ \A c \in MemWords : \E i \in 0..NPages - 1 : \E j \in 0..LinesIn(i) :
        \E k \in 0..NWords - 1 : c = Cell(i, j, k)
<1>. DEFINE F(i) == {Cell(i, j, k) : j \in 0..LinesIn(i), k \in 0..NWords - 1}
<1>1. MemWords = UNION {F(i) : i \in 0..NPages - 1}
  BY DEF MemWords
<1>2. \A i : \A j \in 0..LinesIn(i) : \A k \in 0..NWords - 1 :
         Cell(i, j, k) \in F(i)
  OBVIOUS
<1>3. \A i : \A c \in F(i) : \E j \in 0..LinesIn(i) :
         \E k \in 0..NWords - 1 : c = Cell(i, j, k)
  OBVIOUS
<1>. HIDE DEF F
<1>4. \A i \in 0..NPages - 1 : \A c \in F(i) : c \in MemWords
  BY <1>1
<1>5. \A c \in MemWords : \E i \in 0..NPages - 1 : c \in F(i)
  BY <1>1
<1>. QED
  BY <1>2, <1>3, <1>4, <1>5

LEMMA CellZero ==
  ASSUME layout \in Layouts, pages \in Orders(layout), PowerOfTwo(NLines)
  PROVE  Cell(0, 0, 0) = pages[0]
<1>1. pages[0] \in Nat /\ LineAt(0) = 0
  <2>1. NPages \in Nat \ {0} /\ \A i \in 0..NPages - 1 : pages[i] \in Nat
    BY PageFacts
  <2>2. LineAt(0) = 0
    BY PlaceFacts
  <2>. QED
    BY <2>1, <2>2
<1>2. WordAt(0) = 0
  BY WordFacts
<1>. QED
  BY <1>1, <1>2 DEF Cell

\* Sections of L[i] + 1 lines of page i, one after the other.
Sections(m, Q, C, L, S) ==
    /\ \A i \in 0..Q - 1 : L[i] \in 0..NLines - 1 /\ C[i + 1] = C[i] + L[i] + 1
    /\ \A i \in 0..Q - 1 : \A j \in 0..L[i] - 1 : \A k \in 0..NWords - 1 :
          Goes(m, Cell(i, j, k), Cell(i, j + 1, k))
    /\ \A i \in 0..Q - 2 : \A k \in 0..NWords - 1 :
          Goes(m, Cell(i, L[i], k), Cell(i + 1, 0, k))
    /\ \A k \in 0..NWords - 1 :
          Goes(m, Cell(Q - 1, L[Q - 1], k), Cell(0, 0, NextWord(k)))
    /\ \A i \in 0..Q - 1 : \A j \in 0..L[i] : \A k \in 0..NWords - 1 :
          Cell(i, j, k) \in S
    /\ \A c \in S : \E i \in 0..Q - 1 : \E j \in 0..L[i] :
          \E k \in 0..NWords - 1 : c = Cell(i, j, k)

LEMMA PagesCircle ==
  ASSUME layout \in Layouts, pages \in Orders(layout), PowerOfTwo(NLines),
         PowerOfTwo(NWords), NEW m, NEW Q \in 1..NPages, NEW C, Stairs(Q, C),
         NEW L, NEW S, Sections(m, Q, C, L, S)
  PROVE  Circle(m, pages[0], NWords * C[Q], S)
<1>0. /\ \A i \in 0..Q - 1 : /\ L[i] \in 0..NLines - 1
                             /\ C[i + 1] = C[i] + L[i] + 1
      /\ \A i \in 0..Q - 1 : \A j \in 0..L[i] - 1 : \A k \in 0..NWords - 1 :
            Goes(m, Cell(i, j, k), Cell(i, j + 1, k))
      /\ \A i \in 0..Q - 2 : \A k \in 0..NWords - 1 :
            Goes(m, Cell(i, L[i], k), Cell(i + 1, 0, k))
      /\ \A k \in 0..NWords - 1 :
            Goes(m, Cell(Q - 1, L[Q - 1], k), Cell(0, 0, NextWord(k)))
      /\ \A i \in 0..Q - 1 : \A j \in 0..L[i] : \A k \in 0..NWords - 1 :
            Cell(i, j, k) \in S
      /\ \A c \in S : \E i \in 0..Q - 1 : \E j \in 0..L[i] :
            \E k \in 0..NWords - 1 : c = Cell(i, j, k)
  BY DEF Sections
<1>. DEFINE a == [g \in 0..Q - 1 |-> [x \in Nat |-> g]]
            b == [g \in 0..Q - 1 |-> [x \in Nat |-> x]]
            W == NWords
            N == NLines
<1>1. N \in Nat \ {0} /\ NPages \in Nat \ {0}
  BY PlaceFacts
<1>2. /\ Q \in Nat \ {0} /\ 0 \in 0..Q - 1 /\ Q - 1 \in 0..Q - 1
      /\ \A i \in 0..Q - 1 : i \in 0..NPages - 1
      /\ \A i \in 0..Q - 2 : i \in 0..Q - 1 /\ i + 1 \in 0..Q - 1
  BY <1>1
<1>3. ASSUME NEW i \in 0..Q - 1
      PROVE  /\ Cells(C, i) = 0..L[i] /\ LastCell(C, i) = L[i]
             /\ \A x \in 0..L[i] : x \in Nat /\ x \in 0..N - 1
             /\ L[i] \in Nat /\ 0 \in 0..L[i]
             /\ \A x \in 0..L[i] : x # L[i] => x \in 0..L[i] - 1 /\ x + 1 \in Nat
  <2>1. C[i] \in Nat /\ C[i + 1] \in Nat
    BY CellsOf
  <2>. DEFINE e == C[i]
              f == C[i + 1]
              l == L[i]
  <2>2. l \in 0..N - 1 /\ f = e + l + 1 /\ e \in Nat
    BY <1>0, <2>1
  <2>3. Cells(C, i) = 0..f - (e + 1) /\ LastCell(C, i) = f - (e + 1)
    BY DEF Cells, LastCell
  <2>. HIDE DEF e, f, l, N
  <2>4. f - (e + 1) = l /\ l \in Nat /\ 0 \in 0..l
    BY <1>1, <2>2
  <2>5. \A x \in 0..l : x \in Nat /\ x \in 0..N - 1
    BY <1>1, <2>2
  <2>6. \A x \in 0..l : x # l => x \in 0..l - 1 /\ x + 1 \in Nat
    BY <2>4
  <2>7. Cells(C, i) = 0..l /\ LastCell(C, i) = l
    BY <2>3, <2>4
  <2>. QED
    BY Zenon, <2>4, <2>5, <2>6, <2>7 DEF l
<1>4. \A g \in 0..Q - 1 : \A x \in Nat : a[g][x] = g /\ b[g][x] = x
  OBVIOUS
<1>. HIDE DEF a, b, N
<1>5. \A g \in 0..Q - 1 : \A x \in Cells(C, g) :
         x \in Nat /\ x \in 0..N - 1 /\ x \in 0..L[g]
  BY <1>3
<1>6. \A g \in 0..Q - 1 : \A x \in Cells(C, g) :
         a[g][x] = g /\ b[g][x] = x
  BY <1>4, <1>5
<1>7. \A g \in 0..Q - 1 : \A x \in Cells(C, g) :
         a[g][x] \in 0..NPages - 1 /\ b[g][x] \in 0..NLines - 1
  BY <1>2, <1>5, <1>6 DEF N
<1>8. \A g, h \in 0..Q - 1 : \A x \in Cells(C, g) : \A y \in Cells(C, h) :
         a[g][x] = a[h][y] /\ b[g][x] = b[h][y] => g = h /\ x = y
  BY <1>6
<1>9. \A k \in 0..NWords - 1 : \A g \in 0..Q - 1 : \A x \in Cells(C, g) :
         x # LastCell(C, g) =>
            Goes(m, Cell(a[g][x], b[g][x], k),
                    Cell(a[g][x + 1], b[g][x + 1], k))
  <2>. SUFFICES ASSUME NEW k \in 0..NWords - 1, NEW g \in 0..Q - 1,
                       NEW x \in Cells(C, g), x # LastCell(C, g)
                PROVE  Goes(m, Cell(a[g][x], b[g][x], k),
                               Cell(a[g][x + 1], b[g][x + 1], k))
    OBVIOUS
  <2>1. x \in 0..L[g] - 1 /\ x + 1 \in Nat /\ x \in Nat
    BY <1>3
  <2>2. Goes(m, Cell(g, x, k), Cell(g, x + 1, k))
    BY <1>0, <2>1
  <2>3. a[g][x] = g /\ b[g][x] = x /\ a[g][x + 1] = g /\ b[g][x + 1] = x + 1
    BY <1>4, <2>1
  <2>. QED
    BY <2>2, <2>3
<1>10. \A k \in 0..NWords - 1 : \A g \in 0..Q - 2 :
          Goes(m, Cell(a[g][LastCell(C, g)], b[g][LastCell(C, g)], k),
                  Cell(a[g + 1][0], b[g + 1][0], k))
  <2>. SUFFICES ASSUME NEW k \in 0..NWords - 1, NEW g \in 0..Q - 2
                PROVE  Goes(m, Cell(a[g][LastCell(C, g)],
                                    b[g][LastCell(C, g)], k),
                               Cell(a[g + 1][0], b[g + 1][0], k))
    OBVIOUS
  <2>1. g \in 0..Q - 1 /\ g + 1 \in 0..Q - 1
    BY <1>2
  <2>2. LastCell(C, g) = L[g] /\ L[g] \in Nat /\ 0 \in Nat
    BY <1>3, <2>1
  <2>3. Goes(m, Cell(g, L[g], k), Cell(g + 1, 0, k))
    BY <1>0
  <2>4. /\ a[g][LastCell(C, g)] = g /\ b[g][LastCell(C, g)] = L[g]
        /\ a[g + 1][0] = g + 1 /\ b[g + 1][0] = 0
    BY <1>4, <2>1, <2>2
  <2>. QED
    BY <2>3, <2>4
<1>11. \A k \in 0..NWords - 1 :
          Goes(m, Cell(a[Q - 1][LastCell(C, Q - 1)],
                       b[Q - 1][LastCell(C, Q - 1)], k),
                  Cell(a[0][0], b[0][0], NextWord(k)))
  <2>. SUFFICES ASSUME NEW k \in 0..NWords - 1
                PROVE  Goes(m, Cell(a[Q - 1][LastCell(C, Q - 1)],
                                    b[Q - 1][LastCell(C, Q - 1)], k),
                               Cell(a[0][0], b[0][0], NextWord(k)))
    OBVIOUS
  <2>1. LastCell(C, Q - 1) = L[Q - 1] /\ L[Q - 1] \in Nat /\ 0 \in Nat
    BY <1>2, <1>3
  <2>2. Goes(m, Cell(Q - 1, L[Q - 1], k), Cell(0, 0, NextWord(k)))
    BY <1>0
  <2>3. /\ a[Q - 1][LastCell(C, Q - 1)] = Q - 1
        /\ b[Q - 1][LastCell(C, Q - 1)] = L[Q - 1]
        /\ a[0][0] = 0 /\ b[0][0] = 0
    BY <1>2, <1>4, <2>1
  <2>. QED
    BY <2>2, <2>3
<1>12. \A k \in 0..NWords - 1 : \A g \in 0..Q - 1 : \A x \in Cells(C, g) :
          Cell(a[g][x], b[g][x], k) \in S
  <2>. SUFFICES ASSUME NEW k \in 0..NWords - 1, NEW g \in 0..Q - 1,
                       NEW x \in Cells(C, g)
                PROVE  Cell(a[g][x], b[g][x], k) \in S
    OBVIOUS
  <2>1. a[g][x] = g /\ b[g][x] = x /\ x \in 0..L[g]
    BY <1>5, <1>6
  <2>2. Cell(g, x, k) \in S
    BY <1>0, <2>1
  <2>. QED
    BY Zenon, <2>1, <2>2
<1>13. \A c \in S : \E k \in 0..NWords - 1 : \E g \in 0..Q - 1 :
          \E x \in Cells(C, g) : c = Cell(a[g][x], b[g][x], k)
  <2>. TAKE c \in S
  <2>1. PICK g \in 0..Q - 1 : \E j \in 0..L[g] : \E k \in 0..NWords - 1 :
             c = Cell(g, j, k)
    BY <1>0
  <2>2. PICK x \in 0..L[g], k \in 0..NWords - 1 : c = Cell(g, x, k)
    BY <2>1
  <2>3. x \in Cells(C, g)
    BY <1>3
  <2>4. c = Cell(a[g][x], b[g][x], k)
    BY <1>6, <2>2, <2>3
  <2>. QED
    BY <2>3, <2>4
<1>14. Circle(m, Cell(a[0][0], b[0][0], 0), NWords * C[Q], S)
  BY <1>7, <1>8, <1>9, <1>10, <1>11, <1>12, <1>13, WordRounds
<1>15. a[0][0] = 0 /\ b[0][0] = 0
  BY <1>2, <1>4
<1>. QED
  BY <1>14, <1>15, CellZero

LEMMA MemCircle ==
  ASSUME layout \in Layouts, pages \in Orders(layout), layout.kind = "mem",
         PowerOfTwo(NLines), PowerOfTwo(NWords), NEW m, MemGo(m)
  PROVE  Circle(m, pages[0],
                NWords * Lesser(NPointers + NPages - 1, NPages * NLines),
                MemWords)
<1>. DEFINE P == NPages
            L == [i \in 0..P - 1 |-> LinesIn(i)]
            C == [i \in 0..P |-> Before(i)]
<1>1. NLines \in Nat \ {0}
  BY PlaceFacts
<1>2. /\ P \in Nat \ {0}
      /\ \A i \in 0..P - 1 :
            LinesIn(i) \in 0..NLines - 1 /\ LinesIn(i) \in Nat
      /\ Stairs(P, C)
      /\ \A i \in 0..P - 1 : Before(i + 1) = Before(i) + LinesIn(i) + 1
      /\ Before(P) = Lesser(NPointers + P - 1, P * NLines)
  BY <1>1, LinesInIs
<1>3. /\ P \in 1..NPages /\ P \in 0..P /\ P - 1 \in 0..P - 1
      /\ \A i \in 0..P - 1 : i \in 0..P /\ i + 1 \in 0..P
      /\ \A i \in 0..P - 2 : i \in 0..P - 1
  BY <1>2
<1>4. \A i \in 0..P - 1 : L[i] = LinesIn(i)
  OBVIOUS
<1>5. \A i \in 0..P : C[i] = Before(i)
  OBVIOUS
<1>6. \A i, j, k : Cell(i, j, k) = WordOf(i, j, WordAt(k))
  BY DEF Cell, WordOf
<1>7. \A k \in 0..NWords - 1 : WordAt(k) \in 0..NWords - 1
  BY WordFacts
<1>8. /\ \A i \in 0..P - 1 : \A j \in 0..LinesIn(i) - 1 :
            \A w \in 0..NWords - 1 :
               Goes(m, WordOf(i, j, w), WordOf(i, j + 1, w))
      /\ \A i \in 0..P - 2 : \A k \in 0..NWords - 1 :
            Goes(m, Cell(i, LinesIn(i), k), Cell(i + 1, 0, k))
      /\ \A k \in 0..NWords - 1 :
            Goes(m, Cell(P - 1, LinesIn(P - 1), k), Cell(0, 0, NextWord(k)))
  BY DEF MemGo
<1>9. /\ \A i \in 0..P - 1 : \A j \in 0..LinesIn(i) :
            \A k \in 0..NWords - 1 : Cell(i, j, k) \in MemWords
      /\ \A c \in MemWords : \E i \in 0..P - 1 : \E j \in 0..LinesIn(i) :
            \E k \in 0..NWords - 1 : c = Cell(i, j, k)
  BY MemWordsAre
<1>. HIDE DEF P, L, C
<1>10. \A i \in 0..P - 1 : L[i] \in 0..NLines - 1 /\ C[i + 1] = C[i] + L[i] + 1
  BY <1>2, <1>3, <1>4, <1>5
<1>11. \A i \in 0..P - 1 : \A j \in 0..L[i] - 1 : \A k \in 0..NWords - 1 :
          Goes(m, Cell(i, j, k), Cell(i, j + 1, k))
  BY <1>4, <1>6, <1>7, <1>8
<1>12. \A i \in 0..P - 2 : \A k \in 0..NWords - 1 :
          Goes(m, Cell(i, L[i], k), Cell(i + 1, 0, k))
  BY <1>3, <1>4, <1>8
<1>13. \A k \in 0..NWords - 1 :
          Goes(m, Cell(P - 1, L[P - 1], k), Cell(0, 0, NextWord(k)))
  BY <1>3, <1>4, <1>8
<1>14. /\ \A i \in 0..P - 1 : \A j \in 0..L[i] :
             \A k \in 0..NWords - 1 : Cell(i, j, k) \in MemWords
       /\ \A c \in MemWords : \E i \in 0..P - 1 : \E j \in 0..L[i] :
             \E k \in 0..NWords - 1 : c = Cell(i, j, k)
  BY <1>4, <1>9
<1>15. Circle(m, pages[0], NWords * C[P], MemWords)
  <2>1. Stairs(P, C) /\ P \in 1..NPages
    BY <1>2, <1>3
  <2>2. Sections(m, P, C, L, MemWords)
    BY Zenon, <1>10, <1>11, <1>12, <1>13, <1>14 DEF Sections
  <2>. QED
    BY Zenon, <2>1, <2>2, PagesCircle
<1>16. C[P] = Lesser(NPointers + P - 1, P * NLines)
  BY <1>2, <1>3, <1>5
<1>. QED
  BY Zenon, <1>15, <1>16 DEF P

-----------------------------------------------------------------------------
(* Chains of whole pages, and what cache makes of them.                    *)

LEMMA WholePages ==
  ASSUME layout \in Layouts, layout.kind = "mem", layout.len % layout.page = 0
  PROVE  /\ NLines \in Nat /\ NLines >= 2 /\ layout.page = NWords * NLines
         /\ NPages \in Nat \ {0} /\ layout.len = layout.page * NPages
         /\ NPointers = NPages * NLines
         /\ \A i \in 0..NPages - 1 : LinesIn(i) = NLines - 1
<1>. DEFINE l == layout.line
            g == layout.page
            n == layout.len
            N == NLines
            P == NPages
            q == n \div g
            d == N - 1
<1>1. /\ l \in Nat \ {0} /\ g \in Nat \ {0} /\ n \in Nat \ {0}
      /\ 2 * l <= g /\ g % l = 0 /\ n % g = 0
  BY LayoutsAssumption
<1>2. /\ N = g \div l /\ P = CeilDiv(n, g) /\ NPointers = n \div l
      /\ NWords = l
  BY DEF NLines, NPages, NPointers, NWords
<1>. HIDE DEF l, g, n, N, P
<1>3. N \in Nat /\ g = l * N
  <2>1. N \in Nat /\ g = l * N + (g % l) /\ l * N \in Nat
    BY <1>1, <1>2, Euclid
  <2>. QED
    BY <1>1, <2>1
<1>4. N >= 2
  <2>1. l * N >= 2 * l
    BY <1>1, <1>3
  <2>2. ASSUME N < 2 PROVE FALSE
    <3>1. N = 0 \/ N = 1
      BY <1>3, <2>2
    <3>2. l * 0 = 0 /\ l * 1 = l
      BY <1>1
    <3>. QED
      BY <1>1, <2>1, <3>1, <3>2
  <2>. QED
    BY <1>3, <2>2
<1>5. q \in Nat /\ n = g * q
  <2>1. q \in Nat /\ n = g * q + (n % g) /\ g * q \in Nat
    BY <1>1, Euclid
  <2>. QED
    BY <1>1, <2>1
<1>6. P \in Nat \ {0} /\ P = q
  <2>1. P \in Nat \ {0} /\ n <= g * P /\ g * P < n + g
    BY <1>1, <1>2, CeilDivIs
  <2>. HIDE DEF q
  <2>2. /\ g * q \in Int /\ g * P \in Int
        /\ P < q => g * P + g <= g * q
        /\ q < P => g * q + g <= g * P
    BY <1>1, <1>5, <2>1, Rows
  <2>. QED
    BY <1>1, <1>5, <2>1, <2>2
<1>7. NPointers = P * N
  <2>. HIDE DEF q
  <2>1. n = l * (P * N) /\ P * N \in Nat
    BY <1>1, <1>3, <1>5, <1>6
  <2>. DEFINE t == P * N
  <2>2. n = l * t /\ t \in Int
    BY <2>1
  <2>. HIDE DEF t
  <2>3. l * t <= n /\ n < l * t + l
    BY <1>1, <2>2
  <2>4. n \div l = t
    BY <1>1, <2>2, <2>3, DivBetween
  <2>. QED
    BY <1>2, <2>4 DEF t
<1>8. ASSUME NEW i \in 0..P - 1
      PROVE  LinesIn(i) = d
  <2>1. d \in Nat \ {0} /\ N = d + 1
    BY <1>3, <1>4
  <2>. DEFINE x == i * d
              y == P * d
  <2>2. LinesIn(i) = LET left == NPointers - (1 + x)
                     IN  IF left < 0 THEN 0 ELSE Lesser(d, left)
    BY DEF LinesIn, N
  <2>. HIDE DEF d
  <2>3. P * N = y + P
    <3>1. P * (d + 1) = y + P
      BY <1>6, <2>1
    <3>. QED
      BY <2>1, <3>1
  <2>4. x \in Nat /\ y \in Nat /\ x + d <= y
    <3>1. d * i \in Int /\ d * P \in Int /\ d * i + d <= d * P /\ d * i \in Nat
          /\ d * P \in Nat
      BY <1>6, <2>1, Rows
    <3>2. x = d * i /\ y = d * P
      BY <1>6, <2>1
    <3>. QED
      BY <2>1, <3>1, <3>2
  <2>. HIDE DEF x, y
  <2>5. NPointers - (1 + x) = (y - x) + (P - 1)
    BY <1>6, <1>7, <2>3, <2>4
  <2>. QED
    BY <1>6, <2>1, <2>2, <2>4, <2>5 DEF Lesser
<1>. QED
  BY <1>2, <1>3, <1>4, <1>5, <1>6, <1>7, <1>8 DEF N, P, g, n, l, d

\* The last page of a size that cache measures, and its lines.
LEMMA SizeFacts ==
  ASSUME layout \in Layouts, layout.kind = "mem", NEW size \in layout.narrow
  PROVE  /\ layout.len % layout.page = 0 /\ layout.len = layout.max
         /\ layout.group = 1
         /\ LastPage(size) \in 0..NPages - 1 /\ Part(size) \in 1..NLines
         /\ NWords * (LastPage(size) * NLines + Part(size)) = size
<1>. DEFINE l == NWords
            g == layout.page
            N == NLines
            P == NPages
            c == CeilDiv(size, g)
            q == size \div g
            r == size % g
<1>1. /\ layout.len % layout.page = 0 /\ layout.len = layout.max
      /\ layout.len \in Nat \ {0}
      /\ size \in 1..layout.len /\ size % layout.line = 0
      /\ layout.group \in Nat \ {0} /\ ~(layout.group > 1)
  BY LayoutsAssumption
<1>2. /\ N \in Nat /\ N >= 2 /\ g = l * N /\ P \in Nat \ {0}
      /\ layout.len = g * P
  BY <1>1, WholePages
<1>3. l \in Nat \ {0} /\ g \in Nat \ {0} /\ l = layout.line
  BY LayoutFacts DEF NWords
<1>4. size \in Nat \ {0} /\ size % l = 0 /\ size <= g * P
  BY <1>1, <1>2, <1>3
<1>5. LastPage(size) = c - 1 /\ Part(size) = IF r = 0 THEN N ELSE r \div l
  BY <1>3 DEF LastPage, Part
<1>. HIDE DEF l, g, N, P
<1>6. c \in Nat \ {0} /\ size <= g * c /\ g * c < size + g
  BY <1>3, <1>4, CeilDivIs
<1>7. /\ q \in Nat /\ r \in 0..g - 1 /\ size = g * q + r /\ g * q \in Nat
  BY <1>3, <1>4, Euclid
<1>. HIDE DEF c, q, r
<1>8. c - 1 \in 0..P - 1
  <2>1. g * c \in Int /\ g * P \in Int /\ (P < c => g * P + g <= g * c)
    BY <1>2, <1>3, <1>6, Rows
  <2>. QED
    BY <1>2, <1>3, <1>4, <1>6, <2>1
<1>9. /\ c < q => g * c + g <= g * q
      /\ q < c => g * q + g <= g * c
      /\ q + 1 < c => g * (q + 1) + g <= g * c
      /\ g * (q + 1) = g * q + g
      /\ g * c \in Int /\ g * q \in Int
  BY <1>3, <1>6, <1>7, Rows
<1>10. CASE r = 0
  <2>1. c = q
    BY <1>3, <1>6, <1>7, <1>9, <1>10
  <2>2. Part(size) = N
    BY <1>5, <1>10
  <2>3. (c - 1) * N + N = c * N /\ l * (c * N) = (l * N) * c
    BY <1>2, <1>3, <1>6
  <2>4. l * ((c - 1) * N + N) = g * c
    BY Zenon, <1>2, <2>3
  <2>5. l * ((c - 1) * N + N) = size
    BY <1>7, <1>10, <2>1, <2>4
  <2>6. N \in 1..N
    BY <1>2
  <2>. QED
    BY <1>1, <1>5, <1>8, <2>2, <2>5, <2>6 DEF l, N, P
<1>11. CASE r # 0
  <2>1. c = q + 1
    BY <1>3, <1>6, <1>7, <1>9, <1>11
  <2>. DEFINE t == r \div l
              z == r % l
              x == N * q
  <2>2. t \in Nat /\ z \in 0..l - 1 /\ r = l * t + z /\ l * t \in Nat /\ r \in Nat
    <3>1. r \in Nat
      BY <1>7
    <3>. QED
      BY <1>3, <3>1, Euclid
  <2>3. Part(size) = t
    BY <1>5, <1>11
  <2>. HIDE DEF t, z
  <2>4. x \in Nat /\ l * (x + t) = l * x + l * t /\ l * x = g * q
    <3>1. x \in Nat
      BY <1>2, <1>7
    <3>2. l * (N * q) = (l * N) * q
      BY <1>2, <1>3, <1>7
    <3>3. l * x = g * q
      BY Zenon, <1>2, <3>2
    <3>. HIDE DEF x
    <3>4. l * (x + t) = l * x + l * t
      BY <1>3, <2>2, <3>1
    <3>. QED
      BY <3>1, <3>3, <3>4
  <2>. HIDE DEF x
  <2>5. z = 0
    <3>. DEFINE y == x + t
    <3>1. y \in Int /\ l * y = g * q + l * t
      BY <2>2, <2>4
    <3>. HIDE DEF y
    <3>2. l * y <= size /\ size < l * y + l
      BY <1>3, <1>7, <2>2, <3>1
    <3>3. size % l = size - l * y
      BY <1>3, <1>4, <3>1, <3>2, DivBetween
    <3>. QED
      BY <1>4, <1>7, <2>2, <3>1, <3>3
  <2>6. l * (x + t) = size
    BY <1>7, <2>2, <2>4, <2>5
  <2>7. t \in 1..N
    <3>1. t # 0
      <4>1. l * 0 = 0
        BY <1>3
      <4>. QED
        BY <1>11, <2>2, <2>5, <4>1
    <3>2. N < t => l * N + l <= l * t
      BY <1>2, <1>3, <2>2, Rows
    <3>. QED
      BY <1>2, <1>3, <1>7, <2>2, <2>5, <3>1, <3>2
  <2>8. (c - 1) * N = x
    BY <1>2, <1>7, <2>1 DEF x
  <2>9. LastPage(size) = c - 1
    BY <1>5
  <2>10. l * (LastPage(size) * N + Part(size)) = size
    BY Zenon, <2>3, <2>6, <2>8, <2>9
  <2>. QED
    BY <1>1, <1>8, <2>3, <2>7, <2>9, <2>10 DEF l, N, P
<1>. QED
  BY <1>10, <1>11

LEMMA WordApart ==
  ASSUME layout \in Layouts, pages \in Orders(layout), PowerOfTwo(NLines),
         NEW i \in 0..NPages - 1, NEW h \in 0..NPages - 1,
         NEW j \in 0..NLines - 1, NEW l \in 0..NLines - 1,
         NEW w \in 0..NWords - 1, NEW z \in 0..NWords - 1,
         WordOf(i, j, w) = WordOf(h, l, z)
  PROVE  i = h /\ j = l /\ w = z
<1>1. w \in 0..layout.line - 1 /\ z \in 0..layout.line - 1
  BY WordFacts
<1>2. pages[i] + LineAt(j) + w = pages[h] + LineAt(l) + z
  BY DEF WordOf
<1>. QED
  BY <1>1, <1>2, AddressApart

LEMMA CellIs ==
  ASSUME layout \in Layouts
  PROVE  /\ \A i, j, k : Cell(i, j, k) = WordOf(i, j, WordAt(k))
         /\ \A k \in 0..NWords - 1 : WordAt(k) \in 0..NWords - 1
<1>1. \A i, j, k : Cell(i, j, k) = WordOf(i, j, WordAt(k))
  BY DEF Cell, WordOf
<1>2. \A k \in 0..NWords - 1 : WordAt(k) \in 0..NWords - 1
  BY WordFacts
<1>. QED
  BY <1>1, <1>2

\* Within the pages each line goes on to the next, but line j0 of page i0.
Inner(m, i0, j0) ==
    \A i \in 0..NPages - 1 : \A j \in 0..NLines - 2 : \A w \in 0..NWords - 1 :
       i # i0 \/ j # j0 => Goes(m, WordOf(i, j, w), WordOf(i, j + 1, w))

LEMMA GoInner ==
  ASSUME layout \in Layouts, layout.kind = "mem", layout.len % layout.page = 0,
         NEW m, MemGo(m), NEW i0, NEW j0
  PROVE  Inner(m, i0, j0)
<1>. SUFFICES ASSUME NEW i \in 0..NPages - 1, NEW j \in 0..NLines - 2,
                     NEW w \in 0..NWords - 1
              PROVE  Goes(m, WordOf(i, j, w), WordOf(i, j + 1, w))
  BY DEF Inner
<1>1. LinesIn(i) = NLines - 1 /\ NLines \in Nat
  BY WholePages
<1>2. j \in 0..LinesIn(i) - 1
  BY <1>1
<1>. QED
  BY <1>2 DEF MemGo

LEMMA SizeLinked ==
  ASSUME layout \in Layouts, pages \in Orders(layout), layout.kind = "mem",
         PowerOfTwo(NLines), PowerOfTwo(NWords), NEW size \in layout.narrow,
         NEW m, Inner(m, Nil, Nil)
  PROVE  /\ Inner(Linked(m, SizeLinks(size)), LastPage(size), Part(size) - 1)
         /\ \A i \in 0..LastPage(size) - 1 : \A w \in 0..NWords - 1 :
               Goes(Linked(m, SizeLinks(size)),
                    WordOf(i, NLines - 1, w), WordOf(i + 1, 0, w))
         /\ \A k \in 0..NWords - 1 :
               Goes(Linked(m, SizeLinks(size)),
                    Cell(LastPage(size), Part(size) - 1, k),
                    Cell(0, 0, NextWord(k)))
<1>. DEFINE q == LastPage(size)
            t == Part(size) - 1
            W == NWords
            N == NLines
            P == NPages
            A == {<<pages[i] + LineAt(NLines - 1) + k,
                    pages[i + 1] + LineAt(0) + k>> :
                    i \in 0..LastPage(size) - 1, k \in 0..NWords - 1}
            B == {<<pages[LastPage(size)] + LineAt(Part(size) - 1) + WordAt(k),
                    pages[0] + LineAt(0) + WordAt((k + 1) % NWords)>> :
                       k \in 0..NWords - 1}
            K == SizeLinks(size)
            M == Linked(m, K)
<1>1. K = A \cup B
  BY DEF SizeLinks
<1>2. /\ N \in Nat /\ N >= 2 /\ P \in Nat \ {0} /\ q \in 0..P - 1
      /\ Part(size) \in 1..N
  <2>1. layout.len % layout.page = 0
    BY SizeFacts
  <2>. QED
    BY <2>1, SizeFacts, WholePages
<1>3. t \in 0..N - 1
  BY <1>2
<1>4. W \in Nat \ {0} /\ \A k \in 0..W - 1 : (k + 1) % W = NextWord(k)
  <2>1. W \in Nat \ {0}
    BY WordFacts
  <2>. HIDE DEF W
  <2>2. ASSUME NEW k \in 0..W - 1
        PROVE  (k + 1) % W = IF k = W - 1 THEN 0 ELSE k + 1
    <3>1. CASE k = W - 1
      <4>1. W * 1 <= W /\ W < W * 1 + W /\ W \in Nat
        BY <2>1
      <4>2. W % W = W - W * 1
        BY <2>1, <4>1, DivBetween
      <4>3. k + 1 = W /\ W - W * 1 = 0
        BY <2>1, <3>1
      <4>. QED
        BY Zenon, <3>1, <4>2, <4>3
    <3>2. CASE k # W - 1
      <4>1. k + 1 \in Nat /\ k + 1 < W
        BY <2>1, <3>2
      <4>2. (k + 1) % W = k + 1
        BY <2>1, <4>1, ModSmall
      <4>. QED
        BY Zenon, <3>2, <4>2
    <3>. QED
      BY <3>1, <3>2
  <2>. QED
    BY <2>1, <2>2 DEF NextWord, W
<1>5. \A x \in A : \E i \in 0..q - 1 : \E w \in 0..W - 1 :
         x = <<WordOf(i, N - 1, w), WordOf(i + 1, 0, w)>>
  BY DEF WordOf
<1>6. \A i \in 0..q - 1 : \A w \in 0..W - 1 :
         <<WordOf(i, N - 1, w), WordOf(i + 1, 0, w)>> \in A
  BY DEF WordOf
<1>7. \A x \in B : \E k \in 0..W - 1 :
         x = <<Cell(q, t, k), Cell(0, 0, NextWord(k))>>
  BY <1>4 DEF Cell
<1>8. \A k \in 0..W - 1 : <<Cell(q, t, k), Cell(0, 0, NextWord(k))>> \in B
  BY <1>4 DEF Cell
<1>9. /\ \A i, j, k : Cell(i, j, k) = WordOf(i, j, WordAt(k))
      /\ \A k \in 0..W - 1 : WordAt(k) \in 0..W - 1
      /\ \A k, l \in 0..W - 1 : WordAt(k) = WordAt(l) => k = l
  BY CellIs, WordFacts
<1>. HIDE DEF A, B, K
<1>10. \A i, h \in 0..P - 1 : \A j, l \in 0..N - 1 : \A w, z \in 0..W - 1 :
          WordOf(i, j, w) = WordOf(h, l, z) => i = h /\ j = l /\ w = z
  BY WordApart
<1>. HIDE DEF q, t, W, N, P
<1>11. ASSUME NEW i \in 0..P - 1, NEW j \in 0..N - 1, NEW w \in 0..W - 1,
              NEW x \in K, x[1] = WordOf(i, j, w)
       PROVE  \/ i \in 0..q - 1 /\ j = N - 1 /\ x[2] = WordOf(i + 1, 0, w)
              \/ /\ i = q /\ j = t
                 /\ \A k \in 0..W - 1 :
                       w = WordAt(k) => x[2] = Cell(0, 0, NextWord(k))
  <2>1. CASE x \in A
    <3>1. PICK h \in 0..q - 1, z \in 0..W - 1 :
             x = <<WordOf(h, N - 1, z), WordOf(h + 1, 0, z)>>
      BY <1>5, <2>1
    <3>2. h \in 0..P - 1 /\ N - 1 \in 0..N - 1
      BY <1>2
    <3>3. WordOf(h, N - 1, z) = WordOf(i, j, w)
      BY <1>11, <3>1
    <3>4. h = i /\ N - 1 = j /\ z = w
      BY <1>10, <3>2, <3>3
    <3>. QED
      BY <3>1, <3>4
  <2>2. CASE x \in B
    <3>1. PICK k \in 0..W - 1 :
             x = <<Cell(q, t, k), Cell(0, 0, NextWord(k))>>
      BY <1>7, <2>2
    <3>2. WordOf(q, t, WordAt(k)) = WordOf(i, j, w) /\ WordAt(k) \in 0..W - 1
      BY <1>9, <1>11, <3>1
    <3>3. q = i /\ t = j /\ WordAt(k) = w
      BY <1>2, <1>3, <1>10, <3>2
    <3>4. \A l \in 0..W - 1 : w = WordAt(l) => l = k
      BY <1>9, <3>3
    <3>. QED
      BY <3>1, <3>3, <3>4
  <2>. QED
    BY <1>1, <2>1, <2>2
<1>12. Inner(M, q, t)
  <2>. SUFFICES ASSUME NEW i \in 0..P - 1, NEW j \in 0..N - 2, NEW w \in 0..W - 1,
                       i # q \/ j # t
                PROVE  Goes(M, WordOf(i, j, w), WordOf(i, j + 1, w))
    BY DEF Inner, P, N, W
  <2>1. j \in 0..N - 1 /\ j # N - 1 /\ i # Nil
    BY <1>2 DEF Nil
  <2>2. \A x \in K : x[1] # WordOf(i, j, w)
    BY <1>11, <2>1
  <2>3. Goes(m, WordOf(i, j, w), WordOf(i, j + 1, w))
    BY <2>1 DEF Inner, P, N, W
  <2>. QED
    BY <2>2, <2>3, LinkedElse
<1>13. ASSUME NEW i \in 0..q - 1, NEW w \in 0..W - 1
       PROVE  Goes(M, WordOf(i, N - 1, w), WordOf(i + 1, 0, w))
  <2>1. i \in 0..P - 1 /\ N - 1 \in 0..N - 1 /\ i # q
    BY <1>2
  <2>2. \A x \in K : x[1] = WordOf(i, N - 1, w) => x[2] = WordOf(i + 1, 0, w)
    BY <1>11, <2>1
  <2>3. <<WordOf(i, N - 1, w), WordOf(i + 1, 0, w)>> \in K
    BY <1>1, <1>6
  <2>. QED
    BY <2>2, <2>3, LinkedAt
<1>14. ASSUME NEW k \in 0..W - 1
       PROVE  Goes(M, Cell(q, t, k), Cell(0, 0, NextWord(k)))
  <2>1. Cell(q, t, k) = WordOf(q, t, WordAt(k)) /\ WordAt(k) \in 0..W - 1
    BY <1>9
  <2>2. \A x \in K : x[1] = Cell(q, t, k) => x[2] = Cell(0, 0, NextWord(k))
    <3>. SUFFICES ASSUME NEW x \in K, x[1] = Cell(q, t, k)
                  PROVE  x[2] = Cell(0, 0, NextWord(k))
      OBVIOUS
    <3>1. q \notin 0..q - 1
      BY <1>2
    <3>2. x[1] = WordOf(q, t, WordAt(k))
      BY <2>1
    <3>. QED
      BY <1>2, <1>3, <1>11, <2>1, <3>1, <3>2
  <2>3. <<Cell(q, t, k), Cell(0, 0, NextWord(k))>> \in K
    BY <1>1, <1>8
  <2>. QED
    BY <2>2, <2>3, LinkedAt
<1>. QED
  BY Zenon, <1>12, <1>13, <1>14 DEF q, t, W, N, P, M, K

LEMMA SizeCircle ==
  ASSUME layout \in Layouts, pages \in Orders(layout), layout.kind = "mem",
         PowerOfTwo(NLines), PowerOfTwo(NWords), NEW size \in layout.narrow,
         NEW m, Inner(m, Nil, Nil)
  PROVE  \E S : Circle(Linked(m, SizeLinks(size)), pages[0], size, S)
<1>. DEFINE q == LastPage(size)
            t == Part(size) - 1
            W == NWords
            N == NLines
            P == NPages
            M == Linked(m, SizeLinks(size))
            Q == q + 1
            L == [i \in 0..Q - 1 |-> IF i < q THEN N - 1 ELSE t]
            C == [i \in 0..Q |-> IF i < Q THEN i * N ELSE q * N + (t + 1)]
            F(i) == {Cell(i, j, k) : j \in 0..L[i], k \in 0..W - 1}
            S == UNION {F(i) : i \in 0..Q - 1}
<1>1. /\ N \in Nat \ {0} /\ N >= 2 /\ P \in Nat \ {0} /\ q \in 0..P - 1
      /\ Part(size) \in 1..N /\ W * (q * N + Part(size)) = size
  <2>1. layout.len % layout.page = 0
    BY SizeFacts
  <2>. QED
    BY <2>1, SizeFacts, WholePages
<1>2. t \in 0..N - 1 /\ t + 1 = Part(size) /\ Q \in 1..P /\ q \in Nat
  BY <1>1
<1>3. /\ Inner(M, q, t)
      /\ \A i \in 0..q - 1 : \A w \in 0..W - 1 :
            Goes(M, WordOf(i, N - 1, w), WordOf(i + 1, 0, w))
      /\ \A k \in 0..W - 1 : Goes(M, Cell(q, t, k), Cell(0, 0, NextWord(k)))
  BY Zenon, SizeLinked
<1>4. /\ \A i \in 0..Q - 1 : \A j \in 0..L[i] : \A k \in 0..W - 1 :
            Cell(i, j, k) \in F(i)
      /\ \A i \in 0..Q - 1 : \A c \in F(i) : \E j \in 0..L[i] :
            \E k \in 0..W - 1 : c = Cell(i, j, k)
  OBVIOUS
<1>5. /\ \A i \in 0..Q - 1 : \A c \in F(i) : c \in S
      /\ \A c \in S : \E i \in 0..Q - 1 : c \in F(i)
  <2>. HIDE DEF F
  <2>. QED
    OBVIOUS
<1>6. /\ \A i \in 0..Q - 1 : L[i] = IF i < q THEN N - 1 ELSE t
      /\ \A i \in 0..Q : C[i] = IF i < Q THEN i * N ELSE q * N + (t + 1)
      /\ DOMAIN C = 0..Q
  OBVIOUS
<1>7. /\ \A i, j, k : Cell(i, j, k) = WordOf(i, j, WordAt(k))
      /\ \A k \in 0..W - 1 : WordAt(k) \in 0..W - 1
  BY CellIs
<1>. HIDE DEF q, t, W, N, P, M, F, S
<1>8. \A i \in Nat : i * N \in Nat /\ (i + 1) * N = i * N + N
  <2>. TAKE i \in Nat
  <2>1. N * i \in Nat /\ N * (i + 1) = N * i + N
    BY <1>1, Rows
  <2>2. i * N = N * i /\ (i + 1) * N = N * (i + 1)
    BY <1>1
  <2>. QED
    BY <2>1, <2>2
<1>9. \A i \in 0..Q - 1 : /\ L[i] \in 0..N - 1 /\ C[i + 1] = C[i] + L[i] + 1
                          /\ C[i] \in Nat /\ C[i + 1] \in Nat
  <2>. TAKE i \in 0..Q - 1
  <2>1. i \in Nat /\ i \in 0..Q /\ i + 1 \in 0..Q /\ i <= q
    BY <1>2
  <2>2. C[i] = i * N /\ i * N \in Nat /\ (i + 1) * N = i * N + N
    BY <1>2, <1>6, <1>8, <2>1
  <2>3. CASE i < q
    <3>1. i + 1 < Q
      BY <1>2, <2>1, <2>3
    <3>2. C[i + 1] = (i + 1) * N /\ L[i] = N - 1
      BY <1>6, <2>1, <2>3, <3>1
    <3>. DEFINE x == i * N
    <3>3. C[i] = x /\ C[i + 1] = x + N /\ x \in Nat
      BY <2>2, <3>2
    <3>. HIDE DEF x, C, L
    <3>. QED
      BY <1>1, <3>2, <3>3
  <2>4. CASE i = q
    <3>1. L[i] = t /\ C[i + 1] = q * N + (t + 1)
      BY <1>2, <1>6, <2>1, <2>4
    <3>. DEFINE x == q * N
    <3>2. C[i] = x /\ C[i + 1] = x + (t + 1) /\ x \in Nat
      BY <2>2, <2>4, <3>1
    <3>. HIDE DEF x, C, L
    <3>. QED
      BY <1>1, <1>2, <3>1, <3>2
  <2>. QED
    BY <1>2, <2>1, <2>3, <2>4
<1>10. Stairs(Q, C)
  <2>1. C[0] = 0
    <3>1. 0 * N = 0 /\ 0 \in 0..Q /\ 0 < Q
      BY <1>1, <1>2
    <3>. QED
      BY <1>6, <3>1
  <2>2. \A i \in 0..Q - 1 : C[i] < C[i + 1]
    <3>. TAKE i \in 0..Q - 1
    <3>1. L[i] \in 0..N - 1 /\ C[i + 1] = C[i] + L[i] + 1 /\ C[i] \in Nat
      BY <1>9
    <3>. HIDE DEF C, L
    <3>. QED
      BY <1>1, <3>1
  <2>3. \A i \in 0..Q : C[i] \in Nat
    <3>. TAKE i \in 0..Q
    <3>1. CASE i = Q
      <4>1. Q - 1 \in 0..Q - 1 /\ Q - 1 + 1 = Q
        BY <1>2
      <4>. QED
        BY <1>9, <3>1, <4>1
    <3>2. CASE i # Q
      <4>1. i \in 0..Q - 1
        BY <1>2, <3>2
      <4>. QED
        BY <1>9, <4>1
    <3>. QED
      BY <3>1, <3>2
  <2>4. C \in [0..Q -> Nat]
    BY <2>3
  <2>5. Q \in Nat \ {0}
    BY <1>1, <1>2
  <2>. HIDE DEF C, Q
  <2>. QED
    BY Zenon, <2>1, <2>2, <2>4, <2>5 DEF Stairs
<1>11. C[Q] = q * N + Part(size)
  <2>1. Q \in 0..Q /\ ~(Q < Q)
    BY <1>2
  <2>. QED
    BY <1>2, <1>6, <2>1
<1>12. \A i \in 0..Q - 1 : \A j \in 0..L[i] - 1 : \A k \in 0..W - 1 :
          Goes(M, Cell(i, j, k), Cell(i, j + 1, k))
  <2>. SUFFICES ASSUME NEW i \in 0..Q - 1, NEW j \in 0..L[i] - 1,
                       NEW k \in 0..W - 1
                PROVE  Goes(M, Cell(i, j, k), Cell(i, j + 1, k))
    OBVIOUS
  <2>1. i \in 0..P - 1 /\ j \in 0..N - 2 /\ (i # q \/ j # t)
    <3>1. L[i] \in 0..N - 1
      BY <1>9
    <3>2. i = q => L[i] = t
      <4>1. i = q => ~(i < q)
        BY <1>2
      <4>. QED
        BY <1>6, <4>1
    <3>. HIDE DEF L
    <3>. QED
      BY <1>1, <1>2, <3>1, <3>2
  <2>2. Goes(M, WordOf(i, j, WordAt(k)), WordOf(i, j + 1, WordAt(k)))
    BY <1>3, <1>7, <2>1 DEF Inner, N, P, W
  <2>. QED
    BY Zenon, <1>7, <2>2
<1>13. \A i \in 0..Q - 2 : \A k \in 0..W - 1 :
          Goes(M, Cell(i, L[i], k), Cell(i + 1, 0, k))
  <2>. SUFFICES ASSUME NEW i \in 0..Q - 2, NEW k \in 0..W - 1
                PROVE  Goes(M, Cell(i, L[i], k), Cell(i + 1, 0, k))
    OBVIOUS
  <2>1. i \in 0..q - 1 /\ i \in 0..Q - 1 /\ i < q
    BY <1>2
  <2>2. L[i] = N - 1
    BY <1>6, <2>1
  <2>3. Goes(M, WordOf(i, N - 1, WordAt(k)), WordOf(i + 1, 0, WordAt(k)))
    BY <1>3, <1>7, <2>1
  <2>. QED
    BY Zenon, <1>7, <2>2, <2>3
<1>14. \A k \in 0..W - 1 :
          Goes(M, Cell(Q - 1, L[Q - 1], k), Cell(0, 0, NextWord(k)))
  <2>1. Q - 1 = q /\ L[q] = t
    BY <1>2, <1>6
  <2>. QED
    BY <1>3, <2>1
<1>15. /\ \A i \in 0..Q - 1 : \A j \in 0..L[i] : \A k \in 0..W - 1 :
             Cell(i, j, k) \in S
       /\ \A c \in S : \E i \in 0..Q - 1 : \E j \in 0..L[i] :
             \E k \in 0..W - 1 : c = Cell(i, j, k)
  <2>. HIDE DEF Q, L
  <2>. QED
    BY <1>4, <1>5
<1>16. \A i \in 0..Q - 1 : L[i] \in 0..N - 1 /\ C[i + 1] = C[i] + L[i] + 1
  BY <1>9
<1>. HIDE DEF Q, L, C
<1>17. Sections(M, Q, C, L, S)
  BY Zenon, <1>12, <1>13, <1>14, <1>15, <1>16 DEF Sections, N, W
<1>18. Circle(M, pages[0], W * C[Q], S)
  <2>1. Q \in 1..NPages
    BY <1>2 DEF P
  <2>. QED
    BY Zenon, <1>10, <1>17, <2>1, PagesCircle DEF W
<1>19. W * C[Q] = size
  BY Zenon, <1>1, <1>11
<1>. QED
  BY Zenon, <1>18, <1>19 DEF M

LEMMA RestLinked ==
  ASSUME layout \in Layouts, pages \in Orders(layout), layout.kind = "mem",
         PowerOfTwo(NLines), NEW size \in layout.narrow,
         NEW m, Inner(m, LastPage(size), Part(size) - 1)
  PROVE  Inner(Linked(m, RestLinks(size)), Nil, Nil)
<1>. DEFINE q == LastPage(size)
            t == Part(size) - 1
            N == NLines
            P == NPages
            W == NWords
            K == RestLinks(size)
            M == Linked(m, K)
<1>1. /\ N \in Nat /\ N >= 2 /\ P \in Nat \ {0} /\ q \in 0..P - 1
      /\ Part(size) \in 1..N
  <2>1. layout.len % layout.page = 0
    BY SizeFacts
  <2>. QED
    BY <2>1, SizeFacts, WholePages
<1>2. t \in 0..N - 1 /\ t + 1 = Part(size) /\ (Part(size) # N => t \in 0..N - 2)
      /\ (Part(size) = N => t \notin 0..N - 2)
  BY <1>1
<1>3. \A x \in K : \E w \in 0..W - 1 :
         x = <<WordOf(q, t, w), WordOf(q, t + 1, w)>> /\ Part(size) # N
  BY <1>2 DEF RestLinks, WordOf
<1>4. Part(size) # N => \A w \in 0..W - 1 :
         <<WordOf(q, t, w), WordOf(q, t + 1, w)>> \in K
  BY <1>2 DEF RestLinks, WordOf
<1>5. \A i, h \in 0..P - 1 : \A j, l \in 0..N - 1 : \A w, z \in 0..W - 1 :
          WordOf(i, j, w) = WordOf(h, l, z) => i = h /\ j = l /\ w = z
  BY WordApart
<1>6. \A i \in 0..P - 1 : \A j \in 0..N - 2 : \A w \in 0..W - 1 :
         i # q \/ j # t => Goes(m, WordOf(i, j, w), WordOf(i, j + 1, w))
  BY DEF Inner
<1>. HIDE DEF q, t, N, P, W, K
<1>7. ASSUME NEW i \in 0..P - 1, NEW j \in 0..N - 2, NEW w \in 0..W - 1
      PROVE  Goes(M, WordOf(i, j, w), WordOf(i, j + 1, w))
  <2>1. j \in 0..N - 1
    BY <1>1
  <2>2. ASSUME NEW x \in K, x[1] = WordOf(i, j, w)
        PROVE  i = q /\ j = t /\ x[2] = WordOf(i, j + 1, w)
    <3>1. PICK z \in 0..W - 1 : x = <<WordOf(q, t, z), WordOf(q, t + 1, z)>>
      BY <1>3
    <3>2. WordOf(q, t, z) = WordOf(i, j, w)
      BY <2>2, <3>1
    <3>3. q = i /\ t = j /\ z = w
      BY <1>1, <1>2, <1>5, <2>1, <3>2
    <3>. QED
      BY <3>1, <3>3
  <2>3. CASE i = q /\ j = t
    <3>1. <<WordOf(i, j, w), WordOf(i, j + 1, w)>> \in K
      BY <1>2, <1>4, <2>3
    <3>. QED
      BY <2>2, <3>1, LinkedAt
  <2>4. CASE i # q \/ j # t
    <3>1. Goes(m, WordOf(i, j, w), WordOf(i, j + 1, w))
      BY <1>6, <2>4
    <3>2. \A x \in K : x[1] # WordOf(i, j, w)
      BY <2>2, <2>4
    <3>. QED
      BY <3>1, <3>2, LinkedElse
  <2>. QED
    BY <2>3, <2>4
<1>. QED
  BY Zenon, <1>7 DEF Inner, P, N, W, M, K

-----------------------------------------------------------------------------
(* What regroup() makes of a chain.                                        *)

LEMMA PageApart ==
  ASSUME layout \in Layouts, pages \in Orders(layout),
         NEW i \in 0..NPages - 1, NEW h \in 0..NPages - 1,
         NEW k \in 0..layout.page - 1, NEW l \in 0..layout.page - 1,
         pages[i] + k = pages[h] + l
  PROVE  i = h /\ k = l
<1>1. PICK s \in Nat : pages[i] = layout.page * s
  BY PageFacts
<1>2. PICK t \in Nat : pages[h] = layout.page * t
  BY PageFacts
<1>3. layout.page \in Nat \ {0}
  BY LayoutFacts
<1>. DEFINE b == layout.page
<1>4. b * s + k = b * t + l /\ k \in 0..b - 1 /\ l \in 0..b - 1
  BY <1>1, <1>2
<1>5. b \in Nat \ {0}
  BY <1>3
<1>. HIDE DEF b
<1>6. s = t /\ k = l
  BY <1>4, <1>5, RowUnique
<1>7. pages[i] = pages[h]
  BY Zenon, <1>1, <1>2, <1>6
<1>. QED
  BY <1>6, <1>7, PageFacts

LEMMA RegroupedAt ==
  ASSUME layout \in Layouts, pages \in Orders(layout), layout.group > 1,
         NEW m, NEW i \in 0..NPages - 1, NEW k \in 0..layout.page - 1
  PROVE  Goes(Regrouped(m), pages[i] + k,
              IF i < LastOf(i) THEN pages[i + 1] + k
              ELSE IF InPage(i, m[pages[i] + k])
                   THEN pages[GroupOf(i)] + m[pages[i] + k] - pages[i]
                   ELSE m[pages[i] + k])
<1>. DEFINE to(h, l) == IF h < LastOf(h) THEN pages[h + 1] + l
              ELSE IF InPage(h, m[pages[h] + l])
                   THEN pages[GroupOf(h)] + m[pages[h] + l] - pages[h]
                   ELSE m[pages[h] + l]
            K == {<<pages[h] + l, to(h, l)>> :
                     h \in 0..NPages - 1, l \in 0..layout.page - 1}
<1>1. Regrouped(m) = Linked(m, K)
  <2>1. layout.group # 1
    BY LayoutFacts
  <2>. QED
    BY <2>1 DEF Regrouped
<1>. HIDE DEF to
<1>2. <<pages[i] + k, to(i, k)>> \in K
  OBVIOUS
<1>3. ASSUME NEW x \in K, x[1] = pages[i] + k
      PROVE  x[2] = to(i, k)
  <2>1. PICK h \in 0..NPages - 1, l \in 0..layout.page - 1 :
           x = <<pages[h] + l, to(h, l)>>
    OBVIOUS
  <2>2. pages[h] + l = pages[i] + k
    BY <1>3, <2>1
  <2>3. h = i /\ l = k
    BY <2>2, PageApart
  <2>. QED
    BY <2>1, <2>3
<1>. HIDE DEF K
<1>4. Goes(Linked(m, K), pages[i] + k, to(i, k))
  BY <1>2, <1>3, LinkedAt
<1>. QED
  BY Zenon, <1>1, <1>4 DEF to

LEMMA WordInPage ==
  ASSUME layout \in Layouts, pages \in Orders(layout), PowerOfTwo(NLines),
         NEW i \in 0..NPages - 1, NEW j \in 0..NLines - 1,
         NEW w \in 0..NWords - 1
  PROVE  /\ LineAt(j) + w \in 0..layout.page - 1 /\ pages[i] \in Nat
         /\ WordOf(i, j, w) = pages[i] + (LineAt(j) + w)
         /\ \A h \in 0..NPages - 1 : InPage(h, WordOf(i, j, w)) <=> h = i
<1>1. /\ LineAt(j) \in Nat /\ LineAt(j) + layout.line <= layout.page
      /\ NLines \in Nat
  <2>1. NLines \in Nat \ {0} /\ NLines # 0
    BY PlaceFacts
  <2>2. j \in Nat
    BY <2>1
  <2>. QED
    BY <2>1, <2>2, LineFacts
<1>2. NWords = layout.line /\ layout.page \in Nat /\ layout.line \in Nat
  BY LayoutFacts DEF NWords
<1>3. pages[i] \in Nat
  BY PageFacts
<1>4. LineAt(j) + w \in 0..layout.page - 1
  BY <1>1, <1>2
<1>5. WordOf(i, j, w) = pages[i] + (LineAt(j) + w)
  BY <1>1, <1>2, <1>3 DEF WordOf
<1>6. ASSUME NEW h \in 0..NPages - 1
      PROVE  InPage(h, WordOf(i, j, w)) <=> h = i
  <2>. DEFINE k == LineAt(j) + w
  <2>1. k \in 0..layout.page - 1 /\ WordOf(i, j, w) = pages[i] + k
    BY <1>4, <1>5
  <2>2. pages[h] \in Nat
    BY PageFacts
  <2>. HIDE DEF k
  <2>3. CASE h = i
    <3>1. InPage(h, WordOf(i, j, w))
      BY <1>2, <2>1, <2>2, <2>3 DEF InPage
    <3>. QED
      BY <2>3, <3>1
  <2>4. ASSUME InPage(h, WordOf(i, j, w))
        PROVE  h = i
    <3>1. pages[i] + k \in pages[h]..pages[h] + layout.page - 1
      BY <2>1, <2>4 DEF InPage
    <3>. DEFINE l == (pages[i] + k) - pages[h]
    <3>2. l \in 0..layout.page - 1 /\ pages[h] + l = pages[i] + k
      <4>1. k \in Nat
        BY <1>2, <2>1
      <4>. QED
        BY <1>2, <1>3, <2>2, <3>1, <4>1
    <3>. HIDE DEF l
    <3>. QED
      BY <2>1, <3>2, PageApart
  <2>. QED
    BY <2>3, <2>4
<1>. QED
  BY Zenon, <1>3, <1>4, <1>5, <1>6

\* The same word of the next page of a group; from its last page the next
\* line of the first.
GroupGo(m) ==
    /\ \A i \in 0..NPages - 1 : \A j \in 0..NLines - 1 : \A w \in 0..NWords - 1 :
          i < LastOf(i) => Goes(m, WordOf(i, j, w), WordOf(i + 1, j, w))
    /\ \A i \in 0..NPages - 1 : \A j \in 0..NLines - 2 : \A w \in 0..NWords - 1 :
          i = LastOf(i) => Goes(m, WordOf(i, j, w), WordOf(GroupOf(i), j + 1, w))
    /\ \A i \in 0..NPages - 2 : \A k \in 0..NWords - 1 :
          i = LastOf(i) => Goes(m, Cell(i, NLines - 1, k), Cell(i + 1, 0, k))
    /\ \A k \in 0..NWords - 1 :
          Goes(m, Cell(NPages - 1, NLines - 1, k), Cell(0, 0, NextWord(k)))

LEMMA GroupsLinked ==
  ASSUME layout \in Layouts, pages \in Orders(layout), layout.group > 1,
         PowerOfTwo(NLines), PowerOfTwo(NWords), NEW m, MemGo(m),
         \A i \in 0..NPages - 1 : GroupOf(i) \in 0..NPages - 1,
         GroupOf(0) = 0, LastOf(NPages - 1) = NPages - 1
  PROVE  GroupGo(Regrouped(m))
<1>. DEFINE W == NWords
            N == NLines
            P == NPages
            M == Regrouped(m)
<1>1. layout.kind = "mem" /\ layout.len % layout.page = 0
  BY LayoutsAssumption
<1>2. /\ N \in Nat /\ N >= 2 /\ P \in Nat \ {0}
      /\ \A i \in 0..P - 1 : LinesIn(i) = N - 1
  BY <1>1, WholePages
<1>3. W \in Nat \ {0} /\ \A k \in 0..W - 1 : NextWord(k) \in 0..W - 1
  <2>1. W \in Nat \ {0}
    BY WordFacts
  <2>. HIDE DEF W
  <2>. QED
    BY <2>1 DEF NextWord, W
<1>4. /\ \A i, j, k : Cell(i, j, k) = WordOf(i, j, WordAt(k))
      /\ \A k \in 0..W - 1 : WordAt(k) \in 0..W - 1
  BY CellIs
<1>5. /\ \A i \in 0..P - 1 : \A j \in 0..N - 2 : \A w \in 0..W - 1 :
            Goes(m, WordOf(i, j, w), WordOf(i, j + 1, w))
      /\ \A i \in 0..P - 2 : \A k \in 0..W - 1 :
            Goes(m, Cell(i, N - 1, k), Cell(i + 1, 0, k))
      /\ \A k \in 0..W - 1 :
            Goes(m, Cell(P - 1, N - 1, k), Cell(0, 0, NextWord(k)))
  <2>1. Inner(m, Nil, Nil)
    BY <1>1, GoInner
  <2>2. \A i \in 0..P - 1 : i # Nil
    BY <1>2 DEF Nil
  <2>3. \A i \in 0..P - 2 : i \in 0..P - 1
    BY <1>2
  <2>4. P - 1 \in 0..P - 1
    BY <1>2
  <2>5. \A i \in 0..P - 1 : \A j \in 0..N - 2 : \A w \in 0..W - 1 :
            Goes(m, WordOf(i, j, w), WordOf(i, j + 1, w))
    BY <2>1, <2>2 DEF Inner
  <2>. HIDE DEF P, N, W
  <2>6. \A i \in 0..P - 2 : \A k \in 0..W - 1 :
            Goes(m, Cell(i, N - 1, k), Cell(i + 1, 0, k))
    BY <1>2, <2>3 DEF MemGo, P, W
  <2>7. \A k \in 0..W - 1 :
            Goes(m, Cell(P - 1, N - 1, k), Cell(0, 0, NextWord(k)))
    BY <1>2, <2>4 DEF MemGo, P, W
  <2>. QED
    BY Zenon, <2>5, <2>6, <2>7
<1>6. ASSUME NEW i \in 0..P - 1, NEW j \in 0..N - 1, NEW w \in 0..W - 1
      PROVE  /\ i < LastOf(i) => Goes(M, WordOf(i, j, w), WordOf(i + 1, j, w))
             /\ ~(i < LastOf(i)) =>
                   \A h \in 0..P - 1 : \A l \in 0..N - 1 : \A z \in 0..W - 1 :
                      Goes(m, WordOf(i, j, w), WordOf(h, l, z)) =>
                         Goes(M, WordOf(i, j, w),
                              WordOf(IF h = i THEN GroupOf(i) ELSE h, l, z))
  <2>. DEFINE k == LineAt(j) + w
  <2>1. k \in 0..layout.page - 1 /\ WordOf(i, j, w) = pages[i] + k
    BY WordInPage
  <2>2. LineAt(j) \in Nat /\ w \in Nat /\ \A l \in 0..N - 1 : LineAt(l) \in Nat
    <3>1. \A l \in 0..N - 1 : l \in Nat
      BY <1>2
    <3>2. \A l \in Nat : LineAt(l) \in Nat
      <4>1. 0 \in 0..P - 1
        BY <1>2
      <4>. QED
        BY <4>1, PlaceFacts
    <3>3. w \in Nat
      BY <1>3
    <3>. QED
      BY <3>1, <3>2, <3>3
  <2>3. Goes(M, pages[i] + k,
              IF i < LastOf(i) THEN pages[i + 1] + k
              ELSE IF InPage(i, m[pages[i] + k])
                   THEN pages[GroupOf(i)] + m[pages[i] + k] - pages[i]
                   ELSE m[pages[i] + k])
    BY <2>1, RegroupedAt
  <2>4. ASSUME i < LastOf(i)
        PROVE  Goes(M, WordOf(i, j, w), WordOf(i + 1, j, w))
    <3>1. i + 1 \in 0..P - 1
      <4>1. LastOf(i) <= P - 1 /\ LastOf(i) \in Int
        <5>1. GroupOf(i) \in Nat /\ layout.group \in Nat
          BY <1>2, LayoutFacts
        <5>. QED
          BY <1>2, <5>1 DEF LastOf, Lesser
      <4>. QED
        BY <1>2, <2>4, <4>1
    <3>2. WordOf(i + 1, j, w) = pages[i + 1] + k
      BY <3>1, WordInPage
    <3>. QED
      BY Zenon, <2>1, <2>3, <2>4, <3>2
  <2>5. ASSUME ~(i < LastOf(i)), NEW h \in 0..P - 1, NEW l \in 0..N - 1,
               NEW z \in 0..W - 1, Goes(m, WordOf(i, j, w), WordOf(h, l, z))
        PROVE  Goes(M, WordOf(i, j, w),
                    WordOf(IF h = i THEN GroupOf(i) ELSE h, l, z))
    <3>. DEFINE v == WordOf(h, l, z)
    <3>1. m[pages[i] + k] = v
      BY Zenon, <2>1, <2>5 DEF Goes
    <3>2. InPage(i, v) <=> h = i
      BY WordInPage
    <3>3. Goes(M, pages[i] + k, IF InPage(i, v)
                                THEN pages[GroupOf(i)] + v - pages[i] ELSE v)
      BY Zenon, <2>3, <2>5, <3>1
    <3>4. CASE h = i
      <4>. DEFINE y == LineAt(l) + z
                  g == GroupOf(i)
      <4>1. v = pages[i] + y /\ y \in 0..layout.page - 1 /\ pages[i] \in Nat
        BY <3>4, WordInPage
      <4>2. WordOf(g, l, z) = pages[g] + y /\ pages[g] \in Nat
        <5>1. g \in 0..P - 1
          OBVIOUS
        <5>. HIDE DEF g
        <5>. QED
          BY <5>1, WordInPage
      <4>. HIDE DEF y, v
      <4>3. y \in Nat
        BY <4>1, LayoutFacts
      <4>4. pages[g] + v - pages[i] = pages[g] + y
        <5>. HIDE DEF g
        <5>. QED
          BY <4>1, <4>2, <4>3
      <4>5. Goes(M, pages[i] + k, pages[g] + v - pages[i])
        BY Zenon, <3>2, <3>3, <3>4
      <4>. QED
        BY Zenon, <2>1, <3>4, <4>2, <4>4, <4>5
    <3>5. CASE h # i
      <4>1. Goes(M, pages[i] + k, v)
        BY Zenon, <3>2, <3>3, <3>5
      <4>. QED
        BY Zenon, <2>1, <3>5, <4>1
    <3>. QED
      BY <3>4, <3>5
  <2>. QED
    BY Zenon, <2>4, <2>5
<1>7. \A i \in 0..P - 1 : i = LastOf(i) => ~(i < LastOf(i))
  BY <1>2
<1>. HIDE DEF P, N, W, M
<1>8. ASSUME NEW i \in 0..P - 1, NEW j \in 0..N - 2, NEW w \in 0..W - 1,
             i = LastOf(i)
      PROVE  Goes(M, WordOf(i, j, w), WordOf(GroupOf(i), j + 1, w))
  <2>1. j \in 0..N - 1 /\ j + 1 \in 0..N - 1
    BY <1>2
  <2>2. Goes(m, WordOf(i, j, w), WordOf(i, j + 1, w))
    BY <1>5
  <2>. QED
    BY <1>6, <1>7, <1>8, <2>1, <2>2
<1>9. ASSUME NEW i \in 0..P - 2, NEW k \in 0..W - 1, i = LastOf(i)
      PROVE  Goes(M, Cell(i, N - 1, k), Cell(i + 1, 0, k))
  <2>1. /\ i \in 0..P - 1 /\ i + 1 \in 0..P - 1 /\ i + 1 # i
        /\ N - 1 \in 0..N - 1 /\ 0 \in 0..N - 1
    BY <1>2
  <2>. DEFINE w == WordAt(k)
  <2>2. w \in 0..W - 1 /\ Goes(m, WordOf(i, N - 1, w), WordOf(i + 1, 0, w))
    BY <1>4, <1>5
  <2>3. Goes(M, WordOf(i, N - 1, w), WordOf(i + 1, 0, w))
    <3>. HIDE DEF w
    <3>. QED
      BY <1>6, <1>7, <1>9, <2>1, <2>2
  <2>. QED
    BY Zenon, <1>4, <2>3
<1>10. ASSUME NEW k \in 0..W - 1
       PROVE  Goes(M, Cell(P - 1, N - 1, k), Cell(0, 0, NextWord(k)))
  <2>1. /\ P - 1 \in 0..P - 1 /\ 0 \in 0..P - 1
        /\ N - 1 \in 0..N - 1 /\ 0 \in 0..N - 1
    BY <1>2
  <2>. DEFINE w == WordAt(k)
              z == WordAt(NextWord(k))
              i == P - 1
  <2>2. w \in 0..W - 1 /\ z \in 0..W - 1
        /\ Goes(m, WordOf(i, N - 1, w), WordOf(0, 0, z))
    BY <1>3, <1>4, <1>5
  <2>3. i = LastOf(i) /\ i \in 0..P - 1 /\ (0 = i => GroupOf(i) = 0)
    BY <2>1 DEF P
  <2>. HIDE DEF w, z, i
  <2>4. Goes(M, WordOf(i, N - 1, w),
             WordOf(IF 0 = i THEN GroupOf(i) ELSE 0, 0, z))
    BY <1>6, <1>7, <2>1, <2>2, <2>3
  <2>5. Goes(M, WordOf(i, N - 1, w), WordOf(0, 0, z))
    BY <2>3, <2>4
  <2>. QED
    BY Zenon, <1>4, <2>5 DEF w, z, i
<1>. QED
  BY Zenon, <1>6, <1>8, <1>9, <1>10 DEF GroupGo, P, N, W, M

\* The groups, the page each begins with and how many it has.
Groups == CeilDiv(NPages, layout.group)
Lead(g) == layout.group * g
Size(g) == Lesser(layout.group, NPages - Lead(g))

LEMMA GroupFacts ==
  ASSUME layout \in Layouts, NPages \in Nat \ {0}
  PROVE  /\ Groups \in Nat \ {0} /\ Lead(0) = 0
         /\ \A g \in 0..Groups - 1 :
               /\ Lead(g) \in Nat /\ Size(g) \in Nat \ {0}
               /\ Lead(g) + Size(g) <= NPages
               /\ g # Groups - 1 => Lead(g + 1) = Lead(g) + Size(g)
               /\ g = Groups - 1 => NPages = Lead(g) + Size(g)
               /\ \A y \in 0..Size(g) - 1 :
                     /\ GroupOf(Lead(g) + y) = Lead(g)
                     /\ LastOf(Lead(g) + y) = Lead(g) + Size(g) - 1
         /\ \A i \in 0..NPages - 1 : \E g \in 0..Groups - 1 :
               \E y \in 0..Size(g) - 1 : i = Lead(g) + y
         /\ \A g, h \in 0..Groups - 1 : Lead(g) = Lead(h) => g = h
<1>. DEFINE r == layout.group
            P == NPages
            G == Groups
<1>1. r \in Nat \ {0} /\ P \in Nat \ {0}
  BY LayoutFacts
<1>2. G = CeilDiv(P, r) /\ \A g : Lead(g) = r * g /\ Size(g) = Lesser(r, P - Lead(g))
  BY DEF Groups, Lead, Size
<1>3. \A i : /\ GroupOf(i) = (i \div r) * r
             /\ LastOf(i) = Lesser(GroupOf(i) + r, P) - 1
  BY DEF GroupOf, LastOf
<1>. HIDE DEF r, P, G
<1>4. G \in Nat \ {0} /\ P <= r * G /\ r * G < P + r
  BY <1>1, <1>2, CeilDivIs
<1>5. ASSUME NEW g \in 0..G - 1
      PROVE  /\ Lead(g) \in Nat /\ Lead(g) < P
             /\ Lead(g + 1) = Lead(g) + r
             /\ g # G - 1 => Lead(g) + r < P
             /\ g = G - 1 => P <= Lead(g) + r
  <2>1. g \in Nat /\ g + 1 \in Nat /\ g < G
    BY <1>4
  <2>2. /\ r * g \in Nat /\ r * G \in Int /\ r * (g + 1) \in Int
        /\ r * g + r <= r * G /\ r * (g + 1) = r * g + r
        /\ g + 1 < G => r * (g + 1) + r <= r * G
    BY <1>1, <1>4, <2>1, Rows
  <2>3. g # G - 1 => g + 1 < G
    BY <1>4
  <2>4. g = G - 1 => g + 1 = G
    BY <1>4
  <2>5. g = G - 1 => r * (g + 1) = r * G
    BY Zenon, <2>4
  <2>6. Lead(g) = r * g /\ Lead(g + 1) = r * (g + 1)
    BY <1>2
  <2>. DEFINE x == r * g
              y == r * (g + 1)
              z == r * G
  <2>7. /\ x \in Nat /\ z \in Int /\ y = x + r /\ x + r <= z
        /\ (g # G - 1 => y + r <= z) /\ (g = G - 1 => y = z)
        /\ Lead(g) = x /\ Lead(g + 1) = y /\ P <= z /\ z < P + r
    BY <1>4, <2>2, <2>3, <2>5, <2>6
  <2>. HIDE DEF x, y, z
  <2>. QED
    BY <1>1, <2>7
<1>6. ASSUME NEW g \in 0..G - 1
      PROVE  /\ Size(g) \in Nat \ {0} /\ Lead(g) + Size(g) <= P /\ Size(g) <= r
             /\ g # G - 1 => Lead(g + 1) = Lead(g) + Size(g)
             /\ g = G - 1 => P = Lead(g) + Size(g)
             /\ Lesser(Lead(g) + r, P) = Lead(g) + Size(g)
  <2>1. Size(g) = Lesser(r, P - Lead(g))
    BY <1>2
  <2>. QED
    BY <1>1, <1>5, <2>1 DEF Lesser
<1>7. ASSUME NEW g \in 0..G - 1, NEW y \in 0..Size(g) - 1
      PROVE  /\ GroupOf(Lead(g) + y) = Lead(g)
             /\ LastOf(Lead(g) + y) = Lead(g) + Size(g) - 1
  <2>. DEFINE i == Lead(g) + y
  <2>1. y \in 0..r - 1 /\ Lead(g) \in Nat /\ g \in Int
    BY <1>1, <1>5, <1>6
  <2>2. Lead(g) = r * g
    BY <1>2
  <2>3. i \in Nat /\ r * g <= i /\ i < r * g + r
    <3>. DEFINE x == r * g
    <3>1. i = x + y /\ x \in Nat
      BY <2>1, <2>2
    <3>2. r * g = x
      OBVIOUS
    <3>. HIDE DEF x, i
    <3>. QED
      BY <1>1, <2>1, <3>1, <3>2
  <2>. HIDE DEF i
  <2>4. i \div r = g
    BY <1>1, <2>1, <2>3, DivBetween
  <2>5. g * r = r * g
    BY <1>1, <2>1
  <2>6. GroupOf(i) = Lead(g)
    BY Zenon, <1>3, <2>2, <2>4, <2>5
  <2>7. LastOf(i) = Lead(g) + Size(g) - 1
    <3>1. LastOf(i) = Lesser(Lead(g) + r, P) - 1
      BY Zenon, <1>3, <2>6
    <3>2. Lesser(Lead(g) + r, P) = Lead(g) + Size(g) /\ Size(g) \in Nat
      BY <1>6
    <3>. QED
      BY <2>1, <3>1, <3>2
  <2>8. GroupOf(Lead(g) + y) = Lead(g)
    BY Zenon, <2>6 DEF i
  <2>9. LastOf(Lead(g) + y) = Lead(g) + Size(g) - 1
    BY Zenon, <2>7 DEF i
  <2>. QED
    BY <2>8, <2>9
<1>8. ASSUME NEW i \in 0..P - 1
      PROVE  \E g \in 0..G - 1 : \E y \in 0..Size(g) - 1 : i = Lead(g) + y
  <2>. DEFINE g == i \div r
              y == i % r
              x == r * g
              z == r * G
  <2>1. i \in Nat
    BY <1>1
  <2>2. g \in Nat /\ y \in 0..r - 1 /\ i = x + y /\ x \in Nat
    BY <1>1, <2>1, Euclid
  <2>. HIDE DEF g, y
  <2>3. G < g => z + r <= x
    BY <1>1, <1>4, <2>2, Rows
  <2>4. G = g => z = x
    OBVIOUS
  <2>5. z \in Nat /\ P <= z /\ Lead(g) = x
    BY <1>1, <1>2, <1>4
  <2>. HIDE DEF x, z
  <2>6. g \in 0..G - 1
    BY <1>1, <1>4, <2>1, <2>2, <2>3, <2>4, <2>5
  <2>7. Size(g) = Lesser(r, P - x)
    BY <1>2, <2>5
  <2>8. y \in 0..Size(g) - 1
    BY <1>1, <2>1, <2>2, <2>7 DEF Lesser
  <2>. QED
    BY <2>2, <2>5, <2>6, <2>8
<1>9. ASSUME NEW g \in 0..G - 1, NEW h \in 0..G - 1, Lead(g) = Lead(h)
      PROVE  g = h
  <2>1. /\ g < h => r * g + r <= r * h
        /\ h < g => r * h + r <= r * g
        /\ r * g \in Int /\ r * h \in Int
    BY <1>1, <1>4, Rows
  <2>2. r * g = r * h
    BY <1>2, <1>9
  <2>. DEFINE x == r * g
              y == r * h
  <2>. HIDE DEF x, y
  <2>3. (g < h => x + r <= y) /\ (h < g => y + r <= x) /\ x \in Int /\ x = y
    BY <2>1, <2>2 DEF x, y
  <2>. QED
    BY <1>1, <1>4, <2>3
<1>10. Lead(0) = 0
  BY <1>1, <1>2
<1>. QED
  BY <1>4, <1>5, <1>6, <1>7, <1>8, <1>9, <1>10 DEF G, P

\* Counting page by page, line by line.
LEMMA DivStep ==
  ASSUME NEW s \in Nat \ {0}, NEW n \in Nat \ {0}, NEW x \in 0..s * n - 1
  PROVE  /\ x \in Nat /\ x % s \in 0..s - 1 /\ x \div s \in 0..n - 1
         /\ x = s * (x \div s) + (x % s)
         /\ x % s # s - 1 => (x + 1) % s = (x % s) + 1 /\ (x + 1) \div s = x \div s
         /\ x % s = s - 1 => (x + 1) % s = 0 /\ (x + 1) \div s = x \div s + 1
         /\ x = s * n - 1 => x % s = s - 1 /\ x \div s = n - 1
<1>. DEFINE d == x \div s
            e == x % s
            u == s * d
            z == s * n
<1>1. z \in Nat /\ x \in Nat
  <2>1. s * n \in Nat
    OBVIOUS
  <2>. HIDE DEF z
  <2>. QED
    BY <2>1 DEF z
<1>2. d \in Nat /\ e \in 0..s - 1 /\ x = u + e /\ u \in Nat
  BY <1>1, Euclid
<1>. HIDE DEF d, e
<1>3. /\ d < n => u + s <= z
      /\ n < d => z + s <= u
      /\ s * (d + 1) = u + s
  BY <1>2, Rows
<1>4. n = d => u = z
  OBVIOUS
<1>. HIDE DEF u, z
<1>5. d \in 0..n - 1
  <2>1. x \in 0..z - 1
    BY DEF z
  <2>. QED
    BY <1>1, <1>2, <1>3, <1>4, <2>1
<1>6. e # s - 1 => (x + 1) % s = e + 1 /\ (x + 1) \div s = d
  <2>. HAVE e # s - 1
  <2>. DEFINE c == x + 1
  <2>1. c \in Nat /\ u <= c /\ c < u + s /\ d \in Int
    BY <1>2
  <2>2. c - u = e + 1
    BY <1>2
  <2>. HIDE DEF c
  <2>3. c \div s = d /\ c % s = c - u
    BY <2>1, DivBetween DEF u
  <2>. QED
    BY Zenon, <2>2, <2>3 DEF c
<1>7. e = s - 1 => (x + 1) % s = 0 /\ (x + 1) \div s = d + 1
  <2>. HAVE e = s - 1
  <2>. DEFINE v == s * (d + 1)
  <2>1. v = u + s
    BY <1>3
  <2>. HIDE DEF v
  <2>2. x + 1 \in Nat /\ v <= x + 1 /\ x + 1 < v + s /\ d + 1 \in Int /\ v = x + 1
    BY <1>2, <2>1
  <2>3. (x + 1) \div s = d + 1 /\ (x + 1) % s = x + 1 - v
    BY <2>2, DivBetween DEF v
  <2>. QED
    BY <1>2, <2>2, <2>3
<1>8. x = z - 1 => e = s - 1 /\ d = n - 1
  <2>. HAVE x = z - 1
  <2>. DEFINE f == d + 1
              v == s * f
  <2>1. f \in Nat /\ v = u + s
    BY <1>2, <1>3
  <2>. HIDE DEF f
  <2>2. f < n => v + s <= z
    BY <2>1, Rows DEF z
  <2>3. f = n => v = z
    BY DEF z
  <2>. HIDE DEF v
  <2>4. f = n
    BY <1>1, <1>2, <1>5, <2>1, <2>2 DEF f
  <2>. QED
    BY <1>2, <1>5, <2>1, <2>3, <2>4 DEF f
<1>. QED
  BY <1>1, <1>2, <1>5, <1>6, <1>7, <1>8 DEF d, e, u, z

\* The lines of the groups before group g.
GroupStairs == [g \in 0..Groups |->
                   NLines * (IF g < Groups THEN Lead(g) ELSE NPages)]

LEMMA GroupSections ==
  ASSUME layout \in Layouts, NPages \in Nat \ {0}, NLines \in Nat \ {0}
  PROVE  /\ Stairs(Groups, GroupStairs)
         /\ GroupStairs[Groups] = NLines * NPages
         /\ \A g \in 0..Groups - 1 :
               /\ Cells(GroupStairs, g) = 0..Size(g) * NLines - 1
               /\ LastCell(GroupStairs, g) = Size(g) * NLines - 1
<1>. DEFINE C == GroupStairs
            G == Groups
            N == NLines
            e == [g \in 0..G |-> IF g < G THEN Lead(g) ELSE NPages]
<1>1. G \in Nat \ {0} /\ Lead(0) = 0
  BY GroupFacts
<1>2. \A g \in 0..G - 1 :
         /\ Lead(g) \in Nat /\ Size(g) \in Nat \ {0}
         /\ g # G - 1 => Lead(g + 1) = Lead(g) + Size(g)
         /\ g = G - 1 => NPages = Lead(g) + Size(g)
  BY GroupFacts
<1>3. \A g \in 0..G : e[g] = IF g < G THEN Lead(g) ELSE NPages
  OBVIOUS
<1>4. \A g \in 0..G : C[g] = N * e[g]
  BY DEF GroupStairs
<1>5. DOMAIN C = 0..G /\ C = [g \in 0..G |-> C[g]]
  BY DEF GroupStairs
<1>. HIDE DEF C, G, e, N
<1>6. /\ \A g \in 0..G - 1 : e[g] \in Nat /\ e[g + 1] = e[g] + Size(g)
      /\ e[0] = 0 /\ e[G] = NPages
  <2>1. ASSUME NEW g \in 0..G - 1
        PROVE  e[g] \in Nat /\ e[g + 1] = e[g] + Size(g)
    <3>1. g \in 0..G /\ g + 1 \in 0..G /\ g < G /\ (g + 1 < G <=> g # G - 1)
      BY <1>1
    <3>2. e[g] = Lead(g) /\ e[g + 1] = IF g # G - 1 THEN Lead(g + 1) ELSE NPages
      BY <1>3, <3>1
    <3>. QED
      BY <1>2, <3>2
  <2>2. 0 \in 0..G /\ G \in 0..G /\ 0 < G /\ ~(G < G)
    BY <1>1
  <2>. QED
    BY <1>1, <1>3, <2>1, <2>2
<1>7. ASSUME NEW g \in 0..G - 1
      PROVE  /\ C[g] \in Nat /\ C[g + 1] = C[g] + Size(g) * N
             /\ Size(g) * N \in Nat \ {0}
  <2>. DEFINE x == e[g]
              s == Size(g)
  <2>1. x \in Nat /\ s \in Nat \ {0} /\ e[g + 1] = x + s /\ N \in Nat \ {0}
    BY <1>2, <1>6 DEF N
  <2>2. C[g] = N * x /\ C[g + 1] = N * (x + s)
    <3>1. g \in 0..G /\ g + 1 \in 0..G
      BY <1>1
    <3>2. C[g] = N * e[g] /\ C[g + 1] = N * e[g + 1]
      BY <1>4, <3>1
    <3>. QED
      BY Zenon, <2>1, <3>2
  <2>. HIDE DEF x, s
  <2>3. /\ N * x \in Nat /\ N * (x + s) = N * x + s * N /\ s * N \in Nat
        /\ s * N # 0
    <3>1. N * x \in Nat /\ s * N \in Nat
      BY <2>1
    <3>2. N * (x + s) = N * x + s * N
      BY <2>1
    <3>3. s * N # 0
      BY <2>1
    <3>. QED
      BY <3>1, <3>2, <3>3
  <2>. QED
    BY <2>2, <2>3 DEF s
<1>8. C[G] = N * NPages /\ C[0] = 0
  <2>1. G \in 0..G /\ 0 \in 0..G
    BY <1>1
  <2>2. C[G] = N * NPages /\ C[0] = N * 0
    BY <1>4, <1>6, <2>1
  <2>3. N * 0 = 0
    BY DEF N
  <2>. QED
    BY <2>2, <2>3
<1>9. Stairs(G, C)
  <2>1. \A g \in 0..G - 1 : C[g] < C[g + 1]
    <3>. TAKE g \in 0..G - 1
    <3>. DEFINE d == Size(g) * N
    <3>1. C[g] \in Nat /\ C[g + 1] = C[g] + d /\ d \in Nat \ {0}
      BY <1>7
    <3>. HIDE DEF d
    <3>. QED
      BY <3>1
  <2>2. \A g \in 0..G : C[g] \in Nat
    <3>. TAKE g \in 0..G
    <3>1. CASE g = G
      <4>1. N * NPages \in Nat
        BY DEF N
      <4>. QED
        BY <1>8, <3>1, <4>1
    <3>2. CASE g # G
      <4>1. g \in 0..G - 1
        BY <1>1, <3>2
      <4>. QED
        BY <1>7, <4>1
    <3>. QED
      BY <3>1, <3>2
  <2>3. C \in [0..G -> Nat]
    BY <1>5, <2>2
  <2>. QED
    BY Zenon, <1>1, <1>8, <2>1, <2>3 DEF Stairs
<1>10. ASSUME NEW g \in 0..G - 1
       PROVE  Cells(C, g) = 0..Size(g) * N - 1 /\ LastCell(C, g) = Size(g) * N - 1
  <2>. DEFINE d == Size(g) * N
              x == C[g]
              y == C[g + 1]
  <2>1. x \in Nat /\ y = x + d /\ d \in Nat \ {0}
    BY <1>7
  <2>2. Cells(C, g) = 0..y - (x + 1) /\ LastCell(C, g) = y - (x + 1)
    BY DEF Cells, LastCell
  <2>. HIDE DEF d, x, y
  <2>3. y - (x + 1) = d - 1
    BY <2>1
  <2>. QED
    BY Zenon, <2>2, <2>3 DEF d
<1>. QED
  BY Zenon, <1>8, <1>9, <1>10 DEF C, G, N

LEMMA RegroupedCircle ==
  ASSUME layout \in Layouts, pages \in Orders(layout), layout.group > 1,
         PowerOfTwo(NLines), PowerOfTwo(NWords), NEW m, MemGo(m)
  PROVE  Circle(Regrouped(m), pages[0], NWords * (NLines * NPages), MemWords)
<1>. DEFINE W == NWords
            N == NLines
            P == NPages
            G == Groups
            C == GroupStairs
            M == Regrouped(m)
            S == MemWords
            a == [g \in 0..G - 1 |-> [x \in Nat |-> Lead(g) + (x % Size(g))]]
            b == [g \in 0..G - 1 |-> [x \in Nat |-> x \div Size(g)]]
<1>1. layout.kind = "mem" /\ layout.len % layout.page = 0
  BY LayoutsAssumption
<1>2. /\ N \in Nat \ {0} /\ N >= 2 /\ P \in Nat \ {0}
      /\ \A i \in 0..P - 1 : LinesIn(i) = N - 1
  BY <1>1, WholePages
<1>3. /\ G \in Nat \ {0} /\ Lead(0) = 0
      /\ \A g \in 0..G - 1 :
               /\ Lead(g) \in Nat /\ Size(g) \in Nat \ {0}
               /\ Lead(g) + Size(g) <= P
               /\ g # G - 1 => Lead(g + 1) = Lead(g) + Size(g)
               /\ g = G - 1 => P = Lead(g) + Size(g)
               /\ \A y \in 0..Size(g) - 1 :
                     /\ GroupOf(Lead(g) + y) = Lead(g)
                     /\ LastOf(Lead(g) + y) = Lead(g) + Size(g) - 1
      /\ \A i \in 0..P - 1 : \E g \in 0..G - 1 :
               \E y \in 0..Size(g) - 1 : i = Lead(g) + y
      /\ \A g, h \in 0..G - 1 : Lead(g) = Lead(h) => g = h
  BY <1>2, GroupFacts
<1>4. /\ Stairs(G, C) /\ C[G] = N * P
      /\ \A g \in 0..G - 1 : /\ Cells(C, g) = 0..Size(g) * N - 1
                             /\ LastCell(C, g) = Size(g) * N - 1
  BY <1>2, GroupSections
<1>5. \A g \in 0..G - 1 : \A x \in Nat :
         a[g][x] = Lead(g) + (x % Size(g)) /\ b[g][x] = x \div Size(g)
  OBVIOUS
<1>. HIDE DEF a, b, C, G, P, N, W, M, S
<1>6. ASSUME NEW i \in 0..P - 1
      PROVE  GroupOf(i) \in 0..P - 1
  <2>1. PICK g \in 0..G - 1 : \E y \in 0..Size(g) - 1 : i = Lead(g) + y
    BY <1>3
  <2>2. PICK y \in 0..Size(g) - 1 : i = Lead(g) + y
    BY <2>1
  <2>3. GroupOf(i) = Lead(g)
    BY <1>3, <2>2
  <2>. QED
    BY <1>2, <1>3, <2>3
<1>7. GroupOf(0) = 0 /\ LastOf(P - 1) = P - 1
  <2>1. 0 \in 0..G - 1 /\ G - 1 \in 0..G - 1
    BY <1>3
  <2>2. 0 \in 0..Size(0) - 1 /\ 0 = Lead(0) + 0
    BY <1>3, <2>1
  <2>3. GroupOf(0) = 0
    BY <1>3, <2>1, <2>2
  <2>. DEFINE l == Lead(G - 1)
              s == Size(G - 1)
  <2>4. /\ l \in Nat /\ s \in Nat \ {0} /\ P = l + s
        /\ \A y \in 0..s - 1 : LastOf(l + y) = l + s - 1
    BY <1>3, <2>1
  <2>. HIDE DEF l, s
  <2>5. s - 1 \in 0..s - 1 /\ P - 1 = l + (s - 1) /\ l + s - 1 = P - 1
    BY <2>4
  <2>. QED
    BY <2>3, <2>4, <2>5
<1>8. GroupGo(M)
  BY <1>6, <1>7, GroupsLinked DEF P, M
<1>9. /\ \A i, j, k : Cell(i, j, k) = WordOf(i, j, WordAt(k))
      /\ \A k \in 0..W - 1 : WordAt(k) \in 0..W - 1
  BY CellIs DEF W
<1>10. ASSUME NEW g \in 0..G - 1, NEW x \in Cells(C, g)
       PROVE  /\ x \in Nat /\ x + 1 \in Nat
              /\ x % Size(g) \in 0..Size(g) - 1 /\ x \div Size(g) \in 0..N - 1
              /\ x = Size(g) * (x \div Size(g)) + (x % Size(g))
              /\ x % Size(g) # Size(g) - 1 =>
                    /\ (x + 1) % Size(g) = (x % Size(g)) + 1
                    /\ (x + 1) \div Size(g) = x \div Size(g)
              /\ x % Size(g) = Size(g) - 1 =>
                    /\ (x + 1) % Size(g) = 0
                    /\ (x + 1) \div Size(g) = x \div Size(g) + 1
              /\ x = LastCell(C, g) =>
                    x % Size(g) = Size(g) - 1 /\ x \div Size(g) = N - 1
              /\ a[g][x] \in 0..P - 1 /\ b[g][x] \in 0..N - 1
              /\ GroupOf(a[g][x]) = Lead(g)
              /\ LastOf(a[g][x]) = Lead(g) + Size(g) - 1
  <2>. DEFINE s == Size(g)
  <2>1. s \in Nat \ {0} /\ x \in 0..s * N - 1 /\ LastCell(C, g) = s * N - 1
    BY <1>3, <1>4
  <2>. HIDE DEF s
  <2>2. /\ x \in Nat /\ x % s \in 0..s - 1 /\ x \div s \in 0..N - 1
        /\ x = s * (x \div s) + (x % s)
        /\ x % s # s - 1 =>
              (x + 1) % s = (x % s) + 1 /\ (x + 1) \div s = x \div s
        /\ x % s = s - 1 => (x + 1) % s = 0 /\ (x + 1) \div s = x \div s + 1
        /\ x = s * N - 1 => x % s = s - 1 /\ x \div s = N - 1
    BY <1>2, <2>1, DivStep
  <2>. DEFINE y == x % s
  <2>3. y \in 0..s - 1 /\ a[g][x] = Lead(g) + y /\ b[g][x] = x \div s
    BY <1>5, <2>2 DEF s
  <2>. HIDE DEF y
  <2>4. /\ Lead(g) + y \in 0..P - 1 /\ GroupOf(Lead(g) + y) = Lead(g)
        /\ LastOf(Lead(g) + y) = Lead(g) + s - 1
    <3>1. /\ Lead(g) \in Nat /\ Lead(g) + s <= P
          /\ GroupOf(Lead(g) + y) = Lead(g)
          /\ LastOf(Lead(g) + y) = Lead(g) + s - 1
      BY <1>3, <2>3 DEF s
    <3>. QED
      BY <1>2, <2>1, <2>3, <3>1
  <2>. QED
    <3>1. a[g][x] = Lead(g) + y /\ b[g][x] = x \div s /\ s = Size(g)
      BY <2>3 DEF s
    <3>2. /\ a[g][x] \in 0..P - 1 /\ b[g][x] \in 0..N - 1
          /\ GroupOf(a[g][x]) = Lead(g) /\ LastOf(a[g][x]) = Lead(g) + s - 1
      BY Zenon, <2>2, <2>4, <3>1
    <3>3. x \in Nat /\ x + 1 \in Nat
      BY <2>2
    <3>. QED
      BY Zenon, <2>1, <2>2, <3>1, <3>2, <3>3
<1>11. \A g \in 0..G - 1 : \A x \in Cells(C, g) :
          a[g][x] \in 0..P - 1 /\ b[g][x] \in 0..N - 1
  BY <1>10
<1>12. \A g, h \in 0..G - 1 : \A x \in Cells(C, g) : \A y \in Cells(C, h) :
          a[g][x] = a[h][y] /\ b[g][x] = b[h][y] => g = h /\ x = y
  <2>. SUFFICES ASSUME NEW g \in 0..G - 1, NEW h \in 0..G - 1,
                       NEW x \in Cells(C, g), NEW y \in Cells(C, h),
                       a[g][x] = a[h][y], b[g][x] = b[h][y]
                PROVE  g = h /\ x = y
    OBVIOUS
  <2>1. Lead(g) = Lead(h)
    BY <1>10
  <2>2. g = h
    BY <1>3, <2>1
  <2>. DEFINE s == Size(g)
              d == x \div s
              e == x % s
              f == y \div s
              t == y % s
  <2>3. /\ x \in Nat /\ x = s * d + e /\ e \in 0..s - 1
        /\ a[g][x] = Lead(g) + e /\ b[g][x] = d
    <3>1. x \in Nat /\ x = s * d + e /\ e \in 0..s - 1
      BY <1>10
    <3>. QED
      BY <1>5, <3>1
  <2>4. /\ y \in Nat /\ y = s * f + t /\ t \in 0..s - 1
        /\ a[g][y] = Lead(g) + t /\ b[g][y] = f
    <3>1. y \in Cells(C, g)
      BY <2>2
    <3>2. y \in Nat /\ y = s * f + t /\ t \in 0..s - 1
      BY <1>10, <3>1
    <3>. QED
      BY <1>5, <3>2
  <2>5. Lead(g) \in Nat /\ Lead(g) + e = Lead(g) + t /\ d = f
    BY <1>3, <2>2, <2>3, <2>4
  <2>. HIDE DEF s, d, e, f, t
  <2>6. e = t
    BY <2>3, <2>4, <2>5
  <2>. QED
    BY Zenon, <2>2, <2>3, <2>4, <2>5, <2>6
<1>13. \A k \in 0..W - 1 : \A g \in 0..G - 1 : \A x \in Cells(C, g) :
          x # LastCell(C, g) =>
             Goes(M, Cell(a[g][x], b[g][x], k), Cell(a[g][x + 1], b[g][x + 1], k))
  <2>. SUFFICES ASSUME NEW k \in 0..W - 1, NEW g \in 0..G - 1,
                       NEW x \in Cells(C, g), x # LastCell(C, g)
                PROVE  Goes(M, Cell(a[g][x], b[g][x], k),
                               Cell(a[g][x + 1], b[g][x + 1], k))
    OBVIOUS
  <2>0. x + 1 \in Cells(C, g)
    BY <1>4, CellsOf
  <2>. DEFINE s == Size(g)
              d == x \div s
              e == x % s
              i == Lead(g) + e
              w == WordAt(k)
  <2>1. /\ e \in 0..s - 1 /\ d \in 0..N - 1 /\ i \in 0..P - 1
        /\ a[g][x] = i /\ b[g][x] = d
        /\ GroupOf(i) = Lead(g) /\ LastOf(i) = Lead(g) + s - 1
    BY <1>5, <1>10
  <2>2. w \in 0..W - 1
    BY <1>9
  <2>3. Lead(g) \in Nat /\ s \in Nat \ {0}
    BY <1>3
  <2>4. CASE e # s - 1
    <3>1. a[g][x + 1] = Lead(g) + (e + 1) /\ b[g][x + 1] = d
      BY <1>5, <1>10, <2>4
    <3>. HIDE DEF s, d, e, w
    <3>2. i < LastOf(i) /\ Lead(g) + (e + 1) = i + 1
      BY <2>1, <2>3, <2>4
    <3>. HIDE DEF i
    <3>3. Goes(M, WordOf(i, d, w), WordOf(i + 1, d, w))
      BY <1>8, <2>1, <2>2, <3>2 DEF GroupGo, P, N, W
    <3>. QED
      BY Zenon, <1>9, <2>1, <3>1, <3>2, <3>3 DEF w
  <2>5. CASE e = s - 1
    <3>1. a[g][x + 1] = Lead(g) + 0 /\ b[g][x + 1] = d + 1
      BY <1>5, <1>10, <2>5
    <3>2. d + 1 \in 0..N - 1
      BY <1>10, <2>0, <3>1
    <3>. HIDE DEF s, d, e, w
    <3>3. i = LastOf(i) /\ Lead(g) + 0 = Lead(g) /\ d \in 0..N - 2
      BY <1>2, <2>1, <2>3, <2>5, <3>2
    <3>. HIDE DEF i
    <3>4. Goes(M, WordOf(i, d, w), WordOf(GroupOf(i), d + 1, w))
      BY <1>8, <2>1, <2>2, <3>3 DEF GroupGo, P, N, W
    <3>. QED
      BY Zenon, <1>9, <2>1, <3>1, <3>3, <3>4 DEF w
  <2>. QED
    BY <2>4, <2>5
<1>14. \A g \in 0..G - 1 :
          /\ LastCell(C, g) \in Cells(C, g) /\ 0 \in Cells(C, g)
          /\ a[g][LastCell(C, g)] = Lead(g) + Size(g) - 1
          /\ a[g][LastCell(C, g)] = LastOf(a[g][LastCell(C, g)])
          /\ a[g][LastCell(C, g)] \in 0..P - 1
          /\ b[g][LastCell(C, g)] = N - 1
          /\ a[g][0] = Lead(g) /\ b[g][0] = 0
  <2>. TAKE g \in 0..G - 1
  <2>1. LastCell(C, g) \in Cells(C, g) /\ 0 \in Cells(C, g)
    BY <1>4, CellsOf
  <2>. DEFINE x == LastCell(C, g)
              s == Size(g)
  <2>2. s \in Nat \ {0} /\ Lead(g) \in Nat
    BY <1>3
  <2>3. x \in Cells(C, g)
    BY <2>1
  <2>4. /\ a[g][x] = Lead(g) + (s - 1) /\ b[g][x] = N - 1 /\ a[g][x] \in 0..P - 1
        /\ LastOf(a[g][x]) = Lead(g) + s - 1
    BY <1>5, <1>10, <2>3
  <2>5. a[g][0] = Lead(g) + (0 % s) /\ b[g][0] = 0 \div s
    BY <1>5
  <2>. HIDE DEF s, x
  <2>6. 0 % s = 0 /\ 0 \div s = 0
    <3>1. s * 0 <= 0 /\ 0 < s * 0 + s
      BY <2>2
    <3>2. 0 \div s = 0 /\ 0 % s = 0 - s * 0
      BY <2>2, <3>1, DivBetween
    <3>. QED
      BY <2>2, <3>2
  <2>7. a[g][0] = Lead(g) /\ b[g][0] = 0
    BY <2>2, <2>5, <2>6
  <2>. QED
    BY <2>1, <2>2, <2>4, <2>7 DEF s, x
<1>15. \A k \in 0..W - 1 : \A g \in 0..G - 2 :
          Goes(M, Cell(a[g][LastCell(C, g)], b[g][LastCell(C, g)], k),
                  Cell(a[g + 1][0], b[g + 1][0], k))
  <2>. SUFFICES ASSUME NEW k \in 0..W - 1, NEW g \in 0..G - 2
                PROVE  Goes(M, Cell(a[g][LastCell(C, g)], b[g][LastCell(C, g)], k),
                               Cell(a[g + 1][0], b[g + 1][0], k))
    OBVIOUS
  <2>. DEFINE i == a[g][LastCell(C, g)]
  <2>1. g \in 0..G - 1 /\ g + 1 \in 0..G - 1 /\ g # G - 1
    BY <1>3
  <2>2. /\ i = Lead(g) + Size(g) - 1 /\ i = LastOf(i)
        /\ b[g][LastCell(C, g)] = N - 1
        /\ a[g + 1][0] = Lead(g + 1) /\ b[g + 1][0] = 0
    BY <1>14, <2>1
  <2>3. /\ Lead(g + 1) = Lead(g) + Size(g) /\ Lead(g) \in Nat
        /\ Size(g) \in Nat \ {0} /\ Lead(g + 1) + Size(g + 1) <= P
        /\ Size(g + 1) \in Nat \ {0}
    BY <1>3, <2>1
  <2>. HIDE DEF i
  <2>4. i \in 0..P - 2 /\ i + 1 = Lead(g + 1)
    BY <1>2, <2>2, <2>3
  <2>5. Goes(M, Cell(i, N - 1, k), Cell(i + 1, 0, k))
    BY <1>8, <2>2, <2>4 DEF GroupGo, P, N, W
  <2>. QED
    BY Zenon, <2>2, <2>4, <2>5 DEF i
<1>16. \A k \in 0..W - 1 :
          Goes(M, Cell(a[G - 1][LastCell(C, G - 1)],
                       b[G - 1][LastCell(C, G - 1)], k),
                  Cell(a[0][0], b[0][0], NextWord(k)))
  <2>. TAKE k \in 0..W - 1
  <2>1. G - 1 \in 0..G - 1 /\ 0 \in 0..G - 1
    BY <1>3
  <2>. DEFINE g == G - 1
              i == a[g][LastCell(C, g)]
  <2>2. /\ i = Lead(g) + Size(g) - 1 /\ b[g][LastCell(C, g)] = N - 1
        /\ a[0][0] = 0 /\ b[0][0] = 0
    BY <1>3, <1>14, <2>1
  <2>3. P = Lead(g) + Size(g) /\ Lead(g) \in Nat /\ Size(g) \in Nat \ {0}
    BY <1>3, <2>1
  <2>. HIDE DEF i, g
  <2>4. i = P - 1
    BY <2>2, <2>3
  <2>5. Goes(M, Cell(P - 1, N - 1, k), Cell(0, 0, NextWord(k)))
    BY <1>8 DEF GroupGo, P, N, W
  <2>. QED
    BY Zenon, <2>2, <2>4, <2>5 DEF i, g
<1>17. /\ \A i \in 0..P - 1 : \A j \in 0..N - 1 : \A k \in 0..W - 1 :
             Cell(i, j, k) \in S
       /\ \A c \in S : \E i \in 0..P - 1 : \E j \in 0..N - 1 :
             \E k \in 0..W - 1 : c = Cell(i, j, k)
  BY <1>2, MemWordsAre DEF P, W, S
<1>18. \A k \in 0..W - 1 : \A g \in 0..G - 1 : \A x \in Cells(C, g) :
          Cell(a[g][x], b[g][x], k) \in S
  BY <1>11, <1>17
<1>19. \A c \in S : \E k \in 0..W - 1 : \E g \in 0..G - 1 :
          \E x \in Cells(C, g) : c = Cell(a[g][x], b[g][x], k)
  <2>. TAKE c \in S
  <2>1. PICK i \in 0..P - 1, j \in 0..N - 1, k \in 0..W - 1 : c = Cell(i, j, k)
    BY <1>17
  <2>2. PICK g \in 0..G - 1 : \E y \in 0..Size(g) - 1 : i = Lead(g) + y
    BY <1>3
  <2>3. PICK y \in 0..Size(g) - 1 : i = Lead(g) + y
    BY <2>2
  <2>. DEFINE s == Size(g)
              u == s * j
              v == s * N
              x == u + y
  <2>4. s \in Nat \ {0} /\ j \in Nat /\ j < N /\ y \in 0..s - 1
    BY <1>2, <1>3
  <2>. HIDE DEF s
  <2>5. u \in Nat /\ v \in Nat /\ u + s <= v
    BY <1>2, <2>4, Rows
  <2>. HIDE DEF u, v
  <2>6. x \in Nat /\ u <= x /\ x < u + s /\ x \in 0..v - 1
    BY <2>4, <2>5
  <2>7. x - u = y
    BY <2>4, <2>5
  <2>. HIDE DEF x
  <2>8. x \div s = j /\ x % s = x - u
    <3>1. s * j <= x /\ x < s * j + s
      BY <2>6 DEF u
    <3>2. x \in Nat /\ s \in Nat \ {0} /\ j \in Int
      BY <2>4, <2>6
    <3>3. \A q \in Int : s * q <= x /\ x < s * q + s =>
             x \div s = q /\ x % s = x - s * q
      BY <3>2, DivBetween
    <3>4. x \div s = j /\ x % s = x - s * j
      BY <3>1, <3>2, <3>3
    <3>. QED
      BY <3>4 DEF u
  <2>9. x \in Cells(C, g)
    BY <1>4, <2>6 DEF v, s
  <2>10. a[g][x] = i /\ b[g][x] = j
    BY <1>5, <2>3, <2>6, <2>7, <2>8 DEF s
  <2>11. c = Cell(a[g][x], b[g][x], k)
    BY Zenon, <2>1, <2>10
  <2>. QED
    BY <2>9, <2>11
<1>20. Circle(M, Cell(a[0][0], b[0][0], 0), W * C[G], S)
  BY <1>4, <1>11, <1>12, <1>13, <1>15, <1>16, <1>18, <1>19, WordRounds
     DEF W, N, P
<1>21. a[0][0] = 0 /\ b[0][0] = 0
  <2>1. 0 \in 0..G - 1
    BY <1>3
  <2>. QED
    BY <1>3, <1>14, <2>1
<1>22. Circle(M, pages[0], W * (N * P), S)
  BY Zenon, <1>4, <1>20, <1>21, CellZero
<1>. QED
  BY Zenon, <1>22 DEF M, N, P, S, W

-----------------------------------------------------------------------------
(* Words that coincide.                                                    *)

\* A walk of n pointers among n words or fewer has come back to one of
\* them: what it has visited is closed, whichever way the words are linked.
LEMMA PathClosed ==
  ASSUME NEW m, NEW V, IsFiniteSet(V), NEW n \in Nat, Cardinality(V) <= n,
         Closed(m, V), NEW a \in V
  PROVE  /\ Closed(m, Range(Path(m, a, n)))
         /\ a \in Range(Path(m, a, n))
<1>. DEFINE q == Path(m, a, n)
            R == Range(q)
<1>1. DOMAIN q = 0..n /\ q[0] = a
  BY PathIs
<1>2. \A k \in 1..n : q[k] = Follow(m, q[k - 1])
  BY PathIs
<1>3. \A k \in 0..n : q[k] \in V
  BY PathWithin
<1>. HIDE DEF q
<1>4. R = {q[k] : k \in 0..n}
  BY <1>1 DEF Range
<1>. HIDE DEF R
<1>5. \A k \in 0..n : q[k] \in DOMAIN m /\ Follow(m, q[k]) = m[q[k]]
  BY <1>3 DEF Closed, Follow
<1>6. PICK i \in 0..n : \E j \in 0..n : i < j /\ q[i] = q[j]
  <2>. DEFINE f == [k \in 0..n |-> q[k]]
  <2>1. f \in [0..n -> V]
    BY <1>3
  <2>2. IsFiniteSet(0..n) /\ Cardinality(0..n) = n + 1
    <3>1. 0 \in Int /\ n \in Int /\ ~(0 > n)
      OBVIOUS
    <3>2. IsFiniteSet(0..n) /\ Cardinality(0..n) = n - 0 + 1
      BY <3>1, FS_Interval
    <3>. QED
      BY <3>2
  <2>3. Cardinality(V) < Cardinality(0..n)
    <3>1. Cardinality(V) \in Nat
      BY FS_CardinalityType
    <3>. QED
      BY <2>2, <3>1
  <2>. HIDE DEF f
  <2>4. \E x, y \in 0..n : x # y /\ f[x] = f[y]
    BY <2>1, <2>2, <2>3, FS_PigeonHole
  <2>5. \A k \in 0..n : f[k] = q[k]
    BY DEF f
  <2>6. PICK x \in 0..n, y \in 0..n : x # y /\ f[x] = f[y]
    BY <2>4
  <2>7. q[x] = q[y]
    BY <2>5, <2>6
  <2>. QED
    BY <2>6, <2>7
<1>7. PICK j \in 0..n : i < j /\ q[i] = q[j]
  BY <1>6
<1>8. \A d \in 0..n - j : q[i + d] = q[j + d]
  <2>. DEFINE Off == {d \in 0..n - j : q[i + d] # q[j + d]}
  <2>1. ASSUME Off # {}
        PROVE  FALSE
    <3>0. Off \in SUBSET Nat
      BY <1>7
    <3>1. PICK d \in Off : \A e \in Off : d <= e
      BY Zenon, <2>1, <3>0, LeastNatural
    <3>2. d \in 0..n - j /\ q[i + d] # q[j + d]
      BY <3>1
    <3>3. d # 0
      BY <1>7, <3>2
    <3>. DEFINE c == d - 1
    <3>4. /\ c \in 0..n - j /\ i + d \in 1..n /\ j + d \in 1..n
          /\ i + d - 1 = i + c /\ j + d - 1 = j + c /\ ~(d <= c)
      BY <1>7, <3>2, <3>3
    <3>5. q[i + c] = q[j + c]
      BY <3>1, <3>4
    <3>6. q[i + d] = Follow(m, q[i + c]) /\ q[j + d] = Follow(m, q[j + c])
      BY <1>2, <3>4
    <3>. QED
      BY Zenon, <3>2, <3>5, <3>6
  <2>. QED
    BY <2>1
<1>9. \A k \in 0..n : m[q[k]] \in R
  <2>. TAKE k \in 0..n
  <2>1. CASE k # n
    <3>1. k + 1 \in 1..n /\ k + 1 \in 0..n /\ (k + 1) - 1 = k
      BY <2>1
    <3>2. q[k + 1] = m[q[k]]
      BY <1>2, <1>5, <3>1
    <3>. QED
      BY <1>4, <3>1, <3>2
  <2>2. CASE k = n
    <3>. DEFINE l == i + (n - j)
    <3>1. /\ n - j \in 0..n - j /\ j + (n - j) = n /\ l + 1 \in 1..n
          /\ l + 1 \in 0..n /\ (l + 1) - 1 = l /\ l \in 0..n
      BY <1>7
    <3>2. q[l] = q[n]
      BY <1>8, <3>1
    <3>. HIDE DEF l
    <3>3. q[l + 1] = m[q[n]]
      BY <1>2, <1>5, <3>1, <3>2
    <3>. QED
      BY <1>4, <2>2, <3>1, <3>3
  <2>. QED
    BY <2>1, <2>2
<1>10. Closed(m, R)
  <2>. SUFFICES ASSUME NEW x \in R
                PROVE  x \in DOMAIN m /\ m[x] \in R
    BY DEF Closed
  <2>1. PICK k \in 0..n : x = q[k]
    BY <1>4
  <2>. QED
    BY <1>5, <1>9, <2>1
<1>11. a \in R
  <2>1. 0 \in 0..n
    OBVIOUS
  <2>. QED
    BY <1>1, <1>4, <2>1
<1>. QED
  BY <1>10, <1>11 DEF q, R

\* The words of a length that is no multiple of a page, even when some
\* coincide: each is linked to another one of them.
LEMMA PartClosed ==
  ASSUME layout \in Layouts, layout.kind = "thrash", NEW m
  PROVE  LET M == Linked(m, ThrashPartLinks)
             R == Range(Path(M, 0, NPointers))
         IN  Closed(M, R) /\ 0 \in R
<1>. DEFINE b == layout.line
            n == NPointers
            w(i) == Word(n, b, i)
            last(a) == CHOOSE i \in 0..n - 1 :
                          w(i) = a /\ \A j \in i + 1..n - 1 : w(j) # a
            To(a) == IF last(a) = n - 1 THEN 0 ELSE w(last(a) + 1)
            v == [x \in 0..n - 1 |-> w(x)]
            V == {w(i) : i \in 0..n - 1}
            M == Linked(m, ThrashPartLinks)
<1>1. b \in Nat \ {0} /\ layout.len \in Nat \ {0}
  BY LayoutFacts
<1>2. n \in Nat \ {0}
  <2>. DEFINE l == layout.len
  <2>1. l \in Nat /\ b <= l
    BY <1>1, LayoutsAssumption
  <2>. HIDE DEF b, l
  <2>2. b * 1 <= b /\ b < b * 1 + b
    BY <1>1
  <2>3. b \div b = 1
    BY <1>1, <2>2, DivBetween
  <2>4. b \div b <= l \div b
    BY <1>1, <2>1, DivGrows
  <2>5. l \div b \in Nat
    BY <1>1, <2>1, Euclid
  <2>. QED
    BY <2>3, <2>4, <2>5 DEF NPointers, l, b
<1>3. ThrashPartLinks = {<<a, To(a)>> : a \in V}
  BY DEF ThrashPartLinks
<1>4. \A i : w(i) = b * Turned(n, i)
  BY DEF Word, Turned
<1>5. w(0) = 0
  <2>1. Turned(n, 0) = 0
    BY <1>2, TurnedZero
  <2>2. b * 0 = 0
    BY <1>1
  <2>. QED
    BY Zenon, <1>4, <2>1, <2>2
<1>. HIDE DEF n, w
<1>6. 0 \in V
  <2>1. 0 \in 0..n - 1
    BY <1>2
  <2>. QED
    BY <1>5, <2>1
<1>7. ASSUME NEW a \in V
      PROVE  last(a) \in 0..n - 1
  <2>. DEFINE D == {d \in 0..n - 1 : w(n - 1 - d) = a}
  <2>1. PICK i \in 0..n - 1 : a = w(i)
    OBVIOUS
  <2>2. n - 1 - i \in D
    <3>1. n - 1 - i \in 0..n - 1 /\ n - 1 - (n - 1 - i) = i
      BY <1>2
    <3>. QED
      BY <2>1, <3>1
  <2>3. D \in SUBSET Nat /\ D # {}
    BY <2>2
  <2>4. PICK d \in D : \A e \in D : d <= e
    BY Zenon, <2>3, LeastNatural
  <2>. DEFINE h == n - 1 - d
  <2>5. h \in 0..n - 1 /\ w(h) = a
    BY <1>2, <2>4
  <2>6. \A j \in h + 1..n - 1 : w(j) # a
    <3>. TAKE j \in h + 1..n - 1
    <3>. DEFINE e == n - 1 - j
    <3>1. d \in 0..n - 1
      BY <2>4
    <3>2. e \in 0..n - 1 /\ n - 1 - e = j /\ ~(d <= e)
      BY <1>2, <3>1
    <3>3. e \notin D
      BY <2>4, <3>2
    <3>. QED
      BY <3>2, <3>3
  <2>. HIDE DEF h, D
  <2>. QED
    BY <2>5, <2>6
<1>. HIDE DEF last
<1>8. \A a \in V : To(a) \in V
  <2>. TAKE a \in V
  <2>1. last(a) \in 0..n - 1
    BY <1>7
  <2>2. CASE last(a) = n - 1
    BY <1>6, <2>2
  <2>3. CASE last(a) # n - 1
    <3>1. last(a) + 1 \in 0..n - 1
      BY <1>2, <2>1, <2>3
    <3>. QED
      BY <2>3, <3>1
  <2>. QED
    BY <2>2, <2>3
<1>. HIDE DEF To
<1>9. Closed(M, V)
  <2>. SUFFICES ASSUME NEW a \in V
                PROVE  a \in DOMAIN M /\ M[a] \in V
    BY DEF Closed
  <2>1. <<a, To(a)>> \in ThrashPartLinks
    BY <1>3
  <2>2. \A y \in ThrashPartLinks : y[1] = a => y[2] = To(a)
    BY <1>3
  <2>3. Goes(M, a, To(a))
    BY Zenon, <2>1, <2>2, LinkedAt
  <2>. QED
    BY <1>8, <2>3 DEF Goes
<1>10. IsFiniteSet(V) /\ Cardinality(V) <= n
  <2>1. v \in Surjection(0..n - 1, V)
    <3>1. v \in [0..n - 1 -> V]
      OBVIOUS
    <3>2. \A a \in V : \E i \in 0..n - 1 : v[i] = a
      OBVIOUS
    <3>. QED
      BY <3>1, <3>2 DEF Surjection
  <2>2. IsFiniteSet(0..n - 1) /\ Cardinality(0..n - 1) = n
    <3>1. 0 \in Int /\ n - 1 \in Int /\ ~(0 > n - 1)
      BY <1>2
    <3>2. /\ IsFiniteSet(0..n - 1)
          /\ Cardinality(0..n - 1) = (n - 1) - 0 + 1
      BY <3>1, FS_Interval
    <3>. QED
      BY <1>2, <3>2
  <2>. HIDE DEF v, V
  <2>3. IsFiniteSet(V) /\ Cardinality(V) <= Cardinality(0..n - 1)
    BY <2>1, <2>2, FS_Surjection
  <2>. QED
    BY <2>2, <2>3
<1>. HIDE DEF V, M
<1>11. n \in Nat
  BY <1>2
<1>12. /\ Closed(M, Range(Path(M, 0, n)))
       /\ 0 \in Range(Path(M, 0, n))
  BY <1>6, <1>9, <1>10, <1>11, PathClosed
<1>. QED
  BY <1>12 DEF M, n

-----------------------------------------------------------------------------
(* What each initializer builds.                                           *)

\* What regroup() leaves of a chain of mem_initialize() is a circle over
\* the same words.
LEMMA MemBuilt ==
  ASSUME layout \in Layouts, pages \in Orders(layout), layout.kind = "mem",
         PowerOfTwo(NLines), PowerOfTwo(NWords), NEW m, MemGo(m)
  PROVE  /\ Circle(m, First, Whole, MemWords)
         /\ Circle(Regrouped(m), First, Whole, MemWords)
<1>1. /\ Whole = NWords * Lesser(NPointers + NPages - 1, NPages * NLines)
      /\ First = pages[0]
  BY DEF Whole, First, InPart
<1>2. Circle(m, First, Whole, MemWords)
  BY Zenon, <1>1, MemCircle
<1>3. CASE layout.group = 1
  <2>1. Regrouped(m) = m
    BY <1>3 DEF Regrouped
  <2>. QED
    BY Zenon, <1>2, <2>1
<1>4. CASE layout.group # 1
  <2>1. layout.group > 1
    BY <1>4, LayoutFacts
  <2>2. layout.len % layout.page = 0
    BY <2>1, LayoutsAssumption
  <2>3. /\ NLines \in Nat /\ NLines >= 2 /\ NPages \in Nat \ {0}
        /\ NPointers = NPages * NLines
    BY <2>2, WholePages
  <2>. DEFINE P == NPages
              N == NLines
              T == P * N
              U == N * P
  <2>4. T \in Nat /\ T = U
    BY <2>3
  <2>5. NPointers = T
    BY <2>3
  <2>. HIDE DEF P, T, U
  <2>6. P \in Nat \ {0}
    BY <2>3 DEF P
  <2>7. Lesser(NPointers + P - 1, T) = U
    BY <2>4, <2>5, <2>6 DEF Lesser
  <2>8. Whole = NWords * (NLines * NPages)
    BY Zenon, <1>1, <2>7 DEF P, T, U
  <2>9. Circle(Regrouped(m), pages[0], NWords * (NLines * NPages), MemWords)
    BY <2>1, RegroupedCircle
  <2>. QED
    BY Zenon, <1>1, <1>2, <2>8, <2>9
<1>. QED
  BY <1>3, <1>4

\* A circle is the circle of what its walk visits.
LEMMA CircleOwn ==
  ASSUME NEW m, NEW a, NEW n, NEW S, Circle(m, a, n, S)
  PROVE  Circle(m, a, n, Range(Path(m, a, n)))
BY Zenon, CirclePath

\* Only lat_dram_page regroups.
LEMMA NotRegrouped ==
  ASSUME layout \in Layouts, layout.kind # "mem", NEW m
  PROVE  Regrouped(m) = m
<1>1. layout.group = 1
  BY LayoutFacts, LayoutsAssumption
<1>. QED
  BY <1>1 DEF Regrouped

\* The chain that each initializer links, over whatever the memory held, is
\* one circle from its first pointer, unless words coincide.
LEMMA LinkCircle ==
  ASSUME layout \in Layouts, pages \in Orders(layout), Distinct, NEW m
  PROVE  \E S : /\ Circle(Linked(m, Links), First, Whole, S)
                /\ Circle(Regrouped(Linked(m, Links)), First, Whole, S)
<1>. DEFINE M == Linked(m, Links)
<1>0. layout.kind \in {"stride", "thrash", "mem", "line", "tlb"}
  BY LayoutFacts
<1>1. CASE layout.kind = "stride"
  <2>1. /\ Links = StrideLinks /\ First = 0
        /\ Whole = CeilDiv(layout.len, layout.line)
    BY <1>1 DEF Links, First, Whole
  <2>2. \E S : Circle(M, First, Whole, S)
    BY <1>1, <2>1, StrideCircle
  <2>. QED
    BY Zenon, <1>1, <2>2, NotRegrouped
<1>2. CASE layout.kind = "tlb"
  <2>1. /\ Links = TlbLinks /\ First = pages[0]
        /\ Whole = layout.len \div layout.page
    BY <1>2 DEF Links, First, Whole, InPart
  <2>2. \E S : Circle(M, First, Whole, S)
    BY <1>2, <2>1, TlbCircle
  <2>. QED
    BY Zenon, <1>2, <2>2, NotRegrouped
<1>3. CASE layout.kind = "thrash" /\ InPart
  <2>1. Links = ThrashPartLinks /\ First = 0 /\ Whole = NPointers
    BY <1>3 DEF Links, First, Whole
  <2>2. PowerOfTwo(NPointers)
    BY <1>3 DEF Distinct
  <2>3. \E S : Circle(M, First, Whole, S)
    BY <1>3, <2>1, <2>2, PartCircle
  <2>. QED
    BY Zenon, <1>3, <2>3, NotRegrouped
<1>4. CASE layout.kind = "thrash" /\ ~InPart
  <2>1. Links = ThrashLinks /\ First = pages[0] /\ Whole = NPages * NLines
    BY <1>4 DEF Links, First, Whole
  <2>2. PowerOfTwo(NLines)
    BY <1>4 DEF Distinct
  <2>3. \E S : Circle(M, First, Whole, S)
    BY <2>1, <2>2, ThrashCircle
  <2>. QED
    BY Zenon, <1>4, <2>3, NotRegrouped
<1>5. CASE layout.kind = "line"
  <2>1. Links = LineLinks /\ First = pages[0] /\ Whole = NPages * NLines
    BY <1>5 DEF Links, First, Whole, InPart
  <2>2. PowerOfTwo(NLines)
    BY <1>5 DEF Distinct, InPart
  <2>3. NLines \in 1..NLines
    BY <2>2, PlaceFacts
  <2>4. LinesGo(M, NLines)
    BY <2>1, <2>2, LineLinked
  <2>5. Circle(M, First, Whole, LinePlaces(NLines))
    BY <2>1, <2>2, <2>3, <2>4, LinesCircle
  <2>. QED
    BY Zenon, <1>5, <2>5, NotRegrouped
<1>6. CASE layout.kind = "mem"
  <2>1. PowerOfTwo(NLines) /\ PowerOfTwo(NWords)
    BY <1>6 DEF Distinct, InPart
  <2>2. Links = MemLinks
    BY <1>6 DEF Links
  <2>3. MemGo(M)
    BY <1>6, <2>1, <2>2, MemLinked
  <2>4. /\ Circle(M, First, Whole, MemWords)
        /\ Circle(Regrouped(M), First, Whole, MemWords)
    BY <1>6, <2>1, <2>3, MemBuilt
  <2>. QED
    BY <2>4
<1>. QED
  BY Zenon, <1>0, <1>1, <1>2, <1>3, <1>4, <1>5, <1>6

\* What a walk visits that has just been linked is closed, for the chain
\* before regroup() and after it.
LEMMA LinkClosed ==
  ASSUME layout \in Layouts, pages \in Orders(layout), Distinct \/ InPart,
         NEW m
  PROVE  LET M == Linked(m, Links)
             R == Range(Path(Regrouped(M), First, Whole))
         IN  Closed(M, R) /\ Closed(Regrouped(M), R) /\ First \in R
<1>. DEFINE M == Linked(m, Links)
            R == Range(Path(Regrouped(M), First, Whole))
<1>1. CASE Distinct
  <2>1. PICK S : Circle(M, First, Whole, S) /\ Circle(Regrouped(M), First, Whole, S)
    BY <1>1, LinkCircle
  <2>2. R = S
    BY Zenon, <2>1, CirclePath
  <2>3. Closed(M, S) /\ Closed(Regrouped(M), S) /\ First \in S
    BY Zenon, <2>1, CircleClosed
  <2>. QED
    BY Zenon, <2>2, <2>3
<1>2. CASE InPart
  <2>1. layout.kind = "thrash"
    BY <1>2 DEF InPart
  <2>2. Links = ThrashPartLinks /\ First = 0 /\ Whole = NPointers
    BY <1>2, <2>1 DEF Links, First, Whole
  <2>3. Regrouped(M) = M
    BY <2>1, NotRegrouped
  <2>4. /\ Closed(M, Range(Path(M, 0, NPointers)))
        /\ 0 \in Range(Path(M, 0, NPointers))
    BY Zenon, <2>1, <2>2, PartClosed
  <2>. QED
    BY Zenon, <2>2, <2>3, <2>4
<1>. QED
  BY <1>1, <1>2

\* par_mem() starts its pointers at words of the chain.
LEMMA SpreadOn ==
  ASSUME layout \in Layouts, layout.kind = "mem", layout.len % layout.page = 0,
         NEW n \in 1..2, NEW j \in 0..n - 1
  PROVE  Spread(n, j) \in MemWords
<1>. DEFINE P == NPages
            N == NLines
            W == NWords
            T == N * P
            h == NPointers \div n
            line == j * h
            word == (j * W) \div n
<1>1. /\ N \in Nat /\ N >= 2 /\ P \in Nat \ {0} /\ NPointers = P * N
      /\ \A i \in 0..P - 1 : LinesIn(i) = N - 1
  BY WholePages
<1>2. W \in Nat \ {0}
  BY WordFacts
<1>3. Spread(n, j) = Cell(line \div N, line % N, word % W)
  BY DEF Spread, Cell
<1>. HIDE DEF P, N, W
<1>4. P * N = T
  BY <1>1
<1>5. T \in Nat \ {0} /\ NPointers = T
  <2>1. N \in Nat \ {0} /\ N * P >= N
    BY <1>1
  <2>. QED
    BY <1>1, <1>4, <2>1
<1>. HIDE DEF T
<1>6. h \in Nat /\ n * h <= T
  BY <1>5, Euclid
<1>. HIDE DEF h
<1>7. line \in 0..T - 1
  <2>1. CASE j = 0
    BY <1>5, <1>6, <2>1
  <2>2. CASE j = 1 /\ n = 2
    BY <1>5, <1>6, <2>2
  <2>. QED
    BY <2>1, <2>2
<1>8. word \in Nat
  <2>. DEFINE v == j * W
  <2>1. v \in Nat
    BY <1>2
  <2>. HIDE DEF v
  <2>2. v \div n \in Nat
    BY <2>1, Euclid
  <2>. QED
    BY <2>2 DEF v
<1>. HIDE DEF line, word
<1>9. line % N \in 0..N - 1 /\ line \div N \in 0..P - 1
  <2>1. N \in Nat \ {0} /\ line \in 0..N * P - 1
    BY <1>1, <1>7 DEF T
  <2>. QED
    BY <1>1, <2>1, DivStep
<1>10. word % W \in 0..W - 1
  BY <1>2, <1>8, Euclid
<1>11. line % N \in 0..LinesIn(line \div N)
  BY <1>1, <1>9
<1>12. \A i \in 0..P - 1 : \A l \in 0..LinesIn(i) : \A k \in 0..W - 1 :
          Cell(i, l, k) \in MemWords
  BY MemWordsAre DEF P, W
<1>. QED
  BY <1>3, <1>9, <1>10, <1>11, <1>12

\* Two pages that change places keep the links inside them.
LEMMA SwapInner ==
  ASSUME layout \in Layouts, pages \in Orders(layout), layout.kind = "mem",
         layout.len = layout.max, UNCHANGED <<layout, mem>>,
         NEW i \in DOMAIN pages, NEW j \in DOMAIN pages,
         pages' = [pages EXCEPT ![i] = pages[j], ![j] = pages[i]]
  PROVE  /\ pages' \in Orders(layout)
         /\ Inner(mem, Nil, Nil) => Inner(mem, Nil, Nil)'
<1>. DEFINE D == 0..CeilDiv(layout.max, layout.page) - 1
            R == {layout.page * h : h \in D}
<1>1. /\ pages \in [D -> R] /\ DOMAIN pages = D
      /\ \A g, h \in D : pages[g] = pages[h] => g = h
  BY DEF Orders
<1>2. i \in D /\ j \in D
  BY <1>1
<1>3. NPages' = NPages /\ D = 0..NPages - 1
  BY DEF NPages
<1>. HIDE DEF D, R
<1>4. \A h \in D : pages'[h] = IF h = j THEN pages[i]
                               ELSE IF h = i THEN pages[j] ELSE pages[h]
  BY <1>1, <1>2
<1>5. pages' \in [D -> R]
  BY <1>1, <1>2
<1>6. \A g, h \in D : pages'[g] = pages'[h] => g = h
  BY Zenon, <1>1, <1>2, <1>4
<1>7. pages' \in Orders(layout)
  BY <1>5, <1>6 DEF Orders, D, R
<1>8. \A h \in D : \E g \in D : pages'[h] = pages[g]
  BY Zenon, <1>2, <1>4
<1>9. ASSUME Inner(mem, Nil, Nil)
      PROVE  Inner(mem, Nil, Nil)'
  <2>1. NLines' = NLines /\ NWords' = NWords /\ \A l : LineAt(l)' = LineAt(l)
    BY DEF NLines, NWords, LineAt
  <2>2. SUFFICES ASSUME NEW h \in 0..NPages - 1, NEW l \in 0..NLines - 2,
                        NEW w \in 0..NWords - 1
                 PROVE  Goes(mem, WordOf(h, l, w)', WordOf(h, l + 1, w)')
    BY <1>3, <2>1 DEF Inner, Goes
  <2>3. PICK g \in D : pages'[h] = pages[g]
    BY <1>3, <1>8
  <2>4. /\ WordOf(h, l, w)' = WordOf(g, l, w)
        /\ WordOf(h, l + 1, w)' = WordOf(g, l + 1, w)
    BY <2>1, <2>3 DEF WordOf
  <2>5. g # Nil /\ g \in 0..NPages - 1
    BY <1>3 DEF Nil
  <2>6. Goes(mem, WordOf(g, l, w), WordOf(g, l + 1, w))
    BY <1>9, <2>5 DEF Inner
  <2>. QED
    BY <2>4, <2>6
<1>. QED
  BY <1>7, <1>9

-----------------------------------------------------------------------------
(* The invariant.                                                          *)

\* The words that the walk from the first pointer visits.
Chain == Range(Path(mem, First, Expected))

Facts ==
    /\ phase \in {"none", "raw", "built", "narrow", "loose"}
    /\ lanes \in 1..2 /\ DOMAIN saved = 1..2
    /\ phase # "none" => layout \in Layouts /\ pages \in Orders(layout)
    /\ phase = "narrow" => layout.kind \in {"mem", "line"}
    /\ phase = "loose" => layout.kind = "mem"
    /\ phase \in {"narrow", "loose"} => part \in layout.narrow
    /\ Complete => 1 \in DOMAIN p
    /\ phase = "built" /\ ~Runs => ~rerun

\* The chain is one circle.
Covered == Complete /\ Distinct => Circle(mem, First, Expected, Chain)

\* Pointers, and those that are kept for the next benchmark, are on it.
Resumes == /\ rerun /\ saved[lanes].addr = addr
           /\ phase = "built" \/ layout.kind = "mem"
OnChain ==
    Complete /\ (Distinct \/ InPart) =>
        /\ Closed(mem, Chain) /\ First \in Chain
        /\ Range(p) \subseteq Chain
        /\ Resumes => Range(saved[lanes].at) \subseteq Chain

\* What line_test() goes back to: which lines it has taken out, and that
\* the pointers kept are on the full path.
LineKept ==
    layout.kind = "line" /\ Complete /\ Distinct =>
        /\ LinesGo(mem, IF phase = "narrow" THEN part ELSE NLines)
        /\ p = <<First>> /\ lanes = 1
        /\ Range(saved[1].at) \subseteq LinePlaces(NLines)

\* What measure() builds on: the links inside the pages, all of them or all
\* but those at the end of what is measured.
PagesLinked ==
    layout.kind = "mem" /\ layout.narrow # {} /\ Distinct =>
        /\ phase \in {"built", "loose"} => Inner(mem, Nil, Nil)
        /\ phase = "narrow" => Inner(mem, LastPage(part), Part(part) - 1)

MemOnce ==
    layout.kind = "mem" /\ phase = "built" /\ Distinct =>
        Circle(mem, First, Expected, MemWords)

ChainInv ==
    Facts /\ Covered /\ OnChain /\ LineKept /\ PagesLinked /\ MemOnce

\* Nothing of this depends on more than the chain and its pages.
LEMMA SameChain ==
  ASSUME UNCHANGED <<layout, pages>>
  PROVE  /\ First' = First /\ Whole' = Whole /\ MemWords' = MemWords
         /\ (Distinct' <=> Distinct) /\ (InPart' <=> InPart)
         /\ (Runs' <=> Runs)
         /\ NLines' = NLines /\ NPages' = NPages /\ NWords' = NWords
<1>1. /\ NLines' = NLines /\ NPages' = NPages /\ NWords' = NWords
      /\ NPointers' = NPointers /\ (InPart' <=> InPart)
  BY DEF NLines, NPages, NWords, NPointers, InPart
<1>2. First' = First
  BY <1>1 DEF First
<1>3. Whole' = Whole
  BY <1>1 DEF Whole
<1>4. (Distinct' <=> Distinct) /\ (Runs' <=> Runs)
  BY <1>1 DEF Distinct, Runs
<1>5. MemWords' = MemWords
  BY <1>1 DEF MemWords, Cell, LinesIn, LineAt, WordAt
<1>. QED
  BY <1>1, <1>2, <1>3, <1>4, <1>5

LEMMA SameWalk ==
  ASSUME UNCHANGED <<layout, phase, part, pages, mem>>
  PROVE  /\ Expected' = Expected /\ Chain' = Chain
         /\ (Complete' <=> Complete)
<1>1. NPages' = NPages /\ First' = First /\ Whole' = Whole
  BY SameChain
<1>2. Expected' = Expected
  BY <1>1 DEF Expected
<1>. QED
  BY <1>1, <1>2 DEF Chain, Complete


\* Benchmarks that walk change neither the chain nor its links.
LEMMA WalkKeeps ==
  ASSUME ChainInv, UNCHANGED <<layout, phase, part, pages, mem>>,
         layout.kind # "line"
  PROVE  /\ Covered' /\ LineKept' /\ PagesLinked' /\ MemOnce'
<1>1. /\ First' = First /\ MemWords' = MemWords /\ (Distinct' <=> Distinct)
      /\ NLines' = NLines /\ NPages' = NPages /\ NWords' = NWords
  BY SameChain
<1>2. Expected' = Expected /\ Chain' = Chain /\ (Complete' <=> Complete)
  BY SameWalk
<1>3. Covered'
  BY <1>1, <1>2 DEF ChainInv, Covered
<1>4. LineKept'
  BY DEF LineKept
<1>5. PagesLinked'
  BY <1>1 DEF ChainInv, PagesLinked, Inner, WordOf, LineAt, Part, LastPage
<1>6. MemOnce'
  BY <1>1, <1>2 DEF ChainInv, MemOnce
<1>. QED
  BY <1>3, <1>4, <1>5, <1>6

LEMMA LengthsNatural ==
  ASSUME layout \in Layouts
  PROVE  /\ \A n \in Nat : WholeRuns(n) \in Nat
         /\ NPointers \in Nat
         /\ layout.kind \in {"mem", "line", "tlb"} => RunLength \in Nat
<1>1. Unroll \in Nat \ {0}
  BY ChainsAssumption
<1>2. ASSUME NEW n \in Nat
      PROVE  WholeRuns(n) \in Nat
  <2>. DEFINE h == (n + Unroll) \div Unroll
  <2>1. h \in Nat
    BY <1>1, Euclid
  <2>. HIDE DEF h
  <2>2. h * Unroll \in Nat
    BY <1>1, <2>1
  <2>. QED
    BY <2>2 DEF WholeRuns, h
<1>3. NPointers \in Nat
  BY LayoutFacts, Euclid DEF NPointers
<1>4. CASE layout.kind = "tlb"
  <2>1. layout.len \div layout.page \in Nat
    BY LayoutFacts, Euclid
  <2>. QED
    BY <1>2, <1>3, <1>4, <2>1 DEF RunLength
<1>5. CASE layout.kind = "mem"
  <2>1. NWords \in Nat
    BY LayoutFacts DEF NWords
  <2>2. NWords * NPointers \in Nat
    BY <1>3, <2>1
  <2>. QED
    BY <1>2, <1>3, <1>5, <2>2 DEF RunLength
<1>6. CASE layout.kind = "line"
  <2>1. NLines \in Nat
    BY LayoutFacts, Euclid DEF NLines
  <2>2. NPages \in Nat
    BY LayoutFacts, CeilDivIs DEF NPages
  <2>3. NLines * NPages \in Nat
    BY <2>1, <2>2
  <2>. QED
    BY <1>2, <1>3, <1>6, <2>3 DEF RunLength
<1>. QED
  BY <1>2, <1>3, <1>4, <1>5, <1>6

\* What a benchmark keeps is on what it walked.
LEMMA KeptOn ==
  ASSUME NEW m, NEW S, Closed(m, S), NEW from, Range(from) \subseteq S,
         NEW n \in Nat
  PROVE  Range(Kept(m, from, n).at) \subseteq S
<1>. DEFINE at == [i \in DOMAIN from |-> Walk(m, from[i], n)]
<1>1. Kept(m, from, n).at = at
  BY DEF Kept
<1>2. ASSUME NEW i \in DOMAIN from
      PROVE  at[i] \in S
  <2>1. from[i] \in S
    BY DEF Range
  <2>. QED
    BY <2>1, WalkWithin
<1>. QED
  BY <1>1, <1>2 DEF Range

LEMMA RangeOne ==
  ASSUME NEW S, NEW a \in S
  PROVE  Range(<<a>>) \subseteq S
<1>1. DOMAIN <<a>> = {1} /\ <<a>>[1] = a
  OBVIOUS
<1>. QED
  BY <1>1 DEF Range

-----------------------------------------------------------------------------
(* The steps.                                                              *)

LEMMA ChainInvInit ==
  ASSUME ChainsInit
  PROVE  ChainInv
<1>1. Facts
  BY DEF ChainsInit, Facts, Complete, Runs, Nil
<1>2. ~Complete /\ phase = "none"
  BY DEF ChainsInit, Complete
<1>. QED
  BY <1>1, <1>2
     DEF ChainInv, Covered, OnChain, LineKept, PagesLinked, MemOnce

LEMMA BuildKeeps ==
  ASSUME ChainInv, Build
  PROVE  ChainInv'
<1>1. ~Complete' /\ phase' = "raw"
  BY DEF Build, Complete
<1>2. Facts'
  BY <1>1 DEF ChainInv, Facts, Build
<1>. QED
  BY <1>1, <1>2
     DEF ChainInv, Covered, OnChain, LineKept, PagesLinked, MemOnce

LEMMA CleanupKeeps ==
  ASSUME ChainInv, Cleanup
  PROVE  ChainInv'
<1>1. ~Complete' /\ phase' = "none"
  BY DEF Cleanup, Complete
<1>2. Facts'
  BY <1>1 DEF ChainInv, Facts, Cleanup
<1>. QED
  BY <1>1, <1>2
     DEF ChainInv, Covered, OnChain, LineKept, PagesLinked, MemOnce

LEMMA LoadsKeeps ==
  ASSUME ChainInv, Loads
  PROVE  ChainInv'
<1>1. /\ phase = "built" /\ ~Runs /\ phase' = "built"
      /\ p' = <<Walk(mem, p[1], Unroll * (NPointers \div Unroll + 1))>>
      /\ UNCHANGED <<layout, phase, part, addr, pages, mem, lanes, rerun, saved>>
  BY DEF Loads
<1>2. layout.kind # "line" /\ layout.kind # "mem"
  BY <1>1 DEF Runs
<1>3. ChainInv /\ Facts /\ layout \in Layouts /\ Complete /\ ~rerun
  BY <1>1 DEF ChainInv, Facts, Complete
<1>4. Facts'
  <2>1. Runs' <=> Runs
    BY <1>1, SameChain
  <2>2. 1 \in DOMAIN p'
    BY <1>1
  <2>. QED
    BY <1>1, <1>3, <2>1, <2>2 DEF Facts, Complete
<1>5. /\ First' = First /\ Chain' = Chain /\ (Distinct' <=> Distinct)
      /\ (InPart' <=> InPart) /\ (Complete' <=> Complete)
  BY <1>1, SameChain, SameWalk
<1>6. OnChain'
  <2>. SUFFICES ASSUME Distinct \/ InPart
                PROVE  /\ Closed(mem, Chain) /\ First \in Chain
                       /\ Range(p') \subseteq Chain
    BY <1>1, <1>3, <1>5 DEF OnChain, Resumes
  <2>1. Closed(mem, Chain) /\ First \in Chain /\ Range(p) \subseteq Chain
    BY <1>3 DEF ChainInv, OnChain
  <2>2. p[1] \in Chain
    BY <1>3, <2>1 DEF Facts, Range
  <2>. DEFINE n == Unroll * (NPointers \div Unroll + 1)
  <2>3. n \in Nat
    <3>1. Unroll \in Nat \ {0} /\ NPointers \in Nat
      BY <1>3, ChainsAssumption, LengthsNatural
    <3>. DEFINE h == NPointers \div Unroll + 1
    <3>2. h \in Nat
      BY <3>1, Euclid
    <3>. HIDE DEF h
    <3>3. Unroll * h \in Nat
      BY <3>1, <3>2
    <3>. QED
      BY <3>3 DEF h
  <2>. HIDE DEF n
  <2>4. Walk(mem, p[1], n) \in Chain
    BY <2>1, <2>2, <2>3, WalkWithin
  <2>5. Range(<<Walk(mem, p[1], n)>>) \subseteq Chain
    BY <2>4, RangeOne
  <2>. QED
    BY <1>1, <2>1, <2>5 DEF n
<1>7. Covered' /\ LineKept' /\ PagesLinked' /\ MemOnce'
  BY <1>1, <1>2, <1>3, WalkKeeps
<1>. QED
  BY <1>4, <1>6, <1>7 DEF ChainInv

LEMMA BenchmarkKeeps ==
  ASSUME ChainInv, Benchmark
  PROVE  ChainInv'
<1>. DEFINE from == IF rerun /\ saved[lanes].addr = addr
                    THEN saved[lanes].at ELSE p
            K == Kept(mem, from, Unroll)
<1>1. /\ \/ phase = "built" /\ layout.kind \in {"mem", "tlb"}
         \/ phase = "narrow" /\ layout.kind = "mem"
      /\ saved' = [saved EXCEPT ![lanes] = K] /\ rerun' = TRUE
      /\ UNCHANGED <<layout, phase, part, addr, pages, mem, p, lanes>>
  BY DEF Benchmark
<1>2. Facts /\ layout \in Layouts /\ Complete /\ layout.kind # "line" /\ Runs
  BY <1>1 DEF ChainInv, Facts, Complete, Runs
<1>3. Facts'
  <2>1. Runs' <=> Runs
    BY <1>1, SameChain
  <2>2. DOMAIN saved' = 1..2
    BY <1>1, <1>2 DEF Facts
  <2>. QED
    BY <1>1, <1>2, <2>1, <2>2 DEF Facts, Complete
<1>4. /\ First' = First /\ Chain' = Chain /\ (Distinct' <=> Distinct)
      /\ (InPart' <=> InPart) /\ (Complete' <=> Complete)
  BY <1>1, SameChain, SameWalk
<1>5. saved'[lanes] = K
  BY <1>1, <1>2 DEF Facts
<1>6. OnChain'
  <2>. SUFFICES ASSUME Distinct \/ InPart
                PROVE  /\ Closed(mem, Chain) /\ First \in Chain
                       /\ Range(p) \subseteq Chain
                       /\ Range(saved'[lanes].at) \subseteq Chain
    BY <1>1, <1>2, <1>4 DEF OnChain
  <2>1. /\ Closed(mem, Chain) /\ First \in Chain /\ Range(p) \subseteq Chain
        /\ Resumes => Range(saved[lanes].at) \subseteq Chain
    BY <1>2 DEF ChainInv, OnChain
  <2>2. Range(from) \subseteq Chain
    BY <1>1, <2>1 DEF Resumes
  <2>3. Unroll \in Nat
    BY ChainsAssumption
  <2>. HIDE DEF from
  <2>4. Range(K.at) \subseteq Chain
    BY <2>1, <2>2, <2>3, KeptOn
  <2>. QED
    BY <1>5, <2>1, <2>4
<1>7. Covered' /\ LineKept' /\ PagesLinked' /\ MemOnce'
  BY <1>1, <1>2, WalkKeeps
<1>. QED
  BY <1>3, <1>6, <1>7 DEF ChainInv

LEMMA ParMemKeeps ==
  ASSUME ChainInv, ParMem
  PROVE  ChainInv'
<1>1. /\ phase = "built" /\ layout.kind = "mem"
      /\ layout.len % layout.page = 0
  BY DEF ParMem
<1>2. PICK n \in 1..2 :
         LET from == [j \in 1..n |-> Spread(n, j - 1)]
         IN  /\ lanes' = n /\ p' = from
             /\ saved' = [saved EXCEPT ![n] =
                             Kept(mem, from, WholeRuns(layout.len))]
  BY DEF ParMem
<1>. DEFINE from == [j \in 1..n |-> Spread(n, j - 1)]
            K == Kept(mem, from, WholeRuns(layout.len))
<1>3. /\ lanes' = n /\ p' = from /\ saved' = [saved EXCEPT ![n] = K]
      /\ rerun' = TRUE
      /\ UNCHANGED <<layout, phase, part, addr, pages, mem>>
  BY <1>2 DEF ParMem
<1>4. /\ Facts /\ layout \in Layouts /\ pages \in Orders(layout)
      /\ Complete /\ Runs
  BY <1>1 DEF ChainInv, Facts, Complete, Runs
<1>5. Facts'
  <2>1. Runs' <=> Runs
    BY <1>3, SameChain
  <2>2. DOMAIN saved' = 1..2 /\ 1 \in DOMAIN p'
    BY <1>3, <1>4 DEF Facts
  <2>. QED
    BY <1>1, <1>3, <1>4, <2>1, <2>2 DEF Facts, Complete
<1>6. /\ First' = First /\ Chain' = Chain /\ (Distinct' <=> Distinct)
      /\ (InPart' <=> InPart) /\ (Complete' <=> Complete)
  BY <1>3, SameChain, SameWalk
<1>7. saved'[n] = K
  BY <1>3, <1>4 DEF Facts
<1>8. OnChain'
  <2>0. ~InPart
    BY <1>1 DEF InPart
  <2>. SUFFICES ASSUME Distinct
                PROVE  /\ Closed(mem, Chain) /\ First \in Chain
                       /\ Range(from) \subseteq Chain
                       /\ Range(K.at) \subseteq Chain
    BY <1>3, <1>4, <1>6, <1>7, <2>0 DEF OnChain
  <2>1. Closed(mem, Chain) /\ First \in Chain
    BY <1>4 DEF ChainInv, OnChain
  <2>2. Circle(mem, First, Expected, MemWords)
    BY <1>1 DEF ChainInv, MemOnce
  <2>3. Chain = MemWords
    BY Zenon, <2>2, CirclePath DEF Chain
  <2>4. Range(from) \subseteq Chain
    <3>1. ASSUME NEW j \in 1..n
          PROVE  from[j] \in Chain
      <4>1. j - 1 \in 0..n - 1
        OBVIOUS
      <4>. QED
        BY <1>1, <1>4, <2>3, <4>1, SpreadOn
    <3>. QED
      BY <3>1 DEF Range
  <2>5. WholeRuns(layout.len) \in Nat
    BY <1>4, LayoutFacts, LengthsNatural
  <2>. HIDE DEF from
  <2>6. Range(K.at) \subseteq Chain
    BY <2>1, <2>4, <2>5, KeptOn
  <2>. QED
    BY <2>1, <2>4, <2>6
<1>9. Covered' /\ LineKept' /\ PagesLinked' /\ MemOnce'
  BY <1>1, <1>3, WalkKeeps
<1>. QED
  BY <1>5, <1>8, <1>9 DEF ChainInv

LEMMA LinkAgainKeeps ==
  ASSUME ChainInv, LinkAgain
  PROVE  ChainInv'
<1>. DEFINE M == Linked(mem, Links)
            R == Range(Path(Regrouped(M), First, Whole))
<1>1. /\ phase = "built" /\ ~Runs /\ phase' = "built"
      /\ mem' = M /\ p' = <<First>> /\ rerun' = FALSE
      /\ UNCHANGED <<layout, phase, part, addr, pages, lanes, saved>>
  BY DEF LinkAgain
<1>2. layout.kind # "line" /\ layout.kind # "mem"
  BY <1>1 DEF Runs
<1>3. /\ Facts /\ layout \in Layouts /\ pages \in Orders(layout)
      /\ Complete /\ Complete'
  BY <1>1 DEF ChainInv, Facts, Complete
<1>4. Regrouped(M) = M
  BY <1>2, <1>3, NotRegrouped
<1>5. /\ First' = First /\ (Distinct' <=> Distinct) /\ (InPart' <=> InPart)
      /\ Whole' = Whole /\ (Runs' <=> Runs)
  BY <1>1, SameChain
<1>6. Expected' = Whole
  BY <1>1, <1>5 DEF Expected
<1>. HIDE DEF M
<1>7. Chain' = R
  BY <1>1, <1>4, <1>5, <1>6 DEF Chain
<1>8. Facts'
  <2>1. 1 \in DOMAIN p'
    BY <1>1
  <2>. QED
    BY <1>1, <1>3, <1>5, <2>1 DEF Facts, Complete
<1>9. Covered'
  <2>. SUFFICES ASSUME Distinct
                PROVE  Circle(mem', First', Expected', Chain')
    BY <1>5 DEF Covered
  <2>1. PICK S : Circle(M, First, Whole, S)
    BY <1>3, LinkCircle DEF M
  <2>2. Circle(M, First, Whole, R)
    BY Zenon, <1>4, <2>1, CircleOwn
  <2>. QED
    BY Zenon, <1>1, <1>5, <1>6, <1>7, <2>2
<1>10. OnChain'
  <2>. SUFFICES ASSUME Distinct \/ InPart
                PROVE  /\ Closed(mem', Chain') /\ First' \in Chain'
                       /\ Range(p') \subseteq Chain'
    BY <1>1, <1>5 DEF OnChain, Resumes
  <2>1. Closed(M, R) /\ First \in R
    BY <1>3, <1>4, LinkClosed DEF M
  <2>. HIDE DEF R
  <2>2. Range(<<First>>) \subseteq R
    BY <2>1, RangeOne
  <2>. QED
    BY <1>1, <1>5, <1>7, <2>1, <2>2
<1>11. LineKept' /\ PagesLinked' /\ MemOnce'
  BY <1>1, <1>2 DEF LineKept, PagesLinked, MemOnce
<1>. QED
  BY <1>8, <1>9, <1>10, <1>11 DEF ChainInv

LEMMA LinkKeeps ==
  ASSUME ChainInv, Link
  PROVE  ChainInv'
<1>. DEFINE M == Linked([a \in 0..layout.max - 1 |-> Nil], Links)
            R == Range(Path(Regrouped(M), First, Whole))
            K == Kept(M, <<First>>, WholeRuns(RunLength))
<1>1. /\ phase = "raw" /\ phase' = "built" /\ mem' = Regrouped(M)
      /\ saved' = IF Runs THEN [saved EXCEPT ![1] = K] ELSE saved
      /\ p' = <<First>> /\ lanes' = 1 /\ rerun' = Runs
      /\ UNCHANGED <<layout, part, addr, pages>>
  BY DEF Link
<1>2. Facts /\ layout \in Layouts /\ pages \in Orders(layout) /\ Complete'
  BY <1>1 DEF ChainInv, Facts, Complete
<1>3. /\ First' = First /\ (Distinct' <=> Distinct) /\ (InPart' <=> InPart)
      /\ Whole' = Whole /\ (Runs' <=> Runs) /\ MemWords' = MemWords
      /\ NLines' = NLines /\ NPages' = NPages /\ NWords' = NWords
  BY <1>1, SameChain
<1>4. Expected' = Whole
  BY <1>1, <1>3 DEF Expected
<1>5. \A S : Circle(M, First, Whole, S) =>
         \A n \in Nat : Range(Kept(M, <<First>>, n).at) \subseteq S
  <2>. SUFFICES ASSUME NEW S, Circle(M, First, Whole, S), NEW n \in Nat
                PROVE  Range(Kept(M, <<First>>, n).at) \subseteq S
    OBVIOUS
  <2>. HIDE DEF M
  <2>1. Closed(M, S) /\ First \in S
    BY CircleClosed
  <2>2. Range(<<First>>) \subseteq S
    BY <2>1, RangeOne
  <2>. QED
    BY <2>1, <2>2, KeptOn
<1>6. layout.kind \in {"stride", "thrash", "mem", "line", "tlb"}
  BY <1>2, LayoutFacts
<1>7. Runs => WholeRuns(RunLength) \in Nat
  <2>1. Runs => layout.kind \in {"mem", "line", "tlb"}
    BY <1>6 DEF Runs
  <2>. QED
    BY <1>2, <2>1, LengthsNatural
<1>8. Facts'
  <2>1. 1 \in DOMAIN p' /\ DOMAIN saved' = 1..2
    BY <1>1, <1>2 DEF Facts
  <2>. QED
    BY <1>1, <1>2, <1>3, <2>1 DEF Facts, Complete
<1>9. Runs => saved'[1] = K
  BY <1>1, <1>2 DEF Facts
<1>11. (Distinct \/ InPart) =>
          Closed(M, R) /\ Closed(Regrouped(M), R) /\ First \in R
  BY <1>2, LinkClosed
<1>12. Distinct => \E S : /\ Circle(M, First, Whole, S)
                          /\ Circle(Regrouped(M), First, Whole, S)
  BY <1>2, LinkCircle
<1>. HIDE DEF M
<1>13. Chain' = R
  BY <1>1, <1>3, <1>4 DEF Chain
<1>14. Covered'
  <2>. SUFFICES ASSUME Distinct
                PROVE  Circle(mem', First', Expected', Chain')
    BY <1>3 DEF Covered
  <2>1. PICK S : Circle(Regrouped(M), First, Whole, S)
    BY <1>12
  <2>2. Circle(Regrouped(M), First, Whole, R)
    BY Zenon, <2>1, CircleOwn
  <2>. QED
    BY Zenon, <1>1, <1>3, <1>4, <1>13, <2>2
<1>. HIDE DEF R
<1>15. OnChain'
  <2>. SUFFICES ASSUME Distinct \/ InPart
                PROVE  /\ Closed(mem', Chain') /\ First' \in Chain'
                       /\ Range(p') \subseteq Chain'
                       /\ Runs => Range(saved'[1].at) \subseteq Chain'
    BY <1>1, <1>3 DEF OnChain, Resumes
  <2>1. Closed(M, R) /\ Closed(Regrouped(M), R) /\ First \in R
    BY <1>11
  <2>2. Range(<<First>>) \subseteq R
    BY <2>1, RangeOne
  <2>3. Runs => Range(K.at) \subseteq R
    BY <1>7, <2>1, <2>2, KeptOn
  <2>. QED
    BY <1>1, <1>3, <1>9, <1>13, <2>1, <2>2, <2>3
<1>16. LineKept'
  <2>. SUFFICES ASSUME layout.kind = "line", Distinct
                PROVE  /\ LinesGo(mem, NLines)'
                       /\ Range(saved'[1].at) \subseteq LinePlaces(NLines)'
    BY <1>1, <1>3 DEF LineKept
  <2>1. PowerOfTwo(NLines) /\ Runs /\ Links = LineLinks
    BY DEF Distinct, InPart, Runs, Links
  <2>2. LinesGo(M, NLines) /\ Regrouped(M) = M
    BY <1>2, <2>1, LineLinked, NotRegrouped DEF M
  <2>3. NLines \in 1..NLines
    BY <1>2, <2>1, PlaceFacts
  <2>4. /\ First = pages[0] /\ Whole = NPages * NLines
    BY DEF First, Whole, InPart
  <2>5. Circle(M, First, Whole, LinePlaces(NLines))
    BY <1>2, <2>1, <2>2, <2>3, <2>4, LinesCircle
  <2>6. Range(K.at) \subseteq LinePlaces(NLines)
    BY <1>5, <1>7, <2>1, <2>5
  <2>7. LinePlaces(NLines)' = LinePlaces(NLines)
    BY <1>1, <1>3 DEF LinePlaces, LinePlace, LineAt
  <2>8. LinesGo(mem, NLines)'
    BY <1>1, <1>3, <2>2 DEF LinesGo, Onward, NextPage, LinePlace, LineAt
  <2>. QED
    BY <1>9, <2>1, <2>6, <2>7, <2>8
<1>17. PagesLinked' /\ MemOnce'
  <2>. SUFFICES ASSUME layout.kind = "mem", Distinct
                PROVE  /\ layout.narrow # {} => Inner(mem, Nil, Nil)'
                       /\ Circle(mem', First', Expected', MemWords')
    BY <1>1, <1>3 DEF PagesLinked, MemOnce
  <2>1. PowerOfTwo(NLines) /\ PowerOfTwo(NWords) /\ Links = MemLinks
    BY DEF Distinct, InPart, Links
  <2>2. MemGo(M)
    BY <1>2, <2>1, MemLinked DEF M
  <2>3. Circle(Regrouped(M), First, Whole, MemWords)
    BY <1>2, <2>1, <2>2, MemBuilt
  <2>4. Circle(mem', First', Expected', MemWords')
    BY Zenon, <1>1, <1>3, <1>4, <2>3
  <2>5. ASSUME layout.narrow # {}
        PROVE  Inner(mem, Nil, Nil)'
    <3>1. layout.len % layout.page = 0 /\ layout.group = 1
      BY <1>2, <2>5, SizeFacts
    <3>2. Inner(M, Nil, Nil)
      BY <1>2, <2>2, <3>1, GoInner
    <3>3. mem' = M
      BY <1>1, <3>1 DEF Regrouped
    <3>. QED
      BY <1>1, <1>3, <3>2, <3>3 DEF Inner, WordOf, LineAt
  <2>. QED
    BY <2>4, <2>5
<1>. QED
  BY <1>8, <1>14, <1>15, <1>16, <1>17 DEF ChainInv

LEMMA LineTestKeeps ==
  ASSUME ChainInv, NEW n \in layout.narrow, LineTest(n)
  PROVE  ChainInv'
<1>. DEFINE L == {<<pages[i] + LineAt(n - 1),
                    pages[(i + 1) % NPages] + LineAt(0)>> : i \in 0..NPages - 1}
            M == Linked(mem, L)
<1>1. /\ phase = "built" /\ layout.kind = "line" /\ mem' = M
      /\ phase' = "narrow" /\ part' = n
      /\ UNCHANGED <<layout, addr, pages, p, lanes, rerun, saved>>
  BY DEF LineTest
<1>2. /\ Facts /\ layout \in Layouts /\ pages \in Orders(layout)
      /\ Complete /\ Complete'
  BY <1>1 DEF ChainInv, Facts, Complete
<1>3. /\ First' = First /\ (Distinct' <=> Distinct) /\ (InPart' <=> InPart)
      /\ (Runs' <=> Runs)
      /\ NLines' = NLines /\ NPages' = NPages /\ NWords' = NWords
  BY <1>1, SameChain
<1>4. /\ Expected' = NPages * n /\ First = pages[0] /\ ~InPart
  <2>1. First = pages[0] /\ ~InPart
    BY <1>1 DEF First, InPart
  <2>2. Expected' = NPages' * part'
    BY <1>1 DEF Expected
  <2>. QED
    BY Zenon, <1>1, <1>3, <2>1, <2>2
<1>5. Facts'
  BY <1>1, <1>2, <1>3 DEF Facts
<1>6. ASSUME Distinct
      PROVE  /\ LinesGo(M, n) /\ Circle(M, First, NPages * n, LinePlaces(n))
             /\ p = <<First>> /\ lanes = 1
             /\ Range(saved[1].at) \subseteq LinePlaces(NLines)
  <2>1. PowerOfTwo(NLines)
    BY <1>1, <1>4, <1>6 DEF Distinct
  <2>2. /\ LinesGo(mem, NLines) /\ p = <<First>> /\ lanes = 1
        /\ Range(saved[1].at) \subseteq LinePlaces(NLines)
    BY <1>1, <1>2, <1>6 DEF ChainInv, LineKept
  <2>3. n \in 1..NLines
    <3>1. n \in 1..(layout.page \div layout.line) - 1
      BY <1>1, <1>2, LayoutsAssumption
    <3>2. NLines \in Nat
      BY <1>2, <2>1, PlaceFacts
    <3>. QED
      BY <3>1, <3>2 DEF NLines
  <2>4. LinesGo(M, n)
    BY <1>2, <2>1, <2>2, <2>3, LineNarrowed
  <2>. HIDE DEF M
  <2>5. Circle(M, pages[0], NPages * n, LinePlaces(n))
    BY <1>2, <2>1, <2>3, <2>4, LinesCircle
  <2>. QED
    BY <1>4, <2>2, <2>4, <2>5
<1>. HIDE DEF M
<1>7. ASSUME Distinct
      PROVE  /\ Circle(mem', First', Expected', Chain')
             /\ Closed(mem', Chain') /\ First' \in Chain'
             /\ Range(p') \subseteq Chain'
  <2>1. Circle(mem', First', Expected', LinePlaces(n))
    BY Zenon, <1>1, <1>3, <1>4, <1>6, <1>7
  <2>2. Chain' = Range(Path(mem', First', Expected'))
    BY DEF Chain
  <2>3. Circle(mem', First', Expected', Chain')
    BY Zenon, <2>1, <2>2, CircleOwn
  <2>4. Closed(mem', Chain') /\ First' \in Chain'
    BY <2>3, CircleClosed
  <2>5. Range(<<First'>>) \subseteq Chain'
    BY <2>4, RangeOne
  <2>. QED
    BY <1>1, <1>3, <1>6, <1>7, <2>3, <2>4, <2>5
<1>8. Covered'
  BY <1>3, <1>7 DEF Covered
<1>9. OnChain'
  BY <1>1, <1>3, <1>4, <1>7 DEF OnChain, Resumes
<1>10. LineKept'
  <2>. SUFFICES ASSUME Distinct
                PROVE  /\ LinesGo(mem, part)'
                       /\ Range(saved'[1].at) \subseteq LinePlaces(NLines)'
    BY <1>1, <1>3, <1>6 DEF LineKept
  <2>1. LinePlaces(NLines)' = LinePlaces(NLines)
    BY <1>1, <1>3 DEF LinePlaces, LinePlace, LineAt
  <2>2. LinesGo(mem, part)'
    BY <1>1, <1>3, <1>6 DEF LinesGo, Onward, NextPage, LinePlace, LineAt
  <2>. QED
    BY <1>1, <1>6, <2>1, <2>2
<1>11. PagesLinked' /\ MemOnce'
  BY <1>1 DEF PagesLinked, MemOnce
<1>. QED
  BY <1>5, <1>8, <1>9, <1>10, <1>11 DEF ChainInv

LEMMA LineRestoreKeeps ==
  ASSUME ChainInv, LineRestore
  PROVE  ChainInv'
<1>. DEFINE L == {<<pages[i] + LineAt(part - 1), pages[i] + LineAt(part)>> :
                    i \in 0..NPages - 1}
            M == Linked(mem, L)
<1>1. /\ phase = "narrow" /\ layout.kind = "line" /\ mem' = M
      /\ phase' = "built"
      /\ UNCHANGED <<layout, part, addr, pages, p, lanes, rerun, saved>>
  BY DEF LineRestore
<1>2. /\ Facts /\ layout \in Layouts /\ pages \in Orders(layout)
      /\ Complete /\ Complete' /\ part \in layout.narrow
  BY <1>1 DEF ChainInv, Facts, Complete
<1>3. /\ First' = First /\ (Distinct' <=> Distinct) /\ (InPart' <=> InPart)
      /\ (Runs' <=> Runs)
      /\ NLines' = NLines /\ NPages' = NPages /\ NWords' = NWords
  BY <1>1, SameChain
<1>4. /\ Expected' = NPages * NLines /\ First = pages[0] /\ ~InPart /\ Runs
  <2>1. First = pages[0] /\ ~InPart /\ Runs
    BY <1>1 DEF First, InPart, Runs
  <2>2. Expected' = NPages' * NLines'
    BY <1>1 DEF Expected, Whole
  <2>. QED
    BY Zenon, <1>3, <2>1, <2>2
<1>5. Facts'
  BY <1>1, <1>2, <1>3, <1>4 DEF Facts
<1>6. ASSUME Distinct
      PROVE  /\ LinesGo(M, NLines)
             /\ Circle(M, First, NPages * NLines, LinePlaces(NLines))
             /\ p = <<First>> /\ lanes = 1
             /\ Range(saved[1].at) \subseteq LinePlaces(NLines)
  <2>1. PowerOfTwo(NLines)
    BY <1>1, <1>4, <1>6 DEF Distinct
  <2>2. /\ LinesGo(mem, part) /\ p = <<First>> /\ lanes = 1
        /\ Range(saved[1].at) \subseteq LinePlaces(NLines)
    BY <1>1, <1>2, <1>6 DEF ChainInv, LineKept
  <2>3. part \in 1..NLines - 1 /\ NLines \in 1..NLines
    <3>1. part \in 1..(layout.page \div layout.line) - 1
      BY <1>1, <1>2, LayoutsAssumption
    <3>2. NLines \in Nat \ {0}
      BY <1>2, <2>1, PlaceFacts
    <3>. QED
      BY <3>1, <3>2 DEF NLines
  <2>4. LinesGo(M, NLines)
    BY <1>2, <2>1, <2>2, <2>3, LineWidened
  <2>. HIDE DEF M
  <2>5. Circle(M, pages[0], NPages * NLines, LinePlaces(NLines))
    BY <1>2, <2>1, <2>3, <2>4, LinesCircle
  <2>. QED
    BY <1>4, <2>2, <2>4, <2>5
<1>. HIDE DEF M
<1>7. ASSUME Distinct
      PROVE  /\ Circle(mem', First', Expected', Chain')
             /\ Closed(mem', Chain') /\ First' \in Chain'
             /\ Range(p') \subseteq Chain' /\ Chain' = LinePlaces(NLines)
  <2>1. Circle(mem', First', Expected', LinePlaces(NLines))
    BY Zenon, <1>1, <1>3, <1>4, <1>6, <1>7
  <2>2. Chain' = Range(Path(mem', First', Expected'))
    BY DEF Chain
  <2>3. Circle(mem', First', Expected', Chain') /\ Chain' = LinePlaces(NLines)
    BY Zenon, <2>1, <2>2, CircleOwn, CirclePath
  <2>4. Closed(mem', Chain') /\ First' \in Chain'
    BY <2>3, CircleClosed
  <2>5. Range(<<First'>>) \subseteq Chain'
    BY <2>4, RangeOne
  <2>. QED
    BY <1>1, <1>3, <1>6, <1>7, <2>3, <2>4, <2>5
<1>8. Covered'
  BY <1>3, <1>7 DEF Covered
<1>9. OnChain'
  <2>. SUFFICES ASSUME Distinct
                PROVE  Range(saved'[1].at) \subseteq Chain'
    BY <1>1, <1>3, <1>4, <1>6, <1>7 DEF OnChain, Resumes
  <2>. QED
    BY <1>1, <1>6, <1>7
<1>10. LineKept'
  <2>. SUFFICES ASSUME Distinct
                PROVE  /\ LinesGo(mem, NLines)'
                       /\ Range(saved'[1].at) \subseteq LinePlaces(NLines)'
    BY <1>1, <1>3, <1>6 DEF LineKept
  <2>1. LinePlaces(NLines)' = LinePlaces(NLines)
    BY <1>1, <1>3 DEF LinePlaces, LinePlace, LineAt
  <2>2. LinesGo(mem, NLines)'
    BY <1>1, <1>3, <1>6 DEF LinesGo, Onward, NextPage, LinePlace, LineAt
  <2>. QED
    BY <1>1, <1>6, <2>1, <2>2
<1>11. PagesLinked' /\ MemOnce'
  BY <1>1 DEF PagesLinked, MemOnce
<1>. QED
  BY <1>5, <1>8, <1>9, <1>10, <1>11 DEF ChainInv

LEMMA MeasureKeeps ==
  ASSUME ChainInv, NEW n \in layout.narrow, Measure(n)
  PROVE  ChainInv'
<1>. DEFINE M == Linked(mem, SizeLinks(n))
            K == Kept(mem', p', WholeRuns(n))
<1>1. /\ phase \in {"built", "loose"} /\ layout.kind = "mem" /\ mem' = M
      /\ p' = <<pages[0]>> /\ lanes' = 1 /\ rerun' = TRUE
      /\ saved' = [saved EXCEPT ![1] = K]
      /\ phase' = "narrow" /\ part' = n
      /\ UNCHANGED <<layout, addr, pages>>
  BY DEF Measure
<1>2. /\ Facts /\ layout \in Layouts /\ pages \in Orders(layout) /\ Complete'
      /\ layout.narrow # {}
  BY <1>1 DEF ChainInv, Facts, Complete
<1>3. /\ First' = First /\ (Distinct' <=> Distinct) /\ (InPart' <=> InPart)
      /\ (Runs' <=> Runs)
      /\ NLines' = NLines /\ NPages' = NPages /\ NWords' = NWords
  BY <1>1, SameChain
<1>4. /\ Expected' = n /\ First = pages[0] /\ ~InPart /\ n \in Nat
  BY <1>1, <1>2, <1>3, LayoutFacts DEF Expected, First, InPart
<1>5. Facts'
  <2>1. 1 \in DOMAIN p' /\ DOMAIN saved' = 1..2
    BY <1>1, <1>2 DEF Facts
  <2>. QED
    BY <1>1, <1>2, <1>3, <2>1 DEF Facts
<1>6. ASSUME Distinct
      PROVE  /\ Inner(M, LastPage(n), Part(n) - 1)
             /\ \E S : Circle(M, First, n, S)
  <2>1. PowerOfTwo(NLines) /\ PowerOfTwo(NWords)
    BY <1>1, <1>4, <1>6 DEF Distinct
  <2>2. Inner(mem, Nil, Nil)
    BY <1>1, <1>2, <1>6 DEF ChainInv, PagesLinked
  <2>3. Inner(M, LastPage(n), Part(n) - 1)
    BY <1>1, <1>2, <2>1, <2>2, SizeLinked
  <2>4. \E S : Circle(M, pages[0], n, S)
    BY <1>1, <1>2, <2>1, <2>2, SizeCircle
  <2>. QED
    BY <1>4, <2>3, <2>4
<1>. HIDE DEF M
<1>7. ASSUME Distinct
      PROVE  /\ Circle(mem', First', Expected', Chain')
             /\ Closed(mem', Chain') /\ First' \in Chain'
             /\ Range(p') \subseteq Chain'
  <2>1. PICK S : Circle(M, First, n, S)
    BY <1>6, <1>7
  <2>2. Circle(mem', First', Expected', S)
    BY Zenon, <1>1, <1>3, <1>4, <2>1
  <2>3. Chain' = Range(Path(mem', First', Expected'))
    BY DEF Chain
  <2>4. Circle(mem', First', Expected', Chain')
    BY Zenon, <2>2, <2>3, CircleOwn
  <2>5. Closed(mem', Chain') /\ First' \in Chain'
    BY <2>4, CircleClosed
  <2>6. Range(<<First'>>) \subseteq Chain'
    BY <2>5, RangeOne
  <2>. QED
    BY <1>1, <1>3, <1>4, <2>4, <2>5, <2>6
<1>8. Covered'
  BY <1>3, <1>7 DEF Covered
<1>9. OnChain'
  <2>. SUFFICES ASSUME Distinct
                PROVE  Range(saved'[1].at) \subseteq Chain'
    BY <1>1, <1>3, <1>4, <1>7 DEF OnChain, Resumes
  <2>1. saved'[1] = K
    BY <1>1, <1>2 DEF Facts
  <2>2. WholeRuns(n) \in Nat
    BY <1>2, <1>4, LengthsNatural
  <2>3. Closed(mem', Chain') /\ Range(p') \subseteq Chain'
    BY <1>7
  <2>4. Range(K.at) \subseteq Chain'
    <3>. DEFINE m == mem'
                S == Chain'
                from == p'
    <3>1. Closed(m, S) /\ Range(from) \subseteq S
      BY <2>3
    <3>. HIDE DEF m, S, from
    <3>2. \A l \in Nat : Range(Kept(m, from, l).at) \subseteq S
      BY <3>1, KeptOn
    <3>. QED
      BY <2>2, <3>2 DEF m, S, from
  <2>. QED
    BY <2>1, <2>4
<1>10. LineKept' /\ MemOnce'
  BY <1>1 DEF LineKept, MemOnce
<1>11. PagesLinked'
  <2>. SUFFICES ASSUME Distinct
                PROVE  Inner(mem, LastPage(part), Part(part) - 1)'
    BY <1>1, <1>3 DEF PagesLinked
  <2>1. LastPage(part)' = LastPage(n) /\ Part(part)' = Part(n)
    BY <1>1, <1>3 DEF LastPage, Part
  <2>. QED
    BY <1>1, <1>3, <1>6, <2>1 DEF Inner, WordOf, LineAt
<1>. QED
  BY <1>5, <1>8, <1>9, <1>10, <1>11 DEF ChainInv

LEMMA MeasuredKeeps ==
  ASSUME ChainInv, Measured
  PROVE  ChainInv'
<1>. DEFINE M == Linked(mem, RestLinks(part))
<1>1. /\ phase = "narrow" /\ layout.kind = "mem" /\ mem' = M
      /\ phase' = "loose"
      /\ UNCHANGED <<layout, part, addr, pages, p, lanes, rerun, saved>>
  BY DEF Measured
<1>2. /\ Facts /\ layout \in Layouts /\ pages \in Orders(layout) /\ ~Complete'
      /\ part \in layout.narrow
  BY <1>1 DEF ChainInv, Facts, Complete
<1>3. /\ (Distinct' <=> Distinct) /\ (Runs' <=> Runs)
      /\ NLines' = NLines /\ NPages' = NPages /\ NWords' = NWords
  BY <1>1, SameChain
<1>4. Facts'
  BY <1>1, <1>2, <1>3 DEF Facts
<1>5. PagesLinked'
  <2>. SUFFICES ASSUME Distinct
                PROVE  Inner(mem, Nil, Nil)'
    BY <1>1, <1>3 DEF PagesLinked
  <2>1. PowerOfTwo(NLines)
    BY <1>1 DEF Distinct, InPart
  <2>2. Inner(mem, LastPage(part), Part(part) - 1)
    BY <1>1, <1>2 DEF ChainInv, PagesLinked
  <2>3. Inner(M, Nil, Nil)
    BY <1>1, <1>2, <2>1, <2>2, RestLinked
  <2>. HIDE DEF M
  <2>. QED
    BY <1>1, <1>3, <2>3 DEF Inner, WordOf, LineAt
<1>. QED
  BY <1>1, <1>2, <1>4, <1>5
     DEF ChainInv, Covered, OnChain, LineKept, MemOnce

LEMMA SwapKeeps ==
  ASSUME ChainInv, Swap
  PROVE  ChainInv'
<1>1. /\ phase = "loose"
      /\ UNCHANGED <<layout, phase, part, addr, mem, p, lanes, rerun, saved>>
  BY DEF Swap
<1>2. PICK i \in DOMAIN pages, j \in DOMAIN pages :
         pages' = [pages EXCEPT ![i] = pages[j], ![j] = pages[i]]
  BY DEF Swap
<1>3. /\ Facts /\ layout \in Layouts /\ pages \in Orders(layout) /\ ~Complete'
      /\ part \in layout.narrow /\ layout.kind = "mem"
  BY <1>1 DEF ChainInv, Facts, Complete
<1>4. layout.len = layout.max
  BY <1>3, SizeFacts
<1>5. /\ pages' \in Orders(layout)
      /\ Inner(mem, Nil, Nil) => Inner(mem, Nil, Nil)'
  BY <1>1, <1>2, <1>3, <1>4, SwapInner
<1>6. Facts'
  BY <1>1, <1>3, <1>5 DEF Facts
<1>7. Distinct' <=> Distinct
  BY <1>1 DEF Distinct, InPart, NLines, NWords, NPointers
<1>8. PagesLinked'
  BY <1>1, <1>3, <1>5, <1>7 DEF ChainInv, PagesLinked
<1>. QED
  BY <1>1, <1>3, <1>6, <1>8
     DEF ChainInv, Covered, OnChain, LineKept, MemOnce

LEMMA ChainInvStep ==
  ASSUME ChainInv, [ChainsNext]_chainVars
  PROVE  ChainInv'
<1>1. CASE Build
  BY <1>1, BuildKeeps
<1>2. CASE Link
  BY <1>2, LinkKeeps
<1>3. CASE LinkAgain
  BY <1>3, LinkAgainKeeps
<1>4. CASE Loads
  BY <1>4, LoadsKeeps
<1>5. CASE Benchmark
  BY <1>5, BenchmarkKeeps
<1>6. CASE ParMem
  BY <1>6, ParMemKeeps
<1>7. CASE LineRestore
  BY <1>7, LineRestoreKeeps
<1>8. CASE Measured
  BY <1>8, MeasuredKeeps
<1>9. CASE Swap
  BY <1>9, SwapKeeps
<1>10. CASE Cleanup
  BY <1>10, CleanupKeeps
<1>11. ASSUME NEW n \in layout.narrow, LineTest(n)
       PROVE  ChainInv'
  BY <1>11, LineTestKeeps
<1>12. ASSUME NEW n \in layout.narrow, Measure(n)
       PROVE  ChainInv'
  BY <1>12, MeasureKeeps
<1>13. CASE UNCHANGED chainVars
  BY <1>13 DEF chainVars, ChainInv, Facts, Covered, OnChain, Resumes, LineKept,
     PagesLinked, MemOnce, Complete, Runs, Chain, Expected, First, Distinct,
     InPart, NLines, NPages, NWords, NPointers, LinesGo, Onward, NextPage,
     LinePlace, LinePlaces, LineAt, WordAt, Inner, Whole, WordOf, LastPage, Part, MemWords,
     Cell, LinesIn
<1>. QED
  BY <1>1, <1>2, <1>3, <1>4, <1>5, <1>6, <1>7, <1>8, <1>9, <1>10, <1>11,
     <1>12, <1>13 DEF ChainsNext

\* What the invariant says of the chain there is now.
LEMMA ChainInvEnough ==
  ASSUME ChainInv
  PROVE  ChainCovers /\ WalkOnChain
<1>1. ChainCovers
  <2>. SUFFICES ASSUME Complete, Distinct
                PROVE  LET path == Path(mem, First, Expected)
                       IN  /\ path[Expected] = First
                           /\ Cardinality(Range(path)) = Expected
    BY Zenon DEF ChainCovers
  <2>1. Circle(mem, First, Expected, Chain)
    BY DEF ChainInv, Covered
  <2>. QED
    BY Zenon, <2>1, CirclePath DEF Chain
<1>2. WalkOnChain
  BY DEF ChainInv, OnChain, WalkOnChain, Chain, Resumes
<1>. QED
  BY <1>1, <1>2

-----------------------------------------------------------------------------
(* What is proved.                                                         *)

\* The invariant holds whatever is built, linked, measured and swapped.
THEOREM ChainInvariant == ChainsSpec => []ChainInv
<1>1. ChainsInit => ChainInv
  BY ChainInvInit
<1>2. ChainInv /\ [ChainsNext]_chainVars => ChainInv'
  BY ChainInvStep
<1>. QED
  BY <1>1, <1>2, PTL DEF ChainsSpec

\* Whatever is built, and whatever line_test(), measure(), regroup() and a
\* second build did to it: from its first pointer the chain goes once through
\* all the words it is to visit, and comes back.
THEOREM CoversEveryWord == ChainsSpec => []ChainCovers
<1>1. ChainInv => ChainCovers
  BY ChainInvEnough
<1>. QED
  BY <1>1, ChainInvariant, PTL

\* Every benchmark starts at a word of the chain there is now, also when it
\* goes on where the one before it stopped, and when words coincide.
THEOREM WalksOnTheChain == ChainsSpec => []WalkOnChain
<1>1. ChainInv => WalkOnChain
  BY ChainInvEnough
<1>. QED
  BY <1>1, ChainInvariant, PTL

=============================================================================
