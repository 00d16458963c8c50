--------------------------- MODULE SamplesProofs ---------------------------
(* What result_t keeps, proved for any number of children, repetitions,    *)
(* costs and noise: it stays sorted and within its memory, no time is      *)
(* paired with another interval's iterations, merging loses nothing, and   *)
(* what the loaded pass publishes is a median of long enough intervals.    *)
EXTENDS Samples, FiniteSetTheorems, WellFoundedInduction, TLAPS

-----------------------------------------------------------------------------
(* insertsort().                                                           *)

LEMMA LeastNatural ==
  ASSUME NEW S \in SUBSET Nat, S # {}
  PROVE  \E x \in S : \A y \in S : x <= y
<1>. DEFINE less == {ss \in Nat \X Nat : ss[1] < ss[2]}
<1>1. IsWellFoundedOn(less, Nat)
  BY Zenon, NatLessThanWellFounded DEF OpToRel
<1>2. PICK x \in S : \A y \in S : <<y, x>> \notin less
  BY Zenon, <1>1, WFMin
<1>3. \A y \in S : ~(y < x)
  BY <1>2
<1>. QED
  BY <1>3

\* The loop of insertsort() stops at the first sample that x is slower than.
LEMMA PositionFound ==
  ASSUME NEW x, NEW v \in Seq(Kept)
  PROVE  /\ Position(x, v) \in 1..(Len(v) + 1)
         /\ \A l \in 1..(Position(x, v) - 1) : ~Slower(x, v[l])
         /\ Position(x, v) <= Len(v) => Slower(x, v[Position(x, v)])
<1>. DEFINE stops == {k \in 1..(Len(v) + 1) : k <= Len(v) => Slower(x, v[k])}
<1>1. Len(v) + 1 \in stops
  OBVIOUS
<1>2. stops \in SUBSET Nat /\ stops # {}
  BY <1>1
<1>3. PICK k \in stops : \A m \in stops : k <= m
  BY <1>2, LeastNatural
<1>4. \A l \in 1..(k - 1) : ~Slower(x, v[l])
  <2>. SUFFICES ASSUME NEW l \in 1..(k - 1), Slower(x, v[l]) PROVE FALSE
    OBVIOUS
  <2>1. l \in stops
    OBVIOUS
  <2>. QED
    BY <1>3, <2>1
<1>5. /\ k \in 1..(Len(v) + 1)
      /\ k <= Len(v) => Slower(x, v[k])
  OBVIOUS
<1>. HIDE DEF stops
<1>. QED
  BY <1>4, <1>5 DEF Position

\* A sample goes in at one place and the others keep their order.
LEMMA InsertShape ==
  ASSUME NEW x \in Sample, NEW v \in Seq(Kept), x.u # 0
  PROVE  LET w == InsertSort(x, v)
             k == Position(x, v)
         IN  /\ w \in Seq(Kept) /\ Len(w) = Len(v) + 1
             /\ \A l \in 1..Len(w) :
                  w[l] = IF l < k THEN v[l] ELSE IF l = k THEN x ELSE v[l - 1]
<1>. DEFINE k == Position(x, v)
            value(l) == IF l < k THEN v[l] ELSE IF l = k THEN x ELSE v[l - 1]
            w == [l \in 1..(Len(v) + 1) |-> value(l)]
<1>1. k \in 1..(Len(v) + 1) /\ x \in Kept
  BY PositionFound DEF Sample, Kept
<1>2. InsertSort(x, v) = w
  BY DEF InsertSort
<1>. HIDE DEF k
<1>3. \A l \in 1..(Len(v) + 1) : value(l) \in Kept
  BY <1>1
<1>4. w \in Seq(Kept) /\ Len(w) = Len(v) + 1
  BY <1>3
<1>5. \A l \in 1..Len(w) : w[l] = value(l)
  BY <1>4
<1>. QED
  BY <1>2, <1>4, <1>5 DEF k

LEMMA KeptIsSample == \A v \in Seq(Kept) : \A l \in 1..Len(v) : v[l] \in Sample
<1>1. Kept \subseteq Sample
  BY DEF Kept, Sample
<1>. QED
  BY <1>1

LEMMA KeptFields ==
  ASSUME NEW x \in Kept
  PROVE  x.u \in Nat /\ x.n \in Nat \ {0}
  BY DEF Kept

LEMMA InsertType ==
  ASSUME NEW x \in Sample, NEW v \in Seq(Kept)
  PROVE  /\ InsertSort(x, v) \in Seq(Kept)
         /\ Len(InsertSort(x, v)) <= Len(v) + 1
<1>1. CASE x.u = 0
  BY <1>1 DEF InsertSort
<1>2. CASE x.u # 0
  BY <1>2, InsertShape
<1>. QED
  BY <1>1, <1>2

LEMMA InsertLength ==
  ASSUME NEW x \in Sample, NEW v \in Seq(Kept), x.u # 0
  PROVE  Len(InsertSort(x, v)) = Len(v) + 1
  BY InsertShape

\* What is in the result was there before, or is the new sample.
LEMMA InsertMembers ==
  ASSUME NEW x \in Sample, NEW v \in Seq(Kept),
         NEW l \in 1..Len(InsertSort(x, v))
  PROVE  \/ x.u # 0 /\ InsertSort(x, v)[l] = x
         \/ \E m \in 1..Len(v) : InsertSort(x, v)[l] = v[m]
<1>1. CASE x.u = 0
  BY <1>1 DEF InsertSort
<1>2. CASE x.u # 0
  <2>. DEFINE w == InsertSort(x, v)
              k == Position(x, v)
  <2>1. /\ Len(w) = Len(v) + 1
        /\ w[l] = IF l < k THEN v[l] ELSE IF l = k THEN x ELSE v[l - 1]
    BY <1>2, InsertShape
  <2>2. k \in 1..(Len(v) + 1)
    BY PositionFound
  <2>. HIDE DEF w, k
  <2>3. l < k => w[l] = v[l] /\ l \in 1..Len(v)
    BY <2>1, <2>2 DEF w
  <2>4. l > k => w[l] = v[l - 1] /\ l - 1 \in 1..Len(v)
    BY <2>1, <2>2 DEF w
  <2>5. l = k => w[l] = x
    BY <2>1, <2>2
  <2>6. l \in Nat /\ k \in Nat
    BY <2>2
  <2>. QED
    BY <1>2, <2>3, <2>4, <2>5, <2>6 DEF w
<1>. QED
  BY <1>1, <1>2

\* Of two samples at most one is slower than the other.
LEMMA SlowerAsymmetric ==
  ASSUME NEW x \in Sample, NEW y \in Sample, Slower(x, y)
  PROVE  ~Slower(y, x)
<1>1. x.u * y.n \in Int /\ y.u * x.n \in Int
  BY DEF Sample
<1>. QED
  BY <1>1 DEF Slower

\* insertsort() keeps a result_t sorted, biggest to smallest.
LEMMA InsertDescends ==
  ASSUME NEW x \in Sample, NEW v \in Seq(Kept), Descending(v)
  PROVE  Descending(InsertSort(x, v))
<1>1. CASE x.u = 0
  BY <1>1 DEF InsertSort
<1>2. CASE x.u # 0
  <2>. DEFINE w == InsertSort(x, v)
              k == Position(x, v)
  <2>1. /\ Len(w) = Len(v) + 1
        /\ \A l \in 1..Len(w) :
             w[l] = IF l < k THEN v[l] ELSE IF l = k THEN x ELSE v[l - 1]
    BY <1>2, InsertShape
  <2>2. /\ k \in 1..(Len(v) + 1)
        /\ \A l \in 1..(k - 1) : ~Slower(x, v[l])
        /\ k <= Len(v) => Slower(x, v[k])
    BY PositionFound
  <2>. HIDE DEF w, k
  <2>. SUFFICES ASSUME NEW l \in 1..(Len(w) - 1)
                PROVE  ~Slower(w[l + 1], w[l])
    BY DEF w, Descending
  <2>3. l \in 1..Len(v) /\ l \in 1..Len(w) /\ l + 1 \in 1..Len(w)
    BY <2>1
  <2>4. CASE l + 1 < k
    <3>1. w[l] = v[l] /\ w[l + 1] = v[l + 1] /\ l \in 1..(Len(v) - 1)
      BY <2>1, <2>2, <2>3, <2>4
    <3>. QED
      BY <3>1 DEF Descending
  <2>5. CASE l + 1 = k
    <3>1. w[l] = v[l] /\ w[l + 1] = x /\ l \in 1..(k - 1)
      BY <2>1, <2>2, <2>3, <2>5
    <3>. QED
      BY <2>2, <3>1
  <2>6. CASE l = k
    <3>1. w[l] = x /\ w[l + 1] = v[k] /\ k <= Len(v) /\ k \in 1..Len(v)
      BY <2>1, <2>2, <2>3, <2>6
    <3>2. v[k] \in Sample
      BY <3>1, KeptIsSample
    <3>3. Slower(x, v[k])
      BY <2>2, <3>1
    <3>4. ~Slower(v[k], x)
      BY <3>2, <3>3, SlowerAsymmetric
    <3>. QED
      BY <3>1, <3>4
  <2>7. CASE l > k
    <3>1. w[l] = v[l - 1] /\ w[l + 1] = v[l] /\ l - 1 \in 1..(Len(v) - 1)
      BY <2>1, <2>2, <2>3, <2>7
    <3>2. ~Slower(v[(l - 1) + 1], v[l - 1])
      BY <3>1 DEF Descending
    <3>. QED
      BY <3>1, <3>2
  <2>. QED
    BY <2>2, <2>4, <2>5, <2>6, <2>7
<1>. QED
  BY <1>1, <1>2

-----------------------------------------------------------------------------
(* Type correctness.                                                       *)

LEMMA Quotient ==
  ASSUME NEW a \in Nat, NEW b \in Nat \ {0}
  PROVE  a \div b \in Nat
  OBVIOUS

LEMMA ElapsedType ==
  ASSUME cost \in Costs, NEW count \in Nat, NEW noise \in Noise
  PROVE  Elapsed(count, noise) \in Int
<1>1. count * cost \in Nat /\ noise \in Nat
  BY SamplesAssumption
<1>2. count * cost * noise \in Nat
  BY <1>1
<1>3. (count * cost * noise) \div 10000 \in Nat
  BY <1>2, Quotient
<1>. QED
  BY <1>3, SamplesAssumption DEF Elapsed

LEMMA NextIterationsType ==
  ASSUME NEW count \in Nat \ {0}, NEW result \in Int
  PROVE  NextIterations(count, result) \in Nat \ {0}
<1>1. ASSUME result > 150 PROVE Rescaled(count, result) \in Nat \ {0}
  <2>1. count * Enough \in Nat
    BY SamplesAssumption
  <2>2. count * Enough * 11 \in Nat /\ result * 10 \in Nat \ {0}
    BY <1>1, <2>1
  <2>3. (count * Enough * 11) \div (result * 10) \in Nat
    BY <2>2, Quotient
  <2>. QED
    BY <2>3 DEF Rescaled
<1>2. count * 8 \in Nat \ {0}
  OBVIOUS
<1>. QED
  BY <1>1, <1>2 DEF NextIterations

LEMMA AverageType ==
  ASSUME NEW x \in Kept, NEW y \in Kept
  PROVE  [u |-> (x.u + y.u) \div 2, n |-> (x.n + y.n) \div 2] \in Sample
<1>. DEFINE a == x.u + y.u
            b == x.n + y.n
<1>1. /\ x.u \in Nat /\ x.n \in Nat \ {0}
      /\ y.u \in Nat /\ y.n \in Nat \ {0}
  BY KeptFields
<1>2. a \in Nat /\ b \in Nat /\ b >= 2
  BY <1>1
<1>3. a \div 2 \in Nat /\ b \div 2 \in Nat \ {0}
  <2>. HIDE DEF a, b
  <2>. QED
    BY <1>2
<1>. QED
  BY <1>3 DEF Sample

LEMMA MedianType ==
  ASSUME NEW v \in Seq(Kept)
  PROVE  Median(v) \in Sample
<1>1. CASE v = <<>>
  BY <1>1 DEF Median, Sample
<1>2. CASE v # <<>>
  <2>. DEFINE k == (Len(v) \div 2) + 1
  <2>1. Len(v) \in Nat \ {0}
    BY <1>2
  <2>3. k \in 1..Len(v)
    BY <2>1
  <2>4. v[k] \in Kept
    BY <2>3
  <2>5. CASE Len(v) % 2 = 1
    BY <1>2, <2>4, <2>5 DEF Median, Kept, Sample
  <2>6. CASE Len(v) % 2 # 1
    <3>1. k - 1 \in 1..Len(v)
      BY <2>1, <2>6
    <3>2. v[k - 1] \in Kept
      BY <3>1
    <3>3. Median(v) = [u |-> (v[k].u + v[k - 1].u) \div 2,
                       n |-> (v[k].n + v[k - 1].n) \div 2]
      BY <1>2, <2>6 DEF Median
    <3>. HIDE DEF k
    <3>. QED
      BY <2>4, <3>2, <3>3, AverageType
  <2>. QED
    BY <2>5, <2>6
<1>. QED
  BY <1>1, <1>2

LEMMA RecordedType ==
  ASSUME TypeOK, NEW c \in Child, NEW result \in Int
  PROVE  Recorded(c, result) \in Sample
<1>1. iterations[c] \in Nat \ {0}
  BY DEF TypeOK
<1>2. (IF result >= 0 THEN result ELSE 0) \in Nat
  OBVIOUS
<1>. QED
  BY <1>1, <1>2 DEF Recorded, Sample

\* One interval of one child: what it does to the variables of the child.
LEMMA MeasureShape ==
  ASSUME TypeOK, NEW c \in Child, Interval(c)
  PROVE  \E noise \in Noise :
           LET result == Elapsed(iterations[c], noise)
           IN  /\ result \in Int /\ Measure(c, result)
               /\ Recorded(c, result) \in Sample
               /\ InsertSort(Recorded(c, result), r[c]) \in Seq(Kept)
<1>1. PICK noise \in Noise : Measure(c, Elapsed(iterations[c], noise))
  BY DEF Interval
<1>2. iterations[c] \in Nat /\ cost \in Costs /\ r[c] \in Seq(Kept)
  BY DEF TypeOK
<1>3. Elapsed(iterations[c], noise) \in Int
  BY <1>2, ElapsedType
<1>4. Recorded(c, Elapsed(iterations[c], noise)) \in Sample
  BY <1>3, RecordedType
<1>. QED
  BY <1>1, <1>2, <1>3, <1>4, InsertType

LEMMA TypeInit == Init => TypeOK
<1>. SUFFICES ASSUME Init PROVE TypeOK
  OBVIOUS
<1>1. /\ r \in [Child -> Seq(Kept)] /\ merged \in Seq(Kept)
      /\ report \in Seq(Kept) /\ j \in 1..(Len(report) + 1)
  BY DEF Init
<1>2. /\ cost \in Costs /\ pass \in {"baseline", "load", "returned"}
      /\ iterations \in [Child -> Nat \ {0}] /\ i \in [Child -> Nat]
      /\ state \in [Child -> {"timing_interval", "cooldown"}]
  BY DEF Init
<1>3. gathered \subseteq Child /\ time \in Nat /\ n \in Nat \ {0}
  BY DEF Init
<1>4. published \in BOOLEAN
  BY Zenon DEF Init
<1>. QED
  BY <1>1, <1>2, <1>3, <1>4 DEF TypeOK

LEMMA TypeInterval ==
  ASSUME TypeOK, NEW c \in Child, Interval(c)
  PROVE  TypeOK'
<1>1. PICK noise \in Noise :
        LET result == Elapsed(iterations[c], noise)
        IN  /\ result \in Int /\ Measure(c, result)
            /\ InsertSort(Recorded(c, result), r[c]) \in Seq(Kept)
  BY MeasureShape
<1>. DEFINE result == Elapsed(iterations[c], noise)
<1>2. /\ result \in Int /\ Measure(c, result)
      /\ InsertSort(Recorded(c, result), r[c]) \in Seq(Kept)
  BY <1>1
<1>. HIDE DEF result
<1>3. r' \in [Child -> Seq(Kept)]
  BY <1>2 DEF Measure, TypeOK
<1>4. i' \in [Child -> Nat]
  BY <1>2 DEF Measure, TypeOK
<1>5. state' \in [Child -> {"timing_interval", "cooldown"}]
  BY <1>2 DEF Measure, TypeOK
<1>6. iterations' \in [Child -> Nat \ {0}]
  <2>1. NextIterations(iterations[c], result) \in Nat \ {0}
    BY <1>2, NextIterationsType DEF TypeOK
  <2>. QED
    BY <1>2, <2>1 DEF Measure, TypeOK
<1>7. UNCHANGED <<cost, pass, parentVars>>
  BY DEF Interval
<1>. QED
  BY <1>3, <1>4, <1>5, <1>6, <1>7 DEF TypeOK, parentVars

LEMMA LoadIterationsType ==
  ASSUME TypeOK, time # 0
  PROVE  LoadIterations \in Nat \ {0}
<1>1. n \in Nat \ {0} /\ time \in Nat \ {0}
  BY DEF TypeOK
<1>2. Short * n \in Nat
  BY <1>1, SamplesAssumption
<1>3. (Short * n) \div time \in Nat
  BY <1>1, <1>2, Quotient
<1>. QED
  BY <1>1, <1>3 DEF LoadIterations

LEMMA TypeStep == TypeOK /\ [Next]_vars => TypeOK'
<1>1. ASSUME TypeOK, NEW c \in Child, Interval(c) PROVE TypeOK'
  BY <1>1, TypeInterval
<1>2. ASSUME TypeOK, NEW c \in Child, Gather(c) PROVE TypeOK'
  <2>1. /\ gathered' \subseteq Child /\ report' \in Seq(Kept)
        /\ j' \in 1..(Len(report') + 1)
    <3>1. r[c] \in Seq(Kept) /\ report' = r[c] /\ j' = 1
      BY <1>2 DEF Gather, TypeOK
    <3>. QED
      BY <1>2, <3>1 DEF Gather, TypeOK
  <2>. QED
    BY <1>2, <2>1 DEF Gather, TypeOK, childVars
<1>3. ASSUME TypeOK, Merge PROVE TypeOK'
  <2>1. report[j] \in Sample /\ merged \in Seq(Kept)
    BY <1>3, KeptIsSample DEF Merge, TypeOK
  <2>2. merged' \in Seq(Kept)
    BY <1>3, <2>1, InsertType DEF Merge
  <2>3. j' \in 1..(Len(report') + 1)
    BY <1>3 DEF Merge, TypeOK
  <2>. QED
    BY <1>3, <2>2, <2>3 DEF Merge, TypeOK, childVars
<1>4. ASSUME TypeOK, Publish PROVE TypeOK'
  <2>1. Median(merged) \in Sample
    BY <1>4, MedianType DEF TypeOK
  <2>2. time' \in Nat /\ n' \in Nat \ {0}
    BY <1>4, <2>1 DEF Publish, Sample
  <2>3. published' = TRUE
        /\ UNCHANGED <<cost, pass, childVars, gathered, report, j, merged>>
    BY <1>4 DEF Publish
  <2>. QED
    BY <1>4, <2>2, <2>3 DEF TypeOK, childVars
<1>5. ASSUME TypeOK, Return PROVE TypeOK'
  BY <1>5 DEF Return, TypeOK, childVars, parentVars
<1>6. ASSUME TypeOK, StartLoad PROVE TypeOK'
  <2>1. LoadIterations \in Nat \ {0}
    BY <1>6, LoadIterationsType DEF StartLoad
  <2>2. /\ iterations' = [c \in Child |-> LoadIterations]
        /\ i' = [c \in Child |-> 0]
        /\ state' = [c \in Child |-> "timing_interval"]
        /\ r' = [c \in Child |-> <<>>]
    BY <1>6 DEF StartLoad, StartChildren
  <2>3. /\ r' \in [Child -> Seq(Kept)]
        /\ iterations' \in [Child -> Nat \ {0}] /\ i' \in [Child -> Nat]
        /\ state' \in [Child -> {"timing_interval", "cooldown"}]
    <3>. HIDE DEF LoadIterations
    <3>. QED
      BY <2>1, <2>2
  <2>4. /\ pass' = "load" /\ published' = FALSE /\ gathered' = {}
        /\ report' = <<>> /\ j' = 1 /\ merged' = <<>>
        /\ time' = 0 /\ n' = 1 /\ cost' = cost
    BY <1>6 DEF StartLoad
  <2>5. /\ merged' \in Seq(Kept) /\ report' \in Seq(Kept)
        /\ j' \in 1..(Len(report') + 1)
    BY <2>4
  <2>6. published' \in BOOLEAN
    BY Zenon, <2>4
  <2>7. /\ cost' \in Costs /\ pass' \in {"baseline", "load", "returned"}
        /\ gathered' \subseteq Child /\ time' \in Nat /\ n' \in Nat \ {0}
    BY <1>6, <2>4 DEF TypeOK
  <2>. QED
    BY <2>3, <2>5, <2>6, <2>7 DEF TypeOK
<1>7. ASSUME TypeOK, UNCHANGED vars PROVE TypeOK'
  BY <1>7 DEF TypeOK, vars, childVars, parentVars
<1>. QED
  BY <1>1, <1>2, <1>3, <1>4, <1>5, <1>6, <1>7 DEF Next, Done

\* Every variable of the sampling has its type, whatever an iteration costs;
\* no result_t ever holds a time of zero (insertsort()).
THEOREM TypeCorrect == Spec => []TypeOK
<1>. QED
  BY TypeInit, TypeStep, PTL DEF Spec

-----------------------------------------------------------------------------
(* Sorted results.                                                         *)

LEMMA EmptyDescends == Descending(<<>>)
  BY DEF Descending

LEMMA DescendStep == TypeOK /\ ResultsDescend /\ [Next]_vars => ResultsDescend'
<1>1. ASSUME TypeOK, ResultsDescend, NEW c \in Child, Interval(c)
      PROVE  ResultsDescend'
  <2>1. PICK noise \in Noise :
          LET result == Elapsed(iterations[c], noise)
          IN  Measure(c, result) /\ Recorded(c, result) \in Sample
    BY <1>1, MeasureShape
  <2>. DEFINE x == Recorded(c, Elapsed(iterations[c], noise))
  <2>2. x \in Sample /\ r[c] \in Seq(Kept) /\ Descending(r[c])
    BY <1>1, <2>1 DEF TypeOK, ResultsDescend
  <2>3. Descending(InsertSort(x, r[c]))
    BY <2>2, InsertDescends
  <2>4. \/ r' = [r EXCEPT ![c] = InsertSort(x, r[c])]
        \/ r' = [r EXCEPT ![c] = r[c]]
    BY <2>1 DEF Measure
  <2>5. \A d \in Child : r'[d] = r[d] \/ r'[d] = InsertSort(x, r[c])
    <3>. HIDE DEF x
    <3>. QED
      BY <1>1, <2>4 DEF TypeOK
  <2>6. \A d \in Child : Descending(r'[d])
    <3>. HIDE DEF x
    <3>. QED
      BY <1>1, <2>3, <2>5 DEF ResultsDescend
  <2>7. merged' = merged
    BY <1>1 DEF Interval, parentVars
  <2>. QED
    BY <1>1, <2>6, <2>7 DEF ResultsDescend
<1>2. ASSUME TypeOK, ResultsDescend, NEW c \in Child, Gather(c)
      PROVE  ResultsDescend'
  BY <1>2 DEF Gather, childVars, ResultsDescend
<1>3. ASSUME TypeOK, ResultsDescend, Merge
      PROVE  ResultsDescend'
  <2>1. report[j] \in Sample /\ merged \in Seq(Kept) /\ Descending(merged)
    BY <1>3, KeptIsSample DEF Merge, TypeOK, ResultsDescend
  <2>2. Descending(merged')
    BY <1>3, <2>1, InsertDescends DEF Merge
  <2>3. r' = r
    BY <1>3 DEF Merge, childVars
  <2>. QED
    BY <1>3, <2>2, <2>3 DEF ResultsDescend
<1>4. ASSUME ResultsDescend, Publish \/ Return \/ UNCHANGED vars
      PROVE  ResultsDescend'
  <2>1. r' = r /\ merged' = merged
    BY <1>4 DEF Publish, Return, vars, childVars, parentVars
  <2>. QED
    BY <1>4, <2>1 DEF ResultsDescend
<1>5. ASSUME StartLoad PROVE ResultsDescend'
  <2>1. merged' = <<>> /\ \A c \in Child : r'[c] = <<>>
    BY <1>5 DEF StartLoad, StartChildren
  <2>. QED
    BY <2>1, EmptyDescends DEF ResultsDescend
<1>. QED
  BY <1>1, <1>2, <1>3, <1>4, <1>5 DEF Next, Done

\* Every result_t is sorted, biggest to smallest, at any time: save_median()
\* takes the middle of sorted samples and save_minimum() the smallest.
THEOREM Sorted == Spec => []ResultsDescend
<1>1. Init => ResultsDescend
  BY EmptyDescends DEF Init, ResultsDescend
<1>. QED
  BY TypeInit, TypeStep, DescendStep, <1>1, PTL DEF Spec

-----------------------------------------------------------------------------
(* Memory.                                                                 *)

LEMMA BoundedInterval ==
  ASSUME TypeOK, Bounded, NEW c \in Child, Interval(c)
  PROVE  Bounded'
<1>1. PICK noise \in Noise :
        LET result == Elapsed(iterations[c], noise)
        IN  Measure(c, result) /\ Recorded(c, result) \in Sample
  BY MeasureShape
<1>. DEFINE result == Elapsed(iterations[c], noise)
            x == Recorded(c, result)
            w == InsertSort(x, r[c])
<1>2. r[c] \in Seq(Kept) /\ x \in Sample
  BY <1>1 DEF TypeOK
<1>3. Len(w) <= Len(r[c]) + 1 /\ Len(w) \in Nat /\ Len(r[c]) \in Nat
  BY <1>2, InsertType
<1>4. state[c] = "timing_interval" /\ i[c] < Repetitions
      /\ Len(r[c]) <= i[c] /\ i[c] \in Nat
  BY DEF Interval, Bounded, TypeOK
<1>5. \/ r'[c] = w /\ i'[c] = i[c] + 1
      \/ r'[c] = r[c] /\ i'[c] = i[c]
  BY <1>1 DEF Measure, TypeOK
<1>6. i'[c] >= Repetitions => state'[c] = "cooldown"
  BY <1>1 DEF Measure, TypeOK
<1>7. \A d \in Child \ {c} :
        r'[d] = r[d] /\ i'[d] = i[d] /\ state'[d] = state[d]
  BY <1>1 DEF Measure, TypeOK
<1>8. UNCHANGED <<merged, report, j, gathered>>
  BY DEF Interval, parentVars
<1>. HIDE DEF w
<1>9. /\ Len(r'[c]) <= i'[c] /\ i'[c] <= Repetitions
      /\ state'[c] = "timing_interval" => i'[c] < Repetitions
  <2>1. i'[c] \in Nat /\ i'[c] <= Repetitions
    BY <1>4, <1>5, SamplesAssumption
  <2>2. Len(r'[c]) <= i'[c]
    <3>1. CASE r'[c] = w /\ i'[c] = i[c] + 1
      BY <1>3, <1>4, <3>1
    <3>2. CASE r'[c] = r[c] /\ i'[c] = i[c]
      BY <1>4, <3>2
    <3>. QED
      BY <1>5, <3>1, <3>2
  <2>3. state'[c] = "timing_interval" => i'[c] < Repetitions
    BY <1>6, <2>1, SamplesAssumption
  <2>. QED
    BY <2>1, <2>2, <2>3
<1>10. \A d \in Child :
        /\ Len(r'[d]) <= i'[d] /\ i'[d] <= Repetitions
        /\ state'[d] = "timing_interval" => i'[d] < Repetitions
  BY <1>7, <1>9 DEF Bounded
<1>. QED
  BY <1>8, <1>10 DEF Bounded

LEMMA BoundedGather ==
  ASSUME TypeOK, Bounded, NEW c \in Child, Gather(c)
  PROVE  Bounded'
<1>1. /\ j > Len(report) /\ c \notin gathered
      /\ gathered' = gathered \cup {c} /\ report' = r[c] /\ j' = 1
      /\ UNCHANGED <<merged, r, i, state>>
  BY DEF Gather, childVars
<1>2. IsFiniteSet(gathered)
  <2>1. IsFiniteSet(Child)
    BY SamplesAssumption, FS_Interval DEF Child
  <2>. QED
    BY <2>1, FS_Subset DEF TypeOK
<1>3. /\ Cardinality(gathered') = Cardinality(gathered) + 1
      /\ Cardinality(gathered) \in Nat
  BY <1>1, <1>2, FS_AddElement, FS_CardinalityType
<1>4. Len(r[c]) <= Repetitions /\ Len(r[c]) \in Nat
  <2>1. Len(r[c]) <= i[c] /\ i[c] <= Repetitions
    BY DEF Bounded
  <2>2. Len(r[c]) \in Nat /\ i[c] \in Nat
    BY DEF TypeOK
  <2>. QED
    BY <2>1, <2>2, SamplesAssumption
<1>5. Len(merged) <= Cardinality(gathered) * Repetitions
  <2>1. j = Len(report) + 1 /\ Len(report) \in Nat /\ Len(merged) \in Nat
    BY <1>1 DEF TypeOK
  <2>. QED
    BY <2>1 DEF Bounded
<1>6. (Cardinality(gathered) + 1) * Repetitions
        = Cardinality(gathered) * Repetitions + Repetitions
  BY <1>3, SamplesAssumption
<1>7. Len(merged) \in Nat /\ Cardinality(gathered) * Repetitions \in Nat
  BY <1>3, SamplesAssumption DEF TypeOK
<1>8. Len(merged') + Len(report') - (j' - 1)
        <= Cardinality(gathered') * Repetitions
  <2>1. Len(report') = Len(r[c]) /\ Len(merged') = Len(merged)
        /\ j' - 1 = 0 /\ Repetitions \in Nat
    BY <1>1, SamplesAssumption
  <2>2. Len(merged) + Len(r[c])
          <= Cardinality(gathered) * Repetitions + Repetitions
    BY <1>4, <1>5, <1>7, <2>1
  <2>3. Cardinality(gathered') * Repetitions
          = Cardinality(gathered) * Repetitions + Repetitions
    BY <1>3, <1>6
  <2>. QED
    BY <1>4, <1>7, <2>1, <2>2, <2>3
<1>. QED
  BY <1>1, <1>8 DEF Bounded

LEMMA BoundedStep == TypeOK /\ Bounded /\ [Next]_vars => Bounded'
<1>1. ASSUME TypeOK, Bounded, Merge PROVE Bounded'
  <2>1. report[j] \in Sample /\ merged \in Seq(Kept)
    BY <1>1, KeptIsSample DEF Merge, TypeOK
  <2>2. /\ Len(merged') <= Len(merged) + 1
        /\ Len(merged') \in Nat /\ Len(merged) \in Nat
    BY <1>1, <2>1, InsertType DEF Merge
  <2>3. j' = j + 1 /\ j \in Nat /\ Len(report) \in Nat
        /\ UNCHANGED <<report, gathered, r, i, state>>
    BY <1>1 DEF Merge, childVars, TypeOK
  <2>5. Len(merged') + Len(report') - (j' - 1)
          <= Len(merged) + Len(report) - (j - 1)
    BY <2>2, <2>3
  <2>6. Cardinality(gathered) \in Nat
    <3>1. IsFiniteSet(Child)
      BY SamplesAssumption, FS_Interval DEF Child
    <3>. QED
      BY <1>1, <3>1, FS_Subset, FS_CardinalityType DEF TypeOK
  <2>7. Cardinality(gathered) * Repetitions \in Nat
    BY <2>6, SamplesAssumption
  <2>8. Len(merged') + Len(report') - (j' - 1)
          <= Cardinality(gathered') * Repetitions
    BY <1>1, <2>2, <2>3, <2>5, <2>7 DEF Bounded
  <2>. QED
    BY <1>1, <2>3, <2>8 DEF Bounded
<1>2. ASSUME Bounded, Publish \/ Return \/ UNCHANGED vars PROVE Bounded'
  <2>1. UNCHANGED <<merged, report, j, gathered, r, i, state>>
    BY <1>2 DEF Publish, Return, vars, childVars, parentVars
  <2>. QED
    BY <1>2, <2>1 DEF Bounded
<1>3. ASSUME StartLoad PROVE Bounded'
  <2>1. /\ merged' = <<>> /\ report' = <<>> /\ j' = 1 /\ gathered' = {}
        /\ \A c \in Child : r'[c] = <<>> /\ i'[c] = 0
    BY <1>3 DEF StartLoad, StartChildren
  <2>2. Cardinality(gathered') * Repetitions = 0
    BY <2>1, FS_EmptySet, SamplesAssumption
  <2>. QED
    BY <2>1, <2>2, SamplesAssumption DEF Bounded
<1>. QED
  BY <1>1, <1>2, <1>3, BoundedInterval, BoundedGather DEF Next, Done

LEMMA BoundedInit == Init => Bounded
<1>1. Cardinality({}) * Repetitions = 0
  BY FS_EmptySet, SamplesAssumption
<1>. QED
  BY <1>1, SamplesAssumption DEF Init, Bounded

LEMMA BoundedFits == TypeOK /\ Bounded => WithinCapacity
<1>. SUFFICES ASSUME TypeOK, Bounded PROVE WithinCapacity
  OBVIOUS
<1>1. \A c \in Child : Len(r[c]) <= Capacity(Repetitions)
  <2>. TAKE c \in Child
  <2>1. Len(r[c]) <= i[c] /\ i[c] <= Repetitions /\ i[c] \in Nat
        /\ Len(r[c]) \in Nat
    BY DEF Bounded, TypeOK
  <2>. QED
    BY <2>1, SamplesAssumption DEF Capacity
<1>2. Cardinality(gathered) \in Nat /\ Cardinality(gathered) <= Parallel
  <2>1. IsFiniteSet(Child) /\ Cardinality(Child) = Parallel
    BY SamplesAssumption, FS_Interval DEF Child
  <2>. QED
    BY <2>1, FS_Subset, FS_CardinalityType DEF TypeOK
<1>3. Cardinality(gathered) * Repetitions <= Parallel * Repetitions
  BY <1>2, SamplesAssumption
<1>4. /\ Cardinality(gathered) * Repetitions \in Nat
      /\ Parallel * Repetitions \in Nat
  BY <1>2, SamplesAssumption
<1>5. Len(merged) + Len(report) - (j - 1)
        <= Cardinality(gathered) * Repetitions
  BY DEF Bounded
<1>6. Len(merged) + Len(report) - (j - 1) \in Int
  BY DEF TypeOK
<1>7. Len(merged) + Len(report) - (j - 1) <= Parallel * Repetitions
  BY <1>3, <1>4, <1>5, <1>6
<1>8. Parallel * Repetitions <= Capacity(Parallel * Repetitions)
  BY <1>4, SamplesAssumption DEF Capacity
<1>9. Capacity(Parallel * Repetitions) \in Nat
  BY <1>4, SamplesAssumption DEF Capacity
<1>10. Len(merged) + Len(report) - (j - 1) <= Capacity(Parallel * Repetitions)
  BY <1>4, <1>6, <1>7, <1>8, <1>9
<1>. QED
  BY <1>1, <1>10 DEF WithinCapacity

\* No result_t outgrows the memory that sizeof_result() asked for.
THEOREM Fits == Spec => []WithinCapacity
  BY TypeInit, TypeStep, BoundedInit, BoundedStep, BoundedFits, PTL DEF Spec

-----------------------------------------------------------------------------
(* Times and counts.                                                       *)

LEMMA TimeInterval ==
  ASSUME TypeOK, TimeMatchesCount, NEW c \in Child, Interval(c)
  PROVE  TimeMatchesCount'
<1>1. PICK noise \in Noise :
        LET result == Elapsed(iterations[c], noise)
        IN  /\ result \in Int /\ Measure(c, result)
            /\ Recorded(c, result) \in Sample
  BY MeasureShape
<1>. DEFINE result == Elapsed(iterations[c], noise)
            x == Recorded(c, result)
            w == InsertSort(x, r[c])
            Matches(s) == \E z \in Noise : s.u = Elapsed(s.n, z)
<1>2. cost' = cost
  BY DEF Interval
<1>3. x \in Sample /\ r[c] \in Seq(Kept)
  BY <1>1 DEF TypeOK
<1>4. x.u # 0 => Matches(x)
  BY <1>1 DEF Recorded
<1>5. \A l \in 1..Len(r[c]) : Matches(r[c][l])
  BY DEF TimeMatchesCount, TypeOK
<1>. HIDE DEF x
<1>6. \A l \in 1..Len(w) : Matches(w[l])
  <2>. TAKE l \in 1..Len(w)
  <2>1. (x.u # 0 /\ w[l] = x) \/ \E m \in 1..Len(r[c]) : w[l] = r[c][m]
    BY <1>3, InsertMembers
  <2>. HIDE DEF Matches, w
  <2>. QED
    BY <1>4, <1>5, <2>1
<1>7. w \in Seq(Kept)
  BY <1>3, InsertType
<1>8. \A d \in Child : r'[d] = r[d] \/ (d = c /\ r'[d] = w)
  BY <1>1 DEF Measure, TypeOK, x
<1>. HIDE DEF w
<1>9. \A d \in Child : \A l \in DOMAIN r'[d] : Matches(r'[d][l])
  <2>. TAKE d \in Child
  <2>1. CASE r'[d] = r[d]
    BY <2>1 DEF TimeMatchesCount
  <2>2. CASE r'[d] = w
    <3>1. DOMAIN w = 1..Len(w)
      BY <1>7
    <3>. QED
      BY <1>6, <2>2, <3>1
  <2>. QED
    BY <1>8, <2>1, <2>2
<1>10. \A count, z : Elapsed(count, z)' = Elapsed(count, z)
  BY <1>2 DEF Elapsed
<1>. QED
  BY <1>9, <1>10 DEF TimeMatchesCount

LEMMA TimeStep == TypeOK /\ TimeMatchesCount /\ [Next]_vars => TimeMatchesCount'
<1>1. ASSUME TimeMatchesCount, UNCHANGED <<cost, r>> PROVE TimeMatchesCount'
  BY <1>1 DEF TimeMatchesCount, Elapsed
<1>2. ASSUME StartLoad PROVE TimeMatchesCount'
  <2>1. \A c \in Child : r'[c] = <<>>
    BY <1>2 DEF StartLoad, StartChildren
  <2>. QED
    BY <2>1 DEF TimeMatchesCount
<1>3. ASSUME NEW c \in Child, Gather(c) PROVE UNCHANGED <<cost, r>>
  BY <1>3 DEF Gather, childVars
<1>4. ASSUME Merge \/ Publish \/ Return \/ UNCHANGED vars
      PROVE  UNCHANGED <<cost, r>>
  BY <1>4 DEF Merge, Publish, Return, vars, childVars
<1>. QED
  BY <1>1, <1>2, <1>3, <1>4, TimeInterval DEF Next, Done

\* A time is kept with the iterations that took it, although
\* benchmp_interval() changes their number after recording.
THEOREM TimesMatch == Spec => []TimeMatchesCount
<1>1. Init => TimeMatchesCount
  BY DEF Init, TimeMatchesCount
<1>. QED
  BY TypeInit, TypeStep, TimeStep, <1>1, PTL DEF Spec

-----------------------------------------------------------------------------
(* Merging.                                                                *)

\* Where x occurs in v from place l on; where in the children's results.
Occurs(x, v, l) == {m \in l..Len(v) : v[m] = x}
Holds(x, children) == {p \in Places(children) : r[p[1]][p[2]] = x}

\* What the reports read so far had is in merged_results or still to come,
\* and the children they came from measure no more.
Conserved ==
    /\ \A c \in gathered : state[c] = "cooldown"
    /\ Cardinality(Places(gathered)) = Len(merged) + Len(report) - (j - 1)
    /\ \A x : Cardinality(Holds(x, gathered))
                = Cardinality(Occurs(x, merged, 1))
                  + Cardinality(Occurs(x, report, j))

LEMMA SameSize ==
  ASSUME NEW S, NEW T, IsFiniteSet(S), NEW f \in [S -> T],
         \A x, y \in S : f[x] = f[y] => x = y,
         \A t \in T : \E s \in S : f[s] = t
  PROVE  Cardinality(T) = Cardinality(S)
<1>1. f \in Bijection(S, T)
  BY DEF Bijection, Injection, Surjection, IsInjective
<1>2. ExistsBijection(S, T)
  BY <1>1 DEF ExistsBijection
<1>. QED
  BY <1>2, FS_Bijection

LEMMA OccursFinite ==
  ASSUME NEW x, NEW v \in Seq(Kept), NEW l \in Nat
  PROVE  IsFiniteSet(Occurs(x, v, l)) /\ Cardinality(Occurs(x, v, l)) \in Nat
<1>1. IsFiniteSet(l..Len(v))
  BY FS_Interval
<1>2. Occurs(x, v, l) \in SUBSET (l..Len(v))
  BY DEF Occurs
<1>3. IsFiniteSet(Occurs(x, v, l))
  BY <1>1, <1>2, FS_Subset
<1>. QED
  BY <1>3, FS_CardinalityType

\* insertsort() adds one sample and keeps all others.
LEMMA InsertOccurs ==
  ASSUME NEW x \in Kept, NEW v \in Seq(Kept), NEW y
  PROVE  /\ Len(InsertSort(x, v)) = Len(v) + 1
         /\ Cardinality(Occurs(y, InsertSort(x, v), 1))
              = Cardinality(Occurs(y, v, 1)) + (IF x = y THEN 1 ELSE 0)
<1>. DEFINE w == InsertSort(x, v)
            k == Position(x, v)
            S == Occurs(y, v, 1)
            T == Occurs(y, w, 1) \ {k}
            f == [l \in S |-> IF l < k THEN l ELSE l + 1]
<1>1. x \in Sample /\ x.u # 0
  BY DEF Kept, Sample
<1>2. /\ w \in Seq(Kept) /\ Len(w) = Len(v) + 1
      /\ \A l \in 1..Len(w) :
           w[l] = IF l < k THEN v[l] ELSE IF l = k THEN x ELSE v[l - 1]
  BY <1>1, InsertShape
<1>3. k \in 1..(Len(v) + 1)
  BY PositionFound
<1>. HIDE DEF w, k
<1>4. /\ \A l \in S : l \in 1..Len(v) /\ v[l] = y
      /\ \A l \in 1..Len(v) : v[l] = y => l \in S
  BY DEF Occurs
<1>5. /\ \A l \in T : l \in 1..Len(w) /\ l # k /\ w[l] = y
      /\ \A l \in 1..Len(w) : l # k /\ w[l] = y => l \in T
  BY DEF Occurs
<1>6. IsFiniteSet(S) /\ Cardinality(S) \in Nat
  BY OccursFinite
<1>. HIDE DEF S, T
<1>7. f \in [S -> T]
  <2>1. ASSUME NEW l \in S PROVE f[l] \in T
    <3>1. l \in 1..Len(v) /\ v[l] = y
      BY <1>4
    <3>2. CASE l < k
      <4>1. f[l] = l /\ l \in 1..Len(w) /\ w[l] = v[l]
        BY <1>2, <1>3, <3>1, <3>2
      <4>. QED
        BY <1>3, <1>5, <3>1, <3>2, <4>1
    <3>3. CASE ~(l < k)
      <4>1. f[l] = l + 1 /\ l + 1 \in 1..Len(w)
        BY <1>2, <1>3, <3>1, <3>3
      <4>2. ~(l + 1 < k) /\ l + 1 # k /\ (l + 1) - 1 = l
        BY <1>3, <3>1, <3>3
      <4>3. w[l + 1] = v[l]
        BY <1>2, <4>1, <4>2
      <4>. QED
        BY <1>5, <3>1, <4>1, <4>2, <4>3
    <3>. QED
      BY <3>2, <3>3
  <2>. QED
    BY <2>1
<1>8. \A l, m \in S : f[l] = f[m] => l = m
  BY <1>3, <1>4
<1>9. \A t \in T : \E l \in S : f[l] = t
  <2>. TAKE t \in T
  <2>1. t \in 1..Len(w) /\ t # k /\ w[t] = y
    BY <1>5
  <2>2. CASE t < k
    <3>1. t \in 1..Len(v) /\ v[t] = y
      BY <1>2, <1>3, <2>1, <2>2
    <3>. QED
      BY <1>4, <2>2, <3>1
  <2>3. CASE ~(t < k)
    <3>1. t - 1 \in 1..Len(v) /\ v[t - 1] = y /\ ~(t - 1 < k)
      BY <1>2, <1>3, <2>1, <2>3
    <3>2. t - 1 \in S
      BY <1>4, <3>1
    <3>3. f[t - 1] = (t - 1) + 1 /\ (t - 1) + 1 = t
      BY <2>1, <3>1, <3>2
    <3>. QED
      BY <3>2, <3>3
  <2>. QED
    BY <2>2, <2>3
<1>10. Cardinality(T) = Cardinality(S)
  BY <1>6, <1>7, <1>8, <1>9, SameSize
<1>11. Cardinality(Occurs(y, w, 1)) = Cardinality(S) + (IF x = y THEN 1 ELSE 0)
  <2>1. k \in 1..Len(w) /\ w[k] = x
    BY <1>2, <1>3
  <2>2. k \in Occurs(y, w, 1) <=> x = y
    BY <2>1 DEF Occurs
  <2>3. IsFiniteSet(Occurs(y, w, 1)) /\ Cardinality(Occurs(y, w, 1)) \in Nat
    BY <1>2, OccursFinite
  <2>4. Cardinality(T) = IF k \in Occurs(y, w, 1)
                         THEN Cardinality(Occurs(y, w, 1)) - 1
                         ELSE Cardinality(Occurs(y, w, 1))
    BY <2>3, FS_RemoveElement DEF T
  <2>. QED
    BY <1>6, <1>10, <2>2, <2>3, <2>4
<1>. QED
  BY <1>2, <1>11 DEF w, S

\* Reading on, one place less remains.
LEMMA OccursNext ==
  ASSUME NEW v \in Seq(Kept), NEW l \in 1..Len(v), NEW y
  PROVE  Cardinality(Occurs(y, v, l))
           = Cardinality(Occurs(y, v, l + 1)) + (IF v[l] = y THEN 1 ELSE 0)
<1>1. IsFiniteSet(Occurs(y, v, l + 1)) /\ Cardinality(Occurs(y, v, l + 1)) \in Nat
  BY OccursFinite
<1>2. l \notin Occurs(y, v, l + 1)
  BY DEF Occurs
<1>3. CASE v[l] = y
  <2>1. Occurs(y, v, l) = Occurs(y, v, l + 1) \cup {l}
    BY <1>3 DEF Occurs
  <2>. QED
    BY <1>1, <1>2, <1>3, <2>1, FS_AddElement
<1>4. CASE v[l] # y
  <2>1. Occurs(y, v, l) = Occurs(y, v, l + 1)
    BY <1>4 DEF Occurs
  <2>. QED
    BY <1>1, <1>4, <2>1
<1>. QED
  BY <1>3, <1>4

\* The places of one more child.
LEMMA PlacesFinite ==
  ASSUME NEW children \in SUBSET Child
  PROVE  IsFiniteSet(Places(children)) /\ Cardinality(Places(children)) \in Nat
<1>1. IsFiniteSet(Child) /\ IsFiniteSet(1..Repetitions)
  BY SamplesAssumption, FS_Interval DEF Child
<1>2. IsFiniteSet(children)
  BY <1>1, FS_Subset
<1>3. IsFiniteSet(children \X (1..Repetitions))
  BY <1>1, <1>2, FS_Product
<1>4. Places(children) \in SUBSET (children \X (1..Repetitions))
  BY DEF Places
<1>5. IsFiniteSet(Places(children))
  BY <1>3, <1>4, FS_Subset
<1>. QED
  BY <1>5, FS_CardinalityType

LEMMA PlacesAdd ==
  ASSUME NEW children \in SUBSET Child, NEW c \in Child \ children,
         r[c] \in Seq(Kept), Len(r[c]) <= Repetitions
  PROVE  /\ Cardinality(Places(children \cup {c}))
              = Cardinality(Places(children)) + Len(r[c])
         /\ \A x : Cardinality(Holds(x, children \cup {c}))
                     = Cardinality(Holds(x, children))
                       + Cardinality(Occurs(x, r[c], 1))
<1>. DEFINE own == 1..Len(r[c])
<1>1. Places(children \cup {c}) = Places(children) \cup ({c} \X own)
  BY SamplesAssumption DEF Places
<1>2. Places(children) \cap ({c} \X own) = {}
  BY DEF Places
<1>3. \A S : IsFiniteSet(S) => /\ IsFiniteSet({c} \X S)
                               /\ Cardinality({c} \X S) = Cardinality(S)
  <2>. SUFFICES ASSUME NEW S, IsFiniteSet(S)
                PROVE  /\ IsFiniteSet({c} \X S)
                       /\ Cardinality({c} \X S) = Cardinality(S)
    OBVIOUS
  <2>1. IsFiniteSet({c}) /\ Cardinality({c}) = 1
    BY FS_Singleton
  <2>2. Cardinality(S) \in Nat
    BY FS_CardinalityType
  <2>3. /\ IsFiniteSet({c} \X S)
        /\ Cardinality({c} \X S) = Cardinality({c}) * Cardinality(S)
    BY <2>1, FS_Product
  <2>. QED
    BY <2>1, <2>2, <2>3
<1>4. IsFiniteSet(own) /\ Cardinality(own) = Len(r[c])
  BY FS_Interval
<1>5. IsFiniteSet(Places(children)) /\ Cardinality(Places(children)) \in Nat
  BY PlacesFinite
<1>6. \A S, T : IsFiniteSet(S) /\ IsFiniteSet(T) /\ S \cap T = {} =>
        Cardinality(S \cup T) = Cardinality(S) + Cardinality(T)
  <2>. SUFFICES ASSUME NEW S, NEW T, IsFiniteSet(S), IsFiniteSet(T),
                       S \cap T = {}
                PROVE  Cardinality(S \cup T) = Cardinality(S) + Cardinality(T)
    OBVIOUS
  <2>1. Cardinality(S \cup T)
          = Cardinality(S) + Cardinality(T) - Cardinality(S \cap T)
    BY FS_Union
  <2>2. Cardinality(S \cap T) = 0
    BY FS_EmptySet
  <2>3. Cardinality(S) \in Nat /\ Cardinality(T) \in Nat
    BY FS_CardinalityType
  <2>. QED
    BY <2>1, <2>2, <2>3
<1>7. Cardinality(Places(children \cup {c}))
        = Cardinality(Places(children)) + Len(r[c])
  <2>. HIDE DEF own
  <2>1. IsFiniteSet({c} \X own) /\ Cardinality({c} \X own) = Len(r[c])
    BY <1>3, <1>4
  <2>2. Cardinality(Places(children) \cup ({c} \X own))
          = Cardinality(Places(children)) + Cardinality({c} \X own)
    BY <1>2, <1>5, <1>6, <2>1
  <2>. QED
    BY <1>1, <2>1, <2>2
<1>8. ASSUME NEW x
      PROVE  Cardinality(Holds(x, children \cup {c}))
               = Cardinality(Holds(x, children))
                 + Cardinality(Occurs(x, r[c], 1))
  <2>1. Holds(x, children \cup {c})
          = Holds(x, children) \cup ({c} \X Occurs(x, r[c], 1))
    <3>. DEFINE all == Holds(x, children \cup {c})
                old == Holds(x, children)
                new == {c} \X Occurs(x, r[c], 1)
    <3>1. \A p : p \in all <=> /\ p \in Places(children) \/ p \in {c} \X own
                               /\ r[p[1]][p[2]] = x
      BY <1>1 DEF Holds
    <3>2. \A p : p \in old <=> p \in Places(children) /\ r[p[1]][p[2]] = x
      BY DEF Holds
    <3>3. \A p : p \in new <=> p \in {c} \X own /\ r[p[1]][p[2]] = x
      BY DEF Occurs
    <3>. HIDE DEF all, old, new, own
    <3>4. all = old \cup new
      BY <3>1, <3>2, <3>3
    <3>. QED
      BY <3>4 DEF all, old, new
  <2>2. Holds(x, children) \cap ({c} \X Occurs(x, r[c], 1)) = {}
    BY DEF Holds, Places
  <2>3. IsFiniteSet(Occurs(x, r[c], 1))
    BY OccursFinite
  <2>4. Holds(x, children) \in SUBSET Places(children)
    BY DEF Holds
  <2>5. IsFiniteSet(Holds(x, children))
    BY <1>5, <2>4, FS_Subset
  <2>6. /\ IsFiniteSet({c} \X Occurs(x, r[c], 1))
        /\ Cardinality({c} \X Occurs(x, r[c], 1))
             = Cardinality(Occurs(x, r[c], 1))
    BY <1>3, <2>3
  <2>7. Cardinality(Holds(x, children) \cup ({c} \X Occurs(x, r[c], 1)))
          = Cardinality(Holds(x, children))
            + Cardinality({c} \X Occurs(x, r[c], 1))
    BY <1>6, <2>2, <2>5, <2>6
  <2>. QED
    BY <2>1, <2>6, <2>7
<1>. QED
  BY <1>7, <1>8

LEMMA ConservedInit == Init => Conserved
<1>. SUFFICES ASSUME Init PROVE Conserved
  OBVIOUS
<1>1. gathered = {} /\ merged = <<>> /\ report = <<>> /\ j = 1
  BY DEF Init
<1>2. /\ Places(gathered) = {}
      /\ \A x : /\ Holds(x, gathered) = {}
                /\ Occurs(x, merged, 1) = {} /\ Occurs(x, report, j) = {}
  BY <1>1 DEF Places, Holds, Occurs
<1>3. Cardinality(Places(gathered)) = Len(merged) + Len(report) - (j - 1)
  BY <1>1, <1>2, FS_EmptySet
<1>4. \A x : Cardinality(Holds(x, gathered))
               = Cardinality(Occurs(x, merged, 1))
                 + Cardinality(Occurs(x, report, j))
  BY <1>2, FS_EmptySet
<1>. QED
  BY <1>1, <1>3, <1>4 DEF Conserved

\* The results of the children whose reports were read stay as they are.
LEMMA ConservedSame ==
  ASSUME Conserved, gathered' = gathered, merged' = merged, report' = report,
         j' = j, \A c \in gathered : r'[c] = r[c] /\ state'[c] = state[c]
  PROVE  Conserved'
<1>1. Places(gathered)' = Places(gathered)
  BY DEF Places
<1>2. \A x : Holds(x, gathered)' = Holds(x, gathered)
  <2>. TAKE x
  <2>1. \A p \in Places(gathered) : r'[p[1]][p[2]] = r[p[1]][p[2]]
    BY DEF Places
  <2>. QED
    BY <1>1, <2>1 DEF Holds
<1>3. \A x : /\ Occurs(x, merged, 1)' = Occurs(x, merged, 1)
             /\ Occurs(x, report, j)' = Occurs(x, report, j)
  BY DEF Occurs
<1>. QED
  BY <1>1, <1>2, <1>3 DEF Conserved

LEMMA ConservedGather ==
  ASSUME TypeOK, Bounded, Conserved, NEW c \in Child, Gather(c)
  PROVE  Conserved'
<1>1. /\ j > Len(report) /\ c \notin gathered /\ state[c] = "cooldown"
      /\ gathered' = gathered \cup {c} /\ report' = r[c] /\ j' = 1
      /\ UNCHANGED <<merged, r, state>>
  BY DEF Gather, childVars, AllDone
<1>2. /\ gathered \in SUBSET Child /\ r[c] \in Seq(Kept)
      /\ Len(r[c]) <= Repetitions
  BY SamplesAssumption DEF TypeOK, Bounded
<1>3. /\ Cardinality(Places(gathered \cup {c}))
           = Cardinality(Places(gathered)) + Len(r[c])
      /\ \A x : Cardinality(Holds(x, gathered \cup {c}))
                  = Cardinality(Holds(x, gathered))
                    + Cardinality(Occurs(x, r[c], 1))
  BY <1>1, <1>2, PlacesAdd
<1>4. \A x : Occurs(x, report, j) = {}
  BY <1>1 DEF Occurs, TypeOK
<1>5. \A x : Cardinality(Holds(x, gathered)) = Cardinality(Occurs(x, merged, 1))
  <2>. TAKE x
  <2>1. Cardinality(Occurs(x, merged, 1)) \in Nat
    BY OccursFinite DEF TypeOK
  <2>. QED
    BY <1>4, <2>1, FS_EmptySet DEF Conserved
<1>6. Cardinality(Places(gathered)) = Len(merged)
  <2>1. j = Len(report) + 1 /\ Len(report) \in Nat /\ Len(merged) \in Nat
    BY <1>1 DEF TypeOK
  <2>. QED
    BY <2>1 DEF Conserved
<1>7. /\ Places(gathered)' = Places(gathered \cup {c})
      /\ \A x : /\ Holds(x, gathered)' = Holds(x, gathered \cup {c})
                /\ Occurs(x, merged, 1)' = Occurs(x, merged, 1)
                /\ Occurs(x, report, j)' = Occurs(x, r[c], 1)
  BY <1>1 DEF Places, Holds, Occurs
<1>8. \A d \in gathered' : state'[d] = "cooldown"
  BY <1>1 DEF Conserved
<1>9. Cardinality(Places(gathered)') = Len(merged') + Len(report') - (j' - 1)
  BY <1>1, <1>2, <1>3, <1>6, <1>7 DEF TypeOK
<1>10. \A x : Cardinality(Holds(x, gathered)')
                = Cardinality(Occurs(x, merged, 1)')
                  + Cardinality(Occurs(x, report, j)')
  BY <1>3, <1>5, <1>7
<1>. QED
  BY <1>8, <1>9, <1>10 DEF Conserved

LEMMA ConservedMerge ==
  ASSUME TypeOK, Conserved, Merge
  PROVE  Conserved'
<1>1. /\ merged' = InsertSort(report[j], merged) /\ j' = j + 1
      /\ UNCHANGED <<gathered, report, r, state>>
  BY DEF Merge, childVars
<1>2. /\ report \in Seq(Kept) /\ merged \in Seq(Kept)
      /\ j \in 1..Len(report) /\ report[j] \in Kept
  BY DEF Merge, TypeOK
<1>3. /\ Len(merged') = Len(merged) + 1
      /\ \A x : Cardinality(Occurs(x, merged', 1))
                  = Cardinality(Occurs(x, merged, 1))
                    + (IF report[j] = x THEN 1 ELSE 0)
  BY <1>1, <1>2, InsertOccurs
<1>4. \A x : Cardinality(Occurs(x, report, j))
               = Cardinality(Occurs(x, report, j + 1))
                 + (IF report[j] = x THEN 1 ELSE 0)
  BY <1>2, OccursNext
<1>5. /\ Places(gathered)' = Places(gathered)
      /\ \A x : /\ Holds(x, gathered)' = Holds(x, gathered)
                /\ Occurs(x, merged, 1)' = Occurs(x, merged', 1)
                /\ Occurs(x, report, j)' = Occurs(x, report, j + 1)
  BY <1>1 DEF Places, Holds, Occurs
<1>6. \A x : Cardinality(Holds(x, gathered)')
               = Cardinality(Occurs(x, merged, 1)')
                 + Cardinality(Occurs(x, report, j)')
  <2>. TAKE x
  <2>1. /\ Cardinality(Occurs(x, merged, 1)) \in Nat
        /\ Cardinality(Occurs(x, report, j + 1)) \in Nat
    BY <1>2, OccursFinite
  <2>2. Cardinality(Holds(x, gathered))
          = Cardinality(Occurs(x, merged, 1)) + Cardinality(Occurs(x, report, j))
    BY DEF Conserved
  <2>. QED
    BY <1>3, <1>4, <1>5, <2>1, <2>2
<1>7. Cardinality(Places(gathered)') = Len(merged') + Len(report') - (j' - 1)
  BY <1>1, <1>2, <1>3, <1>5 DEF Conserved
<1>. QED
  BY <1>1, <1>6, <1>7 DEF Conserved

LEMMA ConservedStep ==
  TypeOK /\ Bounded /\ Conserved /\ [Next]_vars => Conserved'
<1>1. ASSUME TypeOK, Conserved, NEW c \in Child, Interval(c) PROVE Conserved'
  <2>1. PICK result : Measure(c, result)
    BY <1>1, MeasureShape
  <2>2. c \notin gathered
    BY <1>1 DEF Interval, Conserved
  <2>3. \A d \in gathered : r'[d] = r[d] /\ state'[d] = state[d]
    BY <1>1, <2>1, <2>2 DEF Measure, TypeOK
  <2>4. UNCHANGED <<gathered, merged, report, j>>
    BY <1>1 DEF Interval, parentVars
  <2>. QED
    BY <1>1, <2>3, <2>4, ConservedSame
<1>2. ASSUME Conserved, Publish \/ Return \/ UNCHANGED vars PROVE Conserved'
  <2>1. UNCHANGED <<gathered, merged, report, j, r, state>>
    BY <1>2 DEF Publish, Return, vars, childVars, parentVars
  <2>. QED
    BY <1>2, <2>1, ConservedSame
<1>3. ASSUME StartLoad PROVE Conserved'
  <2>1. gathered' = {} /\ merged' = <<>> /\ report' = <<>> /\ j' = 1
    BY <1>3 DEF StartLoad
  <2>2. /\ Places(gathered)' = {}
        /\ \A x : /\ Holds(x, gathered)' = {}
                  /\ Occurs(x, merged, 1)' = {} /\ Occurs(x, report, j)' = {}
    BY <2>1 DEF Places, Holds, Occurs
  <2>3. Cardinality(Places(gathered)') = Len(merged') + Len(report') - (j' - 1)
    BY <2>1, <2>2, FS_EmptySet
  <2>4. \A x : Cardinality(Holds(x, gathered)')
                 = Cardinality(Occurs(x, merged, 1)')
                   + Cardinality(Occurs(x, report, j)')
    BY <2>2, FS_EmptySet
  <2>. QED
    BY <2>1, <2>3, <2>4 DEF Conserved
<1>. QED
  BY <1>1, <1>2, <1>3, ConservedGather, ConservedMerge DEF Next, Done

\* No measurement is lost, made up or counted twice between the results of
\* the children and what benchmp_parent() publishes.
THEOREM NoneLost == Spec => []NothingLost
<1>1. TypeOK /\ Conserved => NothingLost
  <2>. SUFFICES ASSUME TypeOK, Conserved PROVE NothingLost
    OBVIOUS
  <2>1. \A x : /\ Holds(x, gathered)
                    = {q \in Places(gathered) : r[q[1]][q[2]] = x}
               /\ Occurs(x, merged, 1) = {l \in DOMAIN merged : merged[l] = x}
               /\ Occurs(x, report, j)
                    = {l \in j..Len(report) : report[l] = x}
    BY DEF Holds, Occurs, TypeOK
  <2>2. /\ Cardinality(Places(gathered)) = Len(merged) + Len(report) - (j - 1)
        /\ \A x : Cardinality({q \in Places(gathered) : r[q[1]][q[2]] = x})
                    = Cardinality({l \in DOMAIN merged : merged[l] = x})
                      + Cardinality({l \in j..Len(report) : report[l] = x})
    BY <2>1 DEF Conserved
  <2>. QED
    BY Zenon, <2>2 DEF NothingLost
<1>. QED
  BY TypeInit, TypeStep, BoundedInit, BoundedStep, ConservedInit,
     ConservedStep, <1>1, PTL DEF Spec

-----------------------------------------------------------------------------
(* Medians.                                                                *)

LEMMA SlowerSame ==
  ASSUME NEW x \in Sample, NEW y \in Sample, x.n = y.n
  PROVE  Slower(x, y) <=> x.u > y.u
<1>. DEFINE a == x.u
            b == y.u
            k == x.n
<1>1. a \in Nat /\ b \in Nat /\ k \in Nat /\ k > 0
  BY DEF Sample
<1>. HIDE DEF a, b, k
<1>2. ASSUME a > b PROVE a * k > b * k
  <2>1. a * k = b * k + (a - b) * k
    BY <1>1
  <2>2. (a - b) * k > 0
    BY <1>1, <1>2
  <2>3. b * k \in Nat /\ (a - b) * k \in Int
    BY <1>1
  <2>. QED
    BY <2>1, <2>2, <2>3
<1>3. ASSUME ~(a > b) PROVE ~(a * k > b * k)
  <2>1. b * k = a * k + (b - a) * k
    BY <1>1
  <2>2. (b - a) * k >= 0
    BY <1>1, <1>3
  <2>3. a * k \in Nat /\ (b - a) * k \in Int
    BY <1>1
  <2>. QED
    BY <2>1, <2>2, <2>3
<1>4. Slower(x, y) <=> a * k > b * k
  BY DEF Slower, a, b, k
<1>. QED
  BY <1>2, <1>3, <1>4 DEF a, b

LEMMA ResultFields ==
  ASSUME NEW v \in Seq(Kept), NEW l \in 1..Len(v)
  PROVE  /\ v[l] \in Sample
         /\ v[l].u \in Nat /\ v[l].u > 0 /\ v[l].n \in Nat /\ v[l].n > 0
<1>1. v[l] \in Kept
  OBVIOUS
<1>. QED
  BY <1>1 DEF Kept, Sample

\* Sorted at neighbours is sorted throughout, when the counts are the same.
LEMMA SortedThroughout ==
  ASSUME NEW v \in Seq(Kept), NEW count,
         \A l \in 1..Len(v) : v[l].n = count, Descending(v)
  PROVE  \A l, m \in 1..Len(v) : l <= m => v[m].u <= v[l].u
<1>1. \A l \in 1..Len(v) : v[l] \in Sample /\ v[l].u \in Nat
  BY ResultFields
<1>2. \A l \in 1..(Len(v) - 1) : v[l + 1].u <= v[l].u
  <2>. TAKE l \in 1..(Len(v) - 1)
  <2>1. l \in 1..Len(v) /\ l + 1 \in 1..Len(v)
    OBVIOUS
  <2>2. ~Slower(v[l + 1], v[l])
    BY DEF Descending
  <2>3. ~(v[l + 1].u > v[l].u)
    BY <1>1, <2>1, <2>2, SlowerSame
  <2>. QED
    BY <1>1, <2>1, <2>3
<1>. SUFFICES ASSUME NEW l \in 1..Len(v)
              PROVE  \A m \in 1..Len(v) : l <= m => v[m].u <= v[l].u
  OBVIOUS
<1>. DEFINE bad == {m \in 1..Len(v) : l <= m /\ ~(v[m].u <= v[l].u)}
<1>3. bad = {}
  <2>. SUFFICES ASSUME bad # {} PROVE FALSE
    OBVIOUS
  <2>1. bad \in SUBSET Nat
    OBVIOUS
  <2>2. PICK m \in bad : \A k \in bad : m <= k
    BY <2>1, LeastNatural
  <2>3. m \in 1..Len(v) /\ l <= m /\ ~(v[m].u <= v[l].u)
    OBVIOUS
  <2>4. m # l
    BY <1>1, <2>3
  <2>5. m - 1 \in 1..(Len(v) - 1) /\ m - 1 \in 1..Len(v) /\ l <= m - 1
    BY <2>3, <2>4
  <2>6. m - 1 \notin bad
    BY <2>2, <2>3
  <2>7. v[m - 1].u <= v[l].u
    BY <2>5, <2>6
  <2>8. v[(m - 1) + 1].u <= v[m - 1].u /\ (m - 1) + 1 = m
    BY <1>2, <2>3, <2>5
  <2>. QED
    BY <1>1, <2>3, <2>5, <2>7, <2>8
<1>. QED
  BY <1>3

\* A set of places that has an interval is as large as it.
LEMMA IntervalWithin ==
  ASSUME NEW v \in Seq(Kept), NEW S \in SUBSET (1..Len(v)),
         NEW a \in Nat, NEW b \in Nat, a <= b + 1, (a..b) \subseteq S
  PROVE  Cardinality(S) \in Nat /\ Cardinality(S) >= b - a + 1
<1>1. IsFiniteSet(1..Len(v))
  BY FS_Interval
<1>2. IsFiniteSet(S)
  BY <1>1, FS_Subset
<1>3. Cardinality(a..b) <= Cardinality(S) /\ Cardinality(S) \in Nat
  BY <1>2, FS_Subset, FS_CardinalityType
<1>4. Cardinality(a..b) = b - a + 1
  BY FS_Interval
<1>. QED
  BY <1>3, <1>4

\* save_median() of sorted times that took the same number of iterations.
LEMMA MedianInMiddle ==
  ASSUME NEW v \in Seq(Kept), NEW count \in Nat, count > 0, v # <<>>,
         \A l \in 1..Len(v) : v[l].n = count, Descending(v)
  PROVE  InMiddle([u |-> Median(v).u, n |-> Median(v).n], v)
<1>. DEFINE h == Len(v) \div 2
            k == (Len(v) \div 2) + 1
            x == [u |-> Median(v).u, n |-> Median(v).n]
            low == {l \in DOMAIN v : ~Slower(v[l], x)}
            high == {l \in DOMAIN v : ~Slower(x, v[l])}
<1>1. Len(v) \in Nat /\ Len(v) > 0 /\ DOMAIN v = 1..Len(v)
  OBVIOUS
<1>2. h \in Nat /\ k \in 1..Len(v)
      /\ (Len(v) = 2 * h + 1 \/ (Len(v) = 2 * h /\ h > 0))
      /\ (Len(v) % 2 = 1 <=> Len(v) = 2 * h + 1) /\ k = h + 1
  <2>. DEFINE len == Len(v)
  <2>1. len \in Nat /\ len > 0
    BY <1>1
  <2>. HIDE DEF len
  <2>2. /\ len \div 2 \in Nat /\ (len \div 2) + 1 \in 1..len
        /\ (len = 2 * (len \div 2) + 1 \/ (len = 2 * (len \div 2) /\ len \div 2 > 0))
        /\ (len % 2 = 1 <=> len = 2 * (len \div 2) + 1)
    BY <2>1
  <2>. QED
    BY <2>2 DEF len
<1>3. \A l \in 1..Len(v) : v[l] \in Sample /\ v[l].u \in Nat /\ v[l].n = count
  <2>. TAKE l \in 1..Len(v)
  <2>1. v[l] \in Sample /\ v[l].u \in Nat
    BY ResultFields
  <2>. QED
    BY <2>1
<1>4. \A l, m \in 1..Len(v) : l <= m => v[m].u <= v[l].u
  BY Zenon, SortedThroughout
<1>. HIDE DEF h, k
<1>5. CASE Len(v) = 2 * h + 1
  <2>1. Median(v) = v[k]
    BY <1>2, <1>5 DEF Median, k
  <2>2. x \in Sample /\ x.u = v[k].u /\ x.n = count
    BY <1>2, <1>3, <2>1 DEF Sample
  <2>. HIDE DEF x
  <2>3. \A l \in 1..Len(v) : /\ Slower(v[l], x) <=> v[l].u > v[k].u
                             /\ Slower(x, v[l]) <=> v[k].u > v[l].u
    BY <1>3, <2>2, SlowerSame
  <2>4. (k..Len(v)) \subseteq low
    <3>1. \A l \in k..Len(v) : l \in 1..Len(v) /\ ~(v[l].u > v[k].u)
      <4>. TAKE l \in k..Len(v)
      <4>1. l \in 1..Len(v) /\ k \in 1..Len(v) /\ k <= l
        BY <1>2
      <4>2. v[l].u <= v[k].u /\ v[l].u \in Nat /\ v[k].u \in Nat
        BY Zenon, <1>3, <1>4, <4>1
      <4>. QED
        BY <4>1, <4>2
    <3>. QED
      BY <1>1, <2>3, <3>1
  <2>5. (1..k) \subseteq high
    <3>1. \A l \in 1..k : l \in 1..Len(v) /\ ~(v[k].u > v[l].u)
      <4>. TAKE l \in 1..k
      <4>1. l \in 1..Len(v) /\ k \in 1..Len(v) /\ l <= k
        BY <1>2
      <4>2. v[k].u <= v[l].u /\ v[l].u \in Nat /\ v[k].u \in Nat
        BY Zenon, <1>3, <1>4, <4>1
      <4>. QED
        BY <4>1, <4>2
    <3>. QED
      BY <1>1, <2>3, <3>1
  <2>6. low \in SUBSET (1..Len(v)) /\ high \in SUBSET (1..Len(v))
    BY <1>1
  <2>. HIDE DEF low, high
  <2>. k \in Nat /\ k <= Len(v) + 1 /\ Len(v) \in Nat
    BY <1>2
  <2>7. Cardinality(low) \in Nat /\ Cardinality(low) >= Len(v) - k + 1
    <3>1. k \in Nat /\ Len(v) \in Nat /\ k <= Len(v) + 1
      BY <1>2
    <3>. QED
      BY Zenon, <2>4, <2>6, <3>1, IntervalWithin
  <2>8. Cardinality(high) \in Nat /\ Cardinality(high) >= k - 1 + 1
    <3>1. 1 \in Nat /\ k \in Nat /\ 1 <= k + 1
      BY <1>2
    <3>. QED
      BY Zenon, <2>5, <2>6, <3>1, IntervalWithin
  <2>9. 2 * Cardinality(low) >= Len(v) /\ 2 * Cardinality(high) >= Len(v)
    <3>1. k = h + 1 /\ h \in Nat
      BY <1>2
    <3>2. Cardinality(low) >= (2 * h + 1) - (h + 1) + 1
      BY Zenon, <1>5, <2>7, <3>1
    <3>3. Cardinality(high) >= (h + 1) - 1 + 1
      BY Zenon, <2>8, <3>1
    <3>4. 2 * Cardinality(low) >= 2 * h + 1 /\ 2 * Cardinality(high) >= 2 * h + 1
      BY <2>7, <2>8, <3>1, <3>2, <3>3
    <3>. QED
      BY Zenon, <1>5, <3>4
  <2>. QED
    BY Zenon, <2>9 DEF InMiddle, low, high, x
<1>6. CASE Len(v) = 2 * h /\ h > 0
  <2>. DEFINE mean == (v[k].u + v[k - 1].u) \div 2
  <2>1. k - 1 \in 1..Len(v) /\ k - 1 = h
    BY <1>2, <1>6
  <2>2. Median(v) = [u |-> mean, n |-> (v[k].n + v[k - 1].n) \div 2]
    <3>1. Len(v) % 2 # 1
      BY <1>2, <1>6
    <3>. QED
      BY Zenon, <3>1 DEF Median, k
  <2>3. (v[k].n + v[k - 1].n) \div 2 = count
    <3>1. v[k].n = count /\ v[k - 1].n = count
      BY <1>2, <1>3, <2>1
    <3>2. (count + count) \div 2 = count
      OBVIOUS
    <3>. QED
      BY <3>1, <3>2
  <2>4. v[k].u \in Nat /\ v[k - 1].u \in Nat /\ v[k].u <= v[k - 1].u
    BY <1>2, <1>3, <1>4, <2>1
  <2>5. mean \in Nat /\ v[k].u <= mean /\ mean <= v[k - 1].u
    <3>1. \A a, b \in Nat : a <= b =>
            (a + b) \div 2 \in Nat /\ a <= (a + b) \div 2
            /\ (a + b) \div 2 <= b
      OBVIOUS
    <3>. QED
      BY Zenon, <2>4, <3>1
  <2>. HIDE DEF mean
  <2>6. x \in Sample /\ x.u = mean /\ x.n = count
    BY <2>2, <2>3, <2>5 DEF Sample
  <2>. HIDE DEF x
  <2>7. \A l \in 1..Len(v) : /\ Slower(v[l], x) <=> v[l].u > mean
                             /\ Slower(x, v[l]) <=> mean > v[l].u
    BY <1>3, <2>6, SlowerSame
  <2>8. (k..Len(v)) \subseteq low
    <3>1. \A l \in k..Len(v) : l \in 1..Len(v) /\ v[l].u <= v[k].u
      <4>. TAKE l \in k..Len(v)
      <4>1. l \in 1..Len(v) /\ k \in 1..Len(v) /\ k <= l
        BY <1>2
      <4>. QED
        BY Zenon, <1>4, <4>1
    <3>2. \A l \in k..Len(v) : ~(v[l].u > mean)
      BY <1>3, <2>4, <2>5, <3>1
    <3>. QED
      BY <1>1, <2>7, <3>1, <3>2
  <2>9. (1..h) \subseteq high
    <3>1. \A l \in 1..h : l \in 1..Len(v) /\ v[k - 1].u <= v[l].u
      <4>. TAKE l \in 1..h
      <4>1. l \in 1..Len(v) /\ l <= k - 1
        BY <1>2, <2>1
      <4>. QED
        BY Zenon, <1>4, <2>1, <4>1
    <3>2. \A l \in 1..h : ~(mean > v[l].u)
      BY <1>3, <2>4, <2>5, <3>1
    <3>. QED
      BY <1>1, <2>7, <3>1, <3>2
  <2>10. low \in SUBSET (1..Len(v)) /\ high \in SUBSET (1..Len(v))
    BY <1>1
  <2>. HIDE DEF low, high
  <2>. k \in Nat /\ k <= Len(v) + 1 /\ Len(v) \in Nat /\ h \in Nat
    BY <1>2
  <2>11. Cardinality(low) \in Nat /\ Cardinality(low) >= Len(v) - k + 1
    <3>1. k \in Nat /\ Len(v) \in Nat /\ k <= Len(v) + 1
      BY <1>2
    <3>. QED
      BY Zenon, <2>8, <2>10, <3>1, IntervalWithin
  <2>12. Cardinality(high) \in Nat /\ Cardinality(high) >= h - 1 + 1
    <3>1. 1 \in Nat /\ h \in Nat /\ 1 <= h + 1
      BY <1>2
    <3>. QED
      BY Zenon, <2>9, <2>10, <3>1, IntervalWithin
  <2>13. 2 * Cardinality(low) >= Len(v) /\ 2 * Cardinality(high) >= Len(v)
    <3>1. k = h + 1 /\ h \in Nat
      BY <1>2
    <3>2. Cardinality(low) >= 2 * h - (h + 1) + 1
      BY Zenon, <1>6, <2>11, <3>1
    <3>3. 2 * Cardinality(low) >= 2 * h /\ 2 * Cardinality(high) >= 2 * h
      BY <2>11, <2>12, <3>1, <3>2
    <3>. QED
      BY Zenon, <1>6, <3>3
  <2>. QED
    BY Zenon, <2>13 DEF InMiddle, low, high, x
<1>. QED
  BY <1>2, <1>5, <1>6

\* A result_t that holds something has a median that is not zero.
LEMMA MedianPositive ==
  ASSUME NEW v \in Seq(Kept), v # <<>>
  PROVE  Median(v).u # 0
<1>. DEFINE k == (Len(v) \div 2) + 1
<1>1. Len(v) \in Nat /\ Len(v) > 0 /\ k \in 1..Len(v)
  OBVIOUS
<1>2. \A l \in 1..Len(v) : v[l].u \in Nat /\ v[l].u > 0
  BY ResultFields
<1>3. CASE Len(v) % 2 = 1
  BY <1>1, <1>2, <1>3 DEF Median
<1>4. CASE Len(v) % 2 # 1
  <2>1. k - 1 \in 1..Len(v)
    BY <1>1, <1>4
  <2>2. Median(v).u = (v[k].u + v[k - 1].u) \div 2
    BY <1>1, <1>4 DEF Median
  <2>. HIDE DEF k
  <2>3. v[k].u \in Nat /\ v[k].u > 0 /\ v[k - 1].u \in Nat /\ v[k - 1].u > 0
    BY <1>1, <1>2, <2>1
  <2>4. (v[k].u + v[k - 1].u) \div 2 > 0
    BY <2>3
  <2>. QED
    BY <2>2, <2>4
<1>. QED
  BY <1>3, <1>4

-----------------------------------------------------------------------------
(* The loaded pass.                                                        *)

\* Every sample anywhere took count iterations, and so will the next.
Counted(count) ==
    /\ \A c \in Child : /\ iterations[c] = count
                        /\ \A l \in 1..Len(r[c]) : r[c][l].n = count
    /\ \A l \in 1..Len(merged) : merged[l].n = count
    /\ \A l \in 1..Len(report) : report[l].n = count

\* What the caller reads is the median of what was merged, and all of that
\* was measured with one number of iterations unless one child did it alone.
LoadInv ==
    /\ published => /\ time = Median(merged).u /\ n = Median(merged).n
                    /\ j > Len(report)
    /\ pass = "returned" => published
    /\ Parallel > 1 /\ (pass = "load" \/ (pass = "returned" /\ merged # <<>>))
         => \E count \in Nat : count > 0 /\ Counted(count)

LEMMA CountedInterval ==
  ASSUME TypeOK, NEW count \in Nat, Counted(count), pass = "load",
         Parallel > 1, NEW c \in Child, Interval(c)
  PROVE  Counted(count)' /\ iterations' = iterations
<1>1. PICK noise \in Noise :
        LET result == Elapsed(iterations[c], noise)
        IN  /\ result \in Int /\ Measure(c, result)
            /\ Recorded(c, result) \in Sample
            /\ InsertSort(Recorded(c, result), r[c]) \in Seq(Kept)
  BY MeasureShape
<1>. DEFINE result == Elapsed(iterations[c], noise)
            x == Recorded(c, result)
            w == InsertSort(x, r[c])
<1>2. /\ x \in Sample /\ r[c] \in Seq(Kept)
      /\ x.n = count
  BY <1>1 DEF TypeOK, Recorded, Counted
<1>3. \A l \in 1..Len(w) : w[l].n = count
  <2>. TAKE l \in 1..Len(w)
  <2>1. \/ w[l] = x
        \/ \E m \in 1..Len(r[c]) : w[l] = r[c][m]
    BY <1>2, InsertMembers
  <2>. HIDE DEF w, x
  <2>. QED
    BY <1>2, <2>1 DEF Counted
<1>4. iterations' = iterations
  <2>1. NextIterations(iterations[c], result) = iterations[c]
    BY SamplesAssumption DEF NextIterations, OffTarget, Width
  <2>2. iterations'
          = [iterations EXCEPT ![c] = NextIterations(iterations[c], result)]
    BY <1>1 DEF Measure
  <2>. HIDE DEF result
  <2>. QED
    BY <2>1, <2>2 DEF TypeOK
<1>5. \A d \in Child : r'[d] = r[d] \/ r'[d] = w
  BY <1>1 DEF Measure, TypeOK
<1>6. merged' = merged /\ report' = report
  BY DEF Interval, parentVars
<1>7. \A d \in Child : \A l \in 1..Len(r'[d]) : r'[d][l].n = count
  <2>. HIDE DEF w
  <2>. QED
    BY <1>3, <1>5 DEF Counted
<1>. QED
  BY <1>4, <1>6, <1>7 DEF Counted

LEMMA CountedStep ==
  ASSUME TypeOK, LoadInv, Parallel > 1, pass' = "load", [Next]_vars
  PROVE  \E count \in Nat : count > 0 /\ Counted(count)'
<1>1. CASE pass = "load"
  <2>1. PICK count \in Nat : count > 0 /\ Counted(count)
    BY <1>1 DEF LoadInv
  <2>2. ASSUME NEW c \in Child, Interval(c) PROVE Counted(count)'
    BY <1>1, <2>1, <2>2, CountedInterval
  <2>3. ASSUME NEW c \in Child, Gather(c) PROVE Counted(count)'
    <3>1. report' = r[c] /\ UNCHANGED <<iterations, r, merged>>
      BY <2>3 DEF Gather, childVars
    <3>. QED
      BY <2>1, <3>1 DEF Counted
  <2>4. ASSUME Merge PROVE Counted(count)'
    <3>1. /\ merged' = InsertSort(report[j], merged)
          /\ UNCHANGED <<iterations, r, report>>
      BY <2>4 DEF Merge, childVars
    <3>2. /\ report[j] \in Sample /\ report[j].n = count
          /\ merged \in Seq(Kept) /\ report \in Seq(Kept)
      <4>1. j \in 1..Len(report) /\ report \in Seq(Kept) /\ merged \in Seq(Kept)
        BY <2>4 DEF Merge, TypeOK
      <4>. QED
        BY <2>1, <4>1, KeptIsSample DEF Counted
    <3>3. \A l \in 1..Len(merged') : merged'[l].n = count
      <4>. DEFINE w == InsertSort(report[j], merged)
      <4>. SUFFICES ASSUME NEW l \in 1..Len(w) PROVE w[l].n = count
        BY <3>1
      <4>1. \/ w[l] = report[j]
            \/ \E m \in 1..Len(merged) : w[l] = merged[m]
        BY <3>2, InsertMembers
      <4>. HIDE DEF w
      <4>. QED
        BY <2>1, <3>2, <4>1 DEF Counted
    <3>. QED
      BY <2>1, <3>1, <3>3 DEF Counted
  <2>5. ASSUME Publish \/ Return \/ UNCHANGED vars PROVE Counted(count)'
    <3>1. UNCHANGED <<iterations, r, report, merged>>
      BY <2>5 DEF Publish, Return, vars, childVars, parentVars
    <3>. QED
      BY <2>1, <3>1 DEF Counted
  <2>6. ~StartLoad
    BY <1>1 DEF StartLoad
  <2>. QED
    BY <2>1, <2>2, <2>3, <2>4, <2>5, <2>6 DEF Next, Done
<1>2. CASE pass # "load"
  <2>1. StartLoad
    <3>1. ~(\E c \in Child : Interval(c) \/ Gather(c))
      BY <1>2 DEF Interval, Gather
    <3>2. ~Merge /\ ~Publish /\ ~Return /\ ~(UNCHANGED vars)
      BY <1>2 DEF Merge, Publish, Return, vars
    <3>. QED
      BY <3>1, <3>2 DEF Next, Done
  <2>2. PICK count \in Nat : count = LoadIterations /\ count > 0
    <3>1. LoadIterations \in Nat /\ LoadIterations > 0
      BY <2>1, LoadIterationsType DEF StartLoad
    <3>. QED
      BY <3>1
  <2>3. /\ merged' = <<>> /\ report' = <<>>
        /\ \A c \in Child : r'[c] = <<>> /\ iterations'[c] = count
    <3>. HIDE DEF LoadIterations
    <3>. QED
      BY <2>1, <2>2 DEF StartLoad, StartChildren
  <2>4. Counted(count)'
    BY <2>3 DEF Counted
  <2>. QED
    BY <2>2, <2>4
<1>. QED
  BY <1>1, <1>2

LEMMA LoadInit == TypeOK /\ Init => LoadInv
  BY DEF Init, LoadInv

LEMMA LoadStep == TypeOK /\ LoadInv /\ [Next]_vars => LoadInv'
<1>. SUFFICES ASSUME TypeOK, LoadInv, [Next]_vars PROVE LoadInv'
  OBVIOUS
<1>1. published' => /\ time' = Median(merged').u /\ n' = Median(merged').n
                    /\ j' > Len(report')
  <2>1. ASSUME NEW c \in Child, Interval(c)
        PROVE  UNCHANGED <<published, time, n, merged, j, report>>
    BY <2>1 DEF Interval, parentVars
  <2>2. ASSUME NEW c \in Child, Gather(c) PROVE ~published'
    BY <2>2 DEF Gather
  <2>3. ASSUME Merge PROVE ~published'
    BY <2>3 DEF Merge, LoadInv, TypeOK
  <2>4. ASSUME Publish
        PROVE  /\ time' = Median(merged').u /\ n' = Median(merged').n
               /\ j' > Len(report')
    <3>1. /\ time' = Median(merged).u /\ n' = Median(merged).n
          /\ merged' = merged /\ j' = j /\ report' = report
          /\ j > Len(report)
      BY <2>4 DEF Publish
    <3>. QED
      BY <3>1
  <2>5. ASSUME Return \/ UNCHANGED vars
        PROVE  UNCHANGED <<published, time, n, merged, j, report>>
    BY <2>5 DEF Return, vars, parentVars
  <2>6. ASSUME StartLoad PROVE ~published'
    BY <2>6 DEF StartLoad
  <2>7. ASSUME UNCHANGED <<published, time, n, merged, j, report>>
        PROVE  published' => /\ time' = Median(merged').u
                             /\ n' = Median(merged').n /\ j' > Len(report')
    BY <2>7 DEF LoadInv
  <2>. QED
    BY <2>1, <2>2, <2>3, <2>4, <2>5, <2>6, <2>7 DEF Next, Done
<1>2. pass' = "returned" => published'
  <2>1. ASSUME NEW c \in Child, Interval(c) \/ Gather(c)
        PROVE  pass' # "returned"
    BY <2>1 DEF Interval, Gather
  <2>2. ASSUME Merge \/ UNCHANGED vars
        PROVE  pass' = "returned" => published'
    BY <2>2 DEF Merge, LoadInv, vars, parentVars
  <2>3. ASSUME Publish PROVE published'
    BY <2>3 DEF Publish
  <2>4. ASSUME Return PROVE published'
    BY <2>4 DEF Return, parentVars
  <2>5. ASSUME StartLoad PROVE pass' # "returned"
    BY <2>5 DEF StartLoad
  <2>. QED
    BY <2>1, <2>2, <2>3, <2>4, <2>5 DEF Next, Done
<1>3. ASSUME Parallel > 1, pass' = "load"
      PROVE  \E count \in Nat : count > 0 /\ Counted(count)'
  BY <1>3, CountedStep
<1>4. ASSUME Parallel > 1, pass' = "returned", merged' # <<>>
      PROVE  \E count \in Nat : count > 0 /\ Counted(count)'
  <2>1. ~(\E c \in Child : Interval(c) \/ Gather(c))
    BY <1>4 DEF Interval, Gather
  <2>2. ~Merge
    BY <1>4 DEF Merge, LoadInv, TypeOK
  <2>3. ~Publish /\ ~StartLoad
    BY <1>4 DEF Publish, StartLoad
  <2>4. Return \/ UNCHANGED vars
    BY <2>1, <2>2, <2>3 DEF Next, Done
  <2>5. UNCHANGED <<iterations, r, merged, report>>
    BY <2>4 DEF Return, vars, childVars, parentVars
  <2>6. pass = "load" \/ pass = "returned"
    <3>1. CASE Return
      <4>1. Median(merged).u # 0
        BY <1>4, <2>5, MedianPositive DEF TypeOK
      <4>. QED
        BY <3>1, <4>1 DEF Return, LoadInv
    <3>2. CASE UNCHANGED vars
      BY <1>4, <3>2 DEF vars
    <3>. QED
      BY <2>4, <3>1, <3>2
  <2>7. PICK count \in Nat : count > 0 /\ Counted(count)
    BY <1>4, <2>5, <2>6 DEF LoadInv
  <2>8. Counted(count)'
    BY <2>5, <2>7 DEF Counted
  <2>. QED
    BY <2>7, <2>8
<1>. QED
  BY <1>1, <1>2, <1>3, <1>4 DEF LoadInv

LEMMA MedianUnderLoad ==
  TypeOK /\ ResultsDescend /\ LoadInv => LoadMedianInMiddle
<1>. SUFFICES ASSUME TypeOK, ResultsDescend, LoadInv, published, Parallel > 1,
                     pass # "baseline", merged # <<>>
              PROVE  InMiddle([u |-> time, n |-> n], merged)
  BY Zenon DEF LoadMedianInMiddle
<1>1. pass = "load" \/ pass = "returned"
  BY DEF TypeOK
<1>2. PICK count \in Nat : count > 0 /\ Counted(count)
  BY <1>1 DEF LoadInv
<1>3. /\ merged \in Seq(Kept) /\ Descending(merged)
      /\ \A l \in 1..Len(merged) : merged[l].n = count
  BY <1>2 DEF TypeOK, ResultsDescend, Counted
<1>4. InMiddle([u |-> Median(merged).u, n |-> Median(merged).n], merged)
  BY Zenon, <1>2, <1>3, MedianInMiddle
<1>. QED
  BY Zenon, <1>4 DEF LoadInv

\* Under load the time and the count that the caller reads are in the middle
\* of everything that was measured, for any number of children.
THEOREM MedianOfLoad == Spec => []LoadMedianInMiddle
<1>. QED
  BY TypeInit, TypeStep, Sorted, LoadInit, LoadStep, MedianUnderLoad, PTL
     DEF Spec

-----------------------------------------------------------------------------
(* The length of the loaded pass.                                          *)

\* Every sample of v is the time that its iterations take.
Timed(v) == \A l \in 1..Len(v) : \E noise \in Noise :
                v[l].u = Elapsed(v[l].n, noise)

\* Merging changes no sample either.
MergedTimed == Timed(merged) /\ Timed(report)

LEMMA TimedStep ==
  TypeOK /\ TimeMatchesCount /\ MergedTimed /\ [Next]_vars => MergedTimed'
<1>. SUFFICES ASSUME TypeOK, TimeMatchesCount, MergedTimed, [Next]_vars
              PROVE  MergedTimed'
  OBVIOUS
<1>1. cost' = cost
  BY DEF Next, Interval, Gather, Merge, Publish, Return, StartLoad, Done, vars
<1>2. \A count, noise : Elapsed(count, noise)' = Elapsed(count, noise)
  BY <1>1 DEF Elapsed
<1>3. ASSUME NEW v \in Seq(Kept), Timed(v)
      PROVE  \A l \in 1..Len(v) : \E noise \in Noise :
                 v[l].u = Elapsed(v[l].n, noise)'
  BY <1>2, <1>3 DEF Timed
<1>4. ASSUME merged' = merged, report' = report PROVE MergedTimed'
  BY <1>3, <1>4 DEF MergedTimed, Timed, TypeOK
<1>5. ASSUME NEW c \in Child, Gather(c) PROVE MergedTimed'
  <2>1. merged' = merged /\ report' = r[c] /\ r[c] \in Seq(Kept)
    BY <1>5 DEF Gather, TypeOK
  <2>2. Timed(r[c]) /\ Timed(merged)
    BY <2>1 DEF TimeMatchesCount, Timed, MergedTimed
  <2>. QED
    BY <1>3, <2>1, <2>2 DEF MergedTimed, Timed, TypeOK
<1>6. ASSUME Merge PROVE MergedTimed'
  <2>1. /\ merged' = InsertSort(report[j], merged) /\ report' = report
        /\ j \in 1..Len(report) /\ report[j] \in Sample
        /\ merged \in Seq(Kept) /\ report \in Seq(Kept)
    BY <1>6, KeptIsSample DEF Merge, TypeOK
  <2>2. merged' \in Seq(Kept)
    BY <2>1, InsertType
  <2>. DEFINE Matches(x) == \E noise \in Noise : x.u = Elapsed(x.n, noise)
              w == InsertSort(report[j], merged)
  <2>3. \A l \in 1..Len(w) : Matches(w[l])
    <3>. TAKE l \in 1..Len(w)
    <3>1. \/ w[l] = report[j]
          \/ \E m \in 1..Len(merged) : w[l] = merged[m]
      BY <2>1, InsertMembers
    <3>2. Matches(report[j]) /\ \A m \in 1..Len(merged) : Matches(merged[m])
      BY <2>1 DEF MergedTimed, Timed
    <3>. HIDE DEF Matches, w
    <3>. QED
      BY <3>1, <3>2
  <2>4. Timed(w)
    BY <2>3 DEF Timed
  <2>5. merged' = w
    BY <2>1
  <2>. HIDE DEF w
  <2>6. Timed(merged)'
    BY <1>2, <2>4, <2>5 DEF Timed
  <2>7. Timed(report)'
    BY <1>2, <2>1 DEF MergedTimed, Timed
  <2>. QED
    BY <2>6, <2>7 DEF MergedTimed
<1>7. ASSUME StartLoad PROVE MergedTimed'
  <2>1. merged' = <<>> /\ report' = <<>>
    BY <1>7 DEF StartLoad
  <2>. QED
    BY <2>1 DEF MergedTimed, Timed
<1>8. ASSUME NEW c \in Child, Interval(c) PROVE MergedTimed'
  BY <1>4, <1>8 DEF Interval, parentVars
<1>9. ASSUME Publish \/ Return \/ UNCHANGED vars PROVE MergedTimed'
  BY <1>4, <1>9 DEF Publish, Return, vars, parentVars
<1>. QED
  BY <1>5, <1>6, <1>7, <1>8, <1>9 DEF Next, Done

\* If count iterations took t with the noise of one in q hundredths, and
\* quota is more than length * count / t, then quota takes length.
LEMMA QuotaLasts ==
  ASSUME NEW t \in Nat, NEW count \in Nat, count > 0, NEW q \in Nat,
         NEW quota \in Nat, NEW length \in Nat,
         quota * t > length * count, 10000 * t <= count * q
  PROVE  quota * q >= length * 10000
<1>. SUFFICES ASSUME quota * q < length * 10000 PROVE FALSE
  BY SMT
<1>1. \A a, b, k \in Nat : a <= b => a * k <= b * k
  <2>. SUFFICES ASSUME NEW a \in Nat, NEW b \in Nat, NEW k \in Nat, a <= b
                PROVE  a * k <= b * k
    OBVIOUS
  <2>1. b * k = a * k + (b - a) * k
    OBVIOUS
  <2>2. (b - a) * k >= 0
    OBVIOUS
  <2>3. a * k \in Nat /\ (b - a) * k \in Int
    OBVIOUS
  <2>. QED
    BY <2>1, <2>2, <2>3
<1>2. (quota * q) * count <= (length * 10000) * count
  <2>1. quota * q \in Nat /\ length * 10000 \in Nat
    OBVIOUS
  <2>. QED
    BY <1>1, <2>1
<1>3. (10000 * t) * quota <= (count * q) * quota
  <2>1. 10000 * t \in Nat /\ count * q \in Nat
    OBVIOUS
  <2>. QED
    BY <1>1, <2>1
<1>4. (count * q) * quota = (quota * q) * count
  OBVIOUS
<1>5. (10000 * t) * quota = 10000 * (quota * t)
  OBVIOUS
<1>6. (length * 10000) * count = 10000 * (length * count)
  OBVIOUS
<1>7. quota * t \in Nat /\ length * count \in Nat
  OBVIOUS
<1>8. 10000 * (quota * t) <= 10000 * (length * count)
  <2>1. (quota * q) * count \in Nat
    OBVIOUS
  <2>. QED
    BY <1>2, <1>3, <1>4, <1>5, <1>6, <1>7, <2>1
<1>. QED
  BY <1>7, <1>8

\* A lone child keeps each measurement it records, and reports them all.
BaselineInv ==
    pass = "baseline" =>
        /\ Len(r[1]) = i[1] /\ gathered \subseteq {1}
        /\ gathered = {} => merged = <<>> /\ report = <<>> /\ j = 1
        /\ gathered # {} =>
              /\ state[1] = "cooldown"
              /\ Len(merged) + Len(report) - (j - 1) = i[1]
        /\ published => gathered # {}

LEMMA BaselineInterval ==
  ASSUME TypeOK, BaselineInv, pass = "baseline", NEW c \in Child, Interval(c)
  PROVE  BaselineInv'
<1>1. c = 1 /\ state[1] = "timing_interval"
  BY DEF Interval, Measuring
<1>2. PICK noise \in Noise :
        LET result == Elapsed(iterations[c], noise)
        IN  /\ result \in Int /\ Measure(c, result)
            /\ Recorded(c, result) \in Sample
  BY MeasureShape
<1>. DEFINE result == Elapsed(iterations[c], noise)
            x == Recorded(c, result)
            w == InsertSort(x, r[c])
<1>3. result \in Int /\ x \in Sample /\ r[1] \in Seq(Kept)
      /\ i \in [Child -> Nat] /\ r \in [Child -> Seq(Kept)]
  BY <1>1, <1>2 DEF TypeOK
<1>4. ASSUME Counts(result) PROVE x.u # 0
  <2>1. 100 * result > 95 * Enough
    BY <1>4 DEF Counts, Width
  <2>. HIDE DEF result
  <2>2. result > 0
    BY <1>3, <2>1, SamplesAssumption
  <2>. QED
    BY <1>3, <2>2 DEF Recorded
<1>5. Counts(result) => Len(w) = Len(r[1]) + 1
  BY <1>1, <1>3, <1>4, InsertLength
<1>6. /\ r'[1] = IF Counts(result) THEN w ELSE r[1]
      /\ i'[1] = IF Counts(result) THEN i[1] + 1 ELSE i[1]
  BY <1>1, <1>2, <1>3 DEF Measure
<1>7. gathered = {} /\ ~published /\ pass' = pass /\ UNCHANGED parentVars
  BY <1>1 DEF Interval, BaselineInv
<1>8. gathered' = {} /\ merged' = merged /\ report' = report /\ j' = j
      /\ published' = published
  BY <1>7 DEF parentVars
<1>. HIDE DEF w, x, result
<1>9. Len(r'[1]) = i'[1]
  BY <1>5, <1>6 DEF BaselineInv
<1>. QED
  BY <1>7, <1>8, <1>9 DEF BaselineInv

LEMMA BaselineGather ==
  ASSUME TypeOK, BaselineInv, pass = "baseline", NEW c \in Child, Gather(c)
  PROVE  BaselineInv'
<1>1. c = 1 /\ gathered = {} /\ state[1] = "cooldown"
  BY DEF Gather, Measuring, AllDone, BaselineInv
<1>2. /\ gathered' = {1} /\ report' = r[1] /\ j' = 1 /\ merged' = <<>>
      /\ i' = i /\ r' = r /\ state' = state
  BY <1>1 DEF Gather, BaselineInv, childVars
<1>3. Len(r[1]) = i[1] /\ i[1] \in Nat
  BY <1>1 DEF BaselineInv, TypeOK
<1>4. Len(merged') + Len(report') - (j' - 1) = i'[1]
  <2>1. Len(merged') = 0 /\ Len(report') = i[1] /\ j' - 1 = 0
    BY <1>2, <1>3
  <2>. QED
    BY <1>2, <1>3, <2>1
<1>. QED
  BY <1>1, <1>2, <1>3, <1>4 DEF BaselineInv

LEMMA BaselineStep ==
  TypeOK /\ BaselineInv /\ [Next]_vars => BaselineInv'
<1>. SUFFICES ASSUME TypeOK, BaselineInv, [Next]_vars, pass' = "baseline"
              PROVE  BaselineInv'
  BY DEF BaselineInv
<1>1. pass = "baseline"
  <2>1. ASSUME NEW c \in Child, Interval(c) \/ Gather(c) PROVE pass' = pass
    BY <2>1 DEF Interval, Gather
  <2>. QED
    BY <2>1 DEF Next, Merge, Publish, Return, StartLoad, Done, vars
<1>2. ASSUME Merge PROVE BaselineInv'
  <2>1. /\ report[j] \in Kept /\ report[j] \in Sample
        /\ merged \in Seq(Kept) /\ report \in Seq(Kept)
        /\ j \in 1..Len(report)
    BY <1>2, KeptIsSample DEF Merge, TypeOK
  <2>2. report[j].u # 0
    BY <2>1 DEF Kept
  <2>3. merged' = InsertSort(report[j], merged) /\ j' = j + 1
        /\ UNCHANGED <<report, gathered, published, r, i, state>>
    BY <1>2 DEF Merge, childVars
  <2>4. Len(merged') = Len(merged) + 1
    BY <2>1, <2>2, <2>3, InsertLength
  <2>5. gathered # {}
    BY <2>1, <1>1 DEF BaselineInv
  <2>6. Len(merged') + Len(report') - (j' - 1) = i'[1]
    <3>1. Len(merged) \in Nat /\ Len(report) \in Nat /\ j \in Nat
      BY <2>1
    <3>2. Len(merged) + Len(report) - (j - 1) = i[1]
      BY <1>1, <2>5 DEF BaselineInv
    <3>. QED
      BY <2>3, <2>4, <3>1, <3>2
  <2>. QED
    BY <1>1, <2>3, <2>5, <2>6 DEF BaselineInv
<1>3. ASSUME Publish PROVE BaselineInv'
  <2>1. UNCHANGED <<gathered, merged, report, j, r, i, state>>
        /\ gathered = {1}
    BY <1>1, <1>3 DEF Publish, childVars, Measuring
  <2>. QED
    BY <1>1, <2>1 DEF BaselineInv
<1>4. ASSUME UNCHANGED vars PROVE BaselineInv'
  <2>1. UNCHANGED <<published, gathered, merged, report, j, r, i, state>>
    BY <1>4 DEF vars, childVars, parentVars
  <2>. QED
    BY <1>1, <2>1 DEF BaselineInv
<1>5. ~Return /\ ~StartLoad
  BY DEF Return, StartLoad
<1>. QED
  BY <1>1, <1>2, <1>3, <1>4, <1>5, BaselineInterval, BaselineGather
     DEF Next, Done

\* A lone child that ends with measurements has an odd number of them, as it
\* has eleven for TRIES unless it gives up in between.
OddBaseline ==
    pass = "baseline" /\ state[1] = "cooldown" /\ i[1] # 0 => i[1] % 2 = 1

\* So has the result that is published.
LEMMA OddMerged ==
  ASSUME TypeOK, LoadInv, BaselineInv, OddBaseline, StartLoad
  PROVE  Len(merged) % 2 = 1
<1>1. pass = "baseline" /\ published /\ time # 0
  BY DEF StartLoad
<1>2. merged # <<>>
  <2>1. time = Median(merged).u
    BY <1>1 DEF LoadInv
  <2>. QED
    BY <1>1, <2>1 DEF Median
<1>3. /\ state[1] = "cooldown"
      /\ Len(merged) + Len(report) - (j - 1) = i[1]
  BY <1>1 DEF BaselineInv
<1>4. j = Len(report) + 1 /\ Len(report) \in Nat /\ merged \in Seq(Kept)
  BY <1>1 DEF LoadInv, TypeOK
<1>5. Len(merged) = i[1] /\ Len(merged) # 0
  BY <1>2, <1>3, <1>4
<1>. QED
  BY <1>1, <1>3, <1>5 DEF OddBaseline

LEMMA LoadLasts ==
  ASSUME TypeOK, LoadInv, MergedTimed, BaselineInv, OddBaseline, StartLoad,
         Enough < Short
  PROVE  \E noise \in Noise :
             LoadIterations * cost * noise >= Short * 10000
<1>. DEFINE k == (Len(merged) \div 2) + 1
<1>1. /\ time = Median(merged).u /\ n = Median(merged).n
      /\ Len(merged) % 2 = 1 /\ merged \in Seq(Kept)
  BY OddMerged DEF StartLoad, LoadInv, TypeOK
<1>2. k \in 1..Len(merged) /\ merged # <<>>
  <2>. DEFINE len == Len(merged)
  <2>1. len \in Nat /\ len % 2 = 1
    BY <1>1
  <2>. HIDE DEF len
  <2>2. (len \div 2) + 1 \in 1..len /\ len > 0
    BY <2>1
  <2>. QED
    BY <1>1, <2>2 DEF len
<1>3. time = merged[k].u /\ n = merged[k].n
  BY <1>1, <1>2 DEF Median
<1>. HIDE DEF k
<1>4. PICK noise \in Noise : time = Elapsed(n, noise)
  BY <1>2, <1>3 DEF MergedTimed, Timed
<1>5. /\ n \in Nat /\ n > 0 /\ time \in Nat /\ time > 0
      /\ noise \in Nat /\ cost \in Nat /\ Short \in Nat /\ Overhead \in Nat
  BY SamplesAssumption DEF TypeOK, StartLoad
<1>. DEFINE q == cost * noise
<1>6. q \in Nat /\ n * cost * noise = n * q
  BY <1>5
<1>. HIDE DEF q
<1>7. 10000 * time <= n * q
  <2>. DEFINE p == n * q
  <2>1. p \in Nat
    BY <1>5, <1>6
  <2>2. time = (p \div 10000) - Overhead
    BY <1>4, <1>6 DEF Elapsed
  <2>. HIDE DEF p
  <2>3. 10000 * (p \div 10000) <= p /\ p \div 10000 \in Nat
    BY <2>1
  <2>4. 10000 * time <= p
    BY <1>5, <2>1, <2>2, <2>3
  <2>. QED
    BY <2>4 DEF p
<1>. DEFINE quota == (Short * n) \div time + 1
<1>8. LoadIterations = quota
  BY DEF LoadIterations
<1>9. quota \in Nat /\ quota * time > Short * n
  <2>. DEFINE a == Short * n
              d == a \div time
  <2>1. a \in Nat
    BY <1>5
  <2>. HIDE DEF a
  <2>2. d \in Nat /\ a < (d + 1) * time
    BY <1>5, <2>1
  <2>. QED
    BY <2>2 DEF a
<1>. HIDE DEF quota
<1>10. quota * q >= Short * 10000
  BY <1>5, <1>6, <1>7, <1>9, QuotaLasts
<1>11. quota * cost * noise = quota * q
  BY <1>5, <1>9 DEF q
<1>. QED
  BY <1>8, <1>10, <1>11

LEMMA LongStep ==
  /\ TypeOK /\ TimeMatchesCount /\ LoadInv /\ MergedTimed /\ BaselineInv
  /\ OddBaseline /\ LoadLongEnough /\ [Next]_vars
  => LoadLongEnough'
<1>. SUFFICES ASSUME TypeOK, TimeMatchesCount, LoadInv, MergedTimed,
                     BaselineInv, OddBaseline, LoadLongEnough, [Next]_vars
              PROVE  LoadLongEnough'
  OBVIOUS
<1>. SUFFICES ASSUME pass' = "load", Parallel > 1, Enough < Short
              PROVE  \A c \in Child : \E noise \in Noise :
                         iterations'[c] * cost' * noise >= Short * 10000
  BY DEF LoadLongEnough
<1>1. cost' = cost
  BY DEF Next, Interval, Gather, Merge, Publish, Return, StartLoad, Done, vars
<1>2. CASE StartLoad
  <2>1. \A c \in Child : iterations'[c] = LoadIterations
    BY <1>2 DEF StartLoad, StartChildren
  <2>2. \E noise \in Noise : LoadIterations * cost * noise >= Short * 10000
    BY <1>2, LoadLasts
  <2>. HIDE DEF LoadIterations
  <2>. QED
    BY <1>1, <2>1, <2>2
<1>3. CASE ~StartLoad
  <2>1. pass = "load"
    <3>1. ASSUME NEW c \in Child, Interval(c) \/ Gather(c) PROVE pass' = pass
      BY <3>1 DEF Interval, Gather
    <3>2. ASSUME Merge \/ Publish \/ Return \/ UNCHANGED vars
          PROVE  pass' = pass \/ pass' = "returned"
      BY <3>2 DEF Merge, Publish, Return, vars
    <3>. QED
      BY <1>3, <3>1, <3>2 DEF Next, Done
  <2>2. iterations' = iterations
    <3>1. PICK count \in Nat : Counted(count)
      BY <2>1 DEF LoadInv
    <3>2. ASSUME NEW c \in Child, Interval(c) PROVE iterations' = iterations
      BY <2>1, <3>1, <3>2, CountedInterval
    <3>3. ASSUME NEW c \in Child, Gather(c) PROVE iterations' = iterations
      BY <3>3 DEF Gather, childVars
    <3>4. ASSUME Merge \/ Publish \/ Return \/ UNCHANGED vars
          PROVE  iterations' = iterations
      BY <3>4 DEF Merge, Publish, Return, vars, childVars
    <3>. QED
      BY <1>3, <3>2, <3>3, <3>4 DEF Next, Done
  <2>. QED
    BY <1>1, <2>1, <2>2 DEF LoadLongEnough
<1>. QED
  BY <1>2, <1>3

\* The loaded pass times intervals of SHORT at least and publishes a median
\* of them, if the lone child ends its baseline with an odd number of
\* measurements or none.  Of an even number save_median() averages and rounds
\* two counts, and then it may not.
THEOREM LoadIsMeasured == Spec /\ []OddBaseline => []LoadMeasured
<1>1. Init => MergedTimed
  BY DEF Init, MergedTimed, Timed
<1>2. Init => LoadLongEnough /\ BaselineInv
  BY SamplesAssumption DEF Init, LoadLongEnough, BaselineInv, Child
<1>3. LoadMedianInMiddle /\ LoadLongEnough => LoadMeasured
  BY DEF LoadMeasured
<1>. QED
  BY TypeInit, TypeStep, TimesMatch, LoadInit, LoadStep, MedianOfLoad,
     TimedStep, LongStep, BaselineStep, <1>1, <1>2, <1>3, PTL DEF Spec
=============================================================================
