---------------------------- MODULE SuiteProofs ----------------------------
(***************************************************************************)
(* What the runs of the suite check of the searches and of the placement   *)
(* of processes, and of the hooks, lmdd and the chains (see HooksProofs,   *)
(* LmddProofs, ChainsProofs), for all values of the constants: first for   *)
(* each program, then for the suite.                                       *)
(***************************************************************************)
EXTENDS Suite, HooksProofs, LmddProofs, ChainsProofs, FiniteSetTheorems,
        SequenceTheorems, WellFoundedInduction, TLAPS

-----------------------------------------------------------------------------
(* Least and greatest elements.                                            *)

LEMMA MinIn ==
  ASSUME NEW S \in SUBSET Nat, S # {}
  PROVE  Min(S) \in S
<1>1. \E x \in S : \A y \in S : x <= y
  BY LeastNatural
<1>. QED
  BY Zenon, <1>1 DEF Min

LEMMA GreatestIn ==
  ASSUME NEW b \in Nat, NEW S \in SUBSET (0..b), S # {}
  PROVE  \E x \in S : \A y \in S : x >= y
<1>. DEFINE D == {n \in 0..b : b - n \in S}
<1>1. D \in SUBSET Nat /\ D # {}
  <2>1. PICK x \in S : TRUE
    OBVIOUS
  <2>2. b - x \in 0..b /\ b - (b - x) = x
    OBVIOUS
  <2>3. b - x \in D
    BY <2>1, <2>2
  <2>. QED
    BY <2>3
<1>2. PICK n \in D : \A m \in D : n <= m
  BY <1>1, LeastNatural
<1>3. \A y \in S : b - n >= y
  <2>. TAKE y \in S
  <2>1. b - y \in 0..b /\ b - (b - y) = y
    OBVIOUS
  <2>2. b - y \in D
    BY <2>1
  <2>. QED
    BY <1>2, <2>2
<1>4. b - n \in S
  OBVIOUS
<1>. QED
  BY <1>3, <1>4

LEMMA MaxIn ==
  ASSUME NEW b \in Nat, NEW S \in SUBSET (0..b), S # {}
  PROVE  Max(S) \in S
<1>1. \E x \in S : \A y \in S : x >= y
  BY GreatestIn
<1>. QED
  BY Zenon, <1>1 DEF Max

-----------------------------------------------------------------------------
(* The searches of cache and tlb.                                          *)

Place0 == 0..Samples - 1
Collecting == {"sample", "test", "keep", "replace", "sampled"}
Pairs == Place0 \X Place0

SearchTypes ==
    /\ samples \in 1..Samples /\ base \in Nat
    /\ lat \in [Place0 -> Int] /\ \A s \in Place0 : lat[s] >= -1
    /\ ratio \in [Place0 -> Int]
    /\ work \in Seq(Pairs)

\* Before search(), the last sample is the only one that may be measured.
Untouched ==
    spc \in {"last", "first"} =>
        /\ \A s \in 0..Samples - 2 : lat[s] = -1
        /\ work = <<>>
        /\ spc = "first" => lat[Samples - 1] >= 0

\* The calls to come are for adjoining parts, from the right to the first
\* sample; inside a part nothing is measured yet.
Adjoining(w, l) ==
    \A i \in 1..Len(w) :
        /\ w[i][1] < w[i][2]
        /\ \A s \in w[i][1] + 1..w[i][2] - 1 : l[s] = -1
        /\ \A k \in i + 1..Len(w) : w[k][2] <= w[i][1]
        /\ i < Len(w) => w[i + 1][2] = w[i][1]
        /\ i = Len(w) => w[i][1] = 0

WorkShape == /\ Adjoining(work, lat)
             /\ spc \in {"levels", "done"} => work = <<>>

\* They end at samples that are measured, but for the one that is taken.
EndsMeasured ==
    /\ \A i \in 1..Len(work) :
          (spc \in Collecting /\ i = 2) \/ lat[work[i][2]] >= 0
    /\ spc \in Collecting => Len(work) >= 2 /\ lat[work[1][1]] = -1

\* Where the part that search() is done with begins.
DoneFrom == IF work = <<>> THEN 0 ELSE work[1][2]

Smooth(l, r) == Gap(l, r) => /\ ratio[l] = (100 * lat[r]) \div lat[l]
                             /\ r > l + 1 => ratio[l] <= 135

GapsDone ==
    spc \in Collecting \cup {"search", "levels", "done"} =>
        \A l \in DoneFrom..Samples - 1 : \A r \in Place0 : Smooth(l, r)

LevelsAscend ==
    /\ levels \in Seq(Nat) /\ from \in Nat
    /\ spc \notin {"levels", "done"} => levels = <<>>
    /\ \A i \in 1..Len(levels) :
          /\ levels[i] < from
          /\ i > 1 => levels[i - 1] < levels[i]
          /\ \E s \in {levels[i], levels[i] - 1} : s >= 0 /\ ratio[s] > 150

Stuck == {"undefined", "trapped"}

CacheParts == /\ spc # "last" => samples = Samples
              /\ SearchTypes /\ Untouched /\ WorkShape /\ EndsMeasured
              /\ GapsDone /\ LevelsAscend

CacheInv ==
    /\ spc \in Stuck \cup Collecting
               \cup {"last", "first", "search", "levels", "done"}
    /\ spc \notin Stuck => CacheParts

\* The size that is looked for is above lower and at most upper.
TlbInv ==
    /\ spc \in {"double", "halve", "none", "done"}
    /\ ti \in Nat
    /\ verdict \in [0..TlbPages -> {"none", "slow", "fast"}]
    /\ spc = "double" =>
         /\ ti >= 2
         /\ ti = TlbStart
            \/ \E half \in 0..TlbPages :
                  ti = 2 * half /\ verdict[half] = "fast"
    /\ spc \in {"halve", "done"} =>
         /\ lower \in Nat /\ upper \in Nat /\ lower < upper
         /\ upper <= TlbPages
         /\ verdict[upper] = "slow"
         /\ verdict[lower] = "fast" \/ lower = TlbStart \div 2
         /\ spc = "halve" => ti = lower + (upper - lower) \div 2
         /\ spc = "done" => upper = lower + 1

SearchInv == /\ prog \in {"cache", "tlb"}
             /\ prog = "cache" => CacheInv
             /\ prog = "tlb" => TlbInv

LEMMA SearchConstants ==
  /\ Samples \in Nat /\ Samples >= 2 /\ Times \subseteq Nat
  /\ TlbStart \in Nat /\ TlbStart >= 2 /\ TlbPages \in Nat
  BY SearchAssumption

LEMMA SearchStarts ==
  SearchInit => SearchInv
<1>. SUFFICES ASSUME SearchInit PROVE SearchInv
  OBVIOUS
<1>1. PICK name \in {"cache", "tlb"} : SearchStart(name)
  BY DEF SearchInit
<1>2. CASE name = "cache"
  <2>1. prog = "cache" /\ spc = "last" /\ samples = Samples /\ base = 0
        /\ lat = [s \in Place0 |-> -1] /\ ratio = [s \in Place0 |-> -1]
        /\ work = <<>> /\ levels = <<>> /\ from = 0
    BY <1>1, <1>2 DEF SearchStart, Place0
  <2>2. SearchTypes
    BY <2>1, SearchConstants DEF SearchTypes, Place0
  <2>3. Untouched
    BY <2>1, SearchConstants DEF Untouched, Place0
  <2>4. WorkShape /\ EndsMeasured /\ GapsDone /\ LevelsAscend
    BY <2>1 DEF WorkShape, Adjoining, EndsMeasured, GapsDone, LevelsAscend,
                Collecting
  <2>. QED
    BY <2>1, <2>2, <2>3, <2>4 DEF SearchInv, CacheInv, CacheParts, Collecting
<1>3. CASE name = "tlb"
  <2>1. prog = "tlb" /\ spc = "double" /\ ti = TlbStart
        /\ verdict = [i \in 0..TlbPages |-> "none"]
    BY <1>1, <1>3 DEF SearchStart
  <2>. QED
    BY <2>1, SearchConstants DEF SearchInv, TlbInv
<1>. QED
  BY <1>1, <1>2, <1>3

\* One part is popped.
LEMMA PopPart ==
  ASSUME NEW w \in Seq(Pairs), w # <<>>, NEW l, Adjoining(w, l)
  PROVE  /\ Tail(w) \in Seq(Pairs) /\ Len(Tail(w)) = Len(w) - 1
         /\ \A i \in 1..Len(Tail(w)) : Tail(w)[i] = w[i + 1]
         /\ Adjoining(Tail(w), l)
         /\ Tail(w) = <<>> => w[1][1] = 0
         /\ Tail(w) # <<>> => Tail(w)[1][2] = w[1][1]
<1>1. Len(w) \in Nat /\ Len(w) >= 1
  OBVIOUS
<1>2. /\ Tail(w) \in Seq(Pairs) /\ Len(Tail(w)) = Len(w) - 1
      /\ \A i \in 1..Len(Tail(w)) : Tail(w)[i] = w[i + 1]
  OBVIOUS
<1>3. Adjoining(Tail(w), l)
  <2>. SUFFICES ASSUME NEW i \in 1..Len(Tail(w))
                PROVE  /\ Tail(w)[i][1] < Tail(w)[i][2]
                       /\ \A s \in Tail(w)[i][1] + 1..Tail(w)[i][2] - 1 :
                             l[s] = -1
                       /\ \A k \in i + 1..Len(Tail(w)) :
                             Tail(w)[k][2] <= Tail(w)[i][1]
                       /\ i < Len(Tail(w)) =>
                             Tail(w)[i + 1][2] = Tail(w)[i][1]
                       /\ i = Len(Tail(w)) => Tail(w)[i][1] = 0
    BY DEF Adjoining
  <2>1. i + 1 \in 1..Len(w) /\ Tail(w)[i] = w[i + 1]
    BY <1>1, <1>2
  <2>2. ASSUME NEW k \in i + 1..Len(Tail(w))
        PROVE  Tail(w)[k][2] <= Tail(w)[i][1]
    <3>1. k \in 1..Len(Tail(w)) /\ k + 1 \in i + 1 + 1..Len(w)
      BY <1>1, <1>2
    <3>2. Tail(w)[k] = w[k + 1]
      BY <3>1, <1>2
    <3>3. w[k + 1][2] <= w[i + 1][1]
      BY Zenon, <2>1, <3>1 DEF Adjoining
    <3>. QED
      BY Zenon, <2>1, <3>2, <3>3
  <2>3. ASSUME i < Len(Tail(w)) PROVE Tail(w)[i + 1][2] = Tail(w)[i][1]
    <3>1. i + 1 \in 1..Len(Tail(w)) /\ i + 1 < Len(w)
      BY <1>1, <1>2, <2>3
    <3>2. Tail(w)[i + 1] = w[i + 1 + 1] /\ w[i + 1 + 1][2] = w[i + 1][1]
      BY Zenon, <3>1, <2>1, <1>2 DEF Adjoining
    <3>. QED
      BY Zenon, <3>2, <2>1
  <2>4. ASSUME i = Len(Tail(w)) PROVE Tail(w)[i][1] = 0
    <3>1. i + 1 = Len(w)
      BY <1>1, <1>2, <2>4
    <3>. QED
      BY Zenon, <3>1, <2>1 DEF Adjoining
  <2>5. w[i + 1][1] < w[i + 1][2]
        /\ \A s \in w[i + 1][1] + 1..w[i + 1][2] - 1 : l[s] = -1
    BY Zenon, <2>1 DEF Adjoining
  <2>. QED
    BY Zenon, <2>1, <2>2, <2>3, <2>4, <2>5
<1>4. 1 \in 1..Len(w)
  BY <1>1
<1>5. ASSUME Tail(w) = <<>> PROVE w[1][1] = 0
  <2>1. 1 = Len(w)
    BY <1>1, <1>2, <1>5
  <2>. QED
    BY Zenon, <2>1, <1>4 DEF Adjoining
<1>6. ASSUME Tail(w) # <<>> PROVE Tail(w)[1][2] = w[1][1]
  <2>1. 1 < Len(w) /\ 1 \in 1..Len(Tail(w)) /\ 1 + 1 = 2
    BY <1>1, <1>2, <1>6
  <2>2. w[1 + 1][2] = w[1][1] /\ Tail(w)[1] = w[1 + 1]
    BY Zenon, <2>1, <1>4, <1>2 DEF Adjoining
  <2>. QED
    BY Zenon, <2>2
<1>. QED
  BY Zenon, <1>2, <1>3, <1>5, <1>6

\* A latency changes that is inside no part.
LEMMA OutsideParts ==
  ASSUME NEW w \in Seq(Pairs), NEW l \in [Place0 -> Int], Adjoining(w, l),
         NEW at0 \in Place0, NEW x \in Int,
         \A i \in 1..Len(w) : at0 \notin w[i][1] + 1..w[i][2] - 1
  PROVE  Adjoining(w, [l EXCEPT ![at0] = x])
<1>. DEFINE m == [l EXCEPT ![at0] = x]
<1>1. ASSUME NEW i \in 1..Len(w), NEW s \in w[i][1] + 1..w[i][2] - 1
      PROVE  m[s] = -1
  <2>1. l[s] = -1 /\ s # at0
    BY Zenon, <1>1 DEF Adjoining
  <2>2. w[i] \in Pairs
    OBVIOUS
  <2>3. s \in Place0
    BY <2>2, SearchConstants DEF Pairs, Place0
  <2>. QED
    BY <2>1, <2>3
<1>. HIDE DEF m
<1>2. Adjoining(w, m)
  BY Zenon, <1>1 DEF Adjoining
<1>. QED
  BY <1>2 DEF m

\* The left end of the first part is inside none.
LEMMA LeftOutside ==
  ASSUME NEW w \in Seq(Pairs), w # <<>>, NEW l, Adjoining(w, l)
  PROVE  \A i \in 1..Len(w) : w[1][1] \notin w[i][1] + 1..w[i][2] - 1
<1>. SUFFICES ASSUME NEW i \in 1..Len(w)
              PROVE  w[1][1] \notin w[i][1] + 1..w[i][2] - 1
  OBVIOUS
<1>1. Len(w) \in Nat /\ 1 \in 1..Len(w) /\ w[1] \in Pairs /\ w[i] \in Pairs
  OBVIOUS
<1>2. w[1][1] \in Nat /\ w[i][1] \in Nat /\ w[i][2] \in Nat
  BY <1>1, SearchConstants DEF Pairs, Place0
<1>3. CASE i = 1
  BY <1>2, <1>3
<1>4. CASE i # 1
  <2>1. i \in 1 + 1..Len(w)
    BY <1>4, <1>1
  <2>2. w[i][2] <= w[1][1]
    BY Zenon, <2>1, <1>1 DEF Adjoining
  <2>. QED
    BY <2>2, <1>2
<1>. QED
  BY <1>3, <1>4

\* The first part is split in the middle.
LEMMA HeadOfWork ==
  ASSUME NEW w \in Seq(Pairs), w # <<>>
  PROVE  Len(w) \in Nat /\ Len(w) >= 1 /\ 1 \in 1..Len(w) /\ w[1] \in Pairs
  OBVIOUS

\* Two calls replace the first one.
Pushed(v, w, h) == /\ v \in Seq(Pairs) /\ Len(v) = Len(w) + 1
                   /\ v[1] = h[1] /\ v[2] = h[2]
                   /\ \A i \in 3..Len(v) : v[i] = w[i - 1]

LEMMA TwoCalls ==
  ASSUME NEW w \in Seq(Pairs), NEW h \in Seq(Pairs), NEW v
  PROVE  w # <<>> /\ Len(h) = 2 /\ v = h \o Tail(w) => Pushed(v, w, h)
<1>0. SUFFICES ASSUME w # <<>>, Len(h) = 2, v = h \o Tail(w)
               PROVE  Pushed(v, w, h)
  BY Zenon
<1>1. Len(w) \in Nat /\ Len(w) >= 1
  BY <1>0, HeadOfWork
<1>2. Tail(w) \in Seq(Pairs) /\ Len(Tail(w)) = Len(w) - 1
      /\ \A i \in 1..Len(Tail(w)) : Tail(w)[i] = w[i + 1]
  BY <1>0
<1>4. PICK u : u = Tail(w)
  OBVIOUS
<1>5. h \in Seq(Pairs) /\ Len(h) = 2
  BY <1>0
<1>6. u \in Seq(Pairs) /\ Len(u) = Len(w) - 1
      /\ \A i \in 1..Len(u) : u[i] = w[i + 1]
  BY Zenon, <1>2, <1>4
<1>7. v = h \o u
  BY Zenon, <1>0, <1>4
<1>8. v \in Seq(Pairs) /\ Len(v) = Len(h) + Len(u)
      /\ \A i \in 1..Len(h) + Len(u) :
            v[i] = IF i <= Len(h) THEN h[i] ELSE u[i - Len(h)]
  <2>1. h \in Seq(Pairs) /\ u \in Seq(Pairs)
    BY Zenon, <1>5, <1>6
  <2>. QED
    BY Zenon, <2>1, <1>7, ConcatProperties
<1>10. Len(v) = Len(w) + 1 /\ 1 \in 1..Len(v) /\ 2 \in 1..Len(v)
  BY <1>1, <1>5, <1>6, <1>8
<1>11. v[1] = h[1] /\ v[2] = h[2]
  BY <1>5, <1>8, <1>10
<1>12. ASSUME NEW i \in 3..Len(v) PROVE v[i] = w[i - 1]
  <2>1. i \in 1..Len(v) /\ ~(i <= 2) /\ i - 2 \in 1..Len(u)
        /\ i - 2 + 1 = i - 1
    BY <1>1, <1>6, <1>10
  <2>2. v[i] = u[i - 2]
    BY <2>1, <1>5, <1>8
  <2>3. u[i - 2] = w[i - 2 + 1]
    BY Zenon, <2>1, <1>6
  <2>. QED
    BY Zenon, <2>1, <2>2, <2>3
<1>. QED
  BY Zenon, <1>8, <1>10, <1>11, <1>12 DEF Pushed

LEMMA SplitPart ==
  ASSUME NEW w \in Seq(Pairs), NEW l, NEW e \in Int, NEW q \in Int,
         NEW mid \in Int, NEW v \in Seq(Pairs)
  PROVE  (/\ Len(w) >= 1 /\ w[1] = <<e, q>> /\ Adjoining(w, l)
          /\ e < mid /\ mid < q
          /\ Len(v) = Len(w) + 1 /\ v[1] = <<mid, q>> /\ v[2] = <<e, mid>>
          /\ \A i \in 3..Len(v) : v[i] = w[i - 1])
         => Adjoining(v, l)
<1>0. SUFFICES ASSUME Len(w) >= 1, w[1] = <<e, q>>, Adjoining(w, l),
                      e < mid, mid < q, Len(v) = Len(w) + 1,
                      v[1] = <<mid, q>>, v[2] = <<e, mid>>,
                      \A i \in 3..Len(v) : v[i] = w[i - 1]
               PROVE  Adjoining(v, l)
  BY Zenon
<1>1. Len(w) \in Nat /\ Len(w) >= 1 /\ 1 \in 1..Len(w)
  BY <1>0
<1>2. e < mid /\ mid < q
  BY <1>0
<1>7. Len(v) = Len(w) + 1 /\ Len(v) \in Nat
  BY <1>0, <1>1
<1>8. v[1] = <<mid, q>> /\ v[2] = <<e, mid>>
      /\ \A i \in 3..Len(v) : v[i] = w[i - 1]
  BY <1>0
<1>9. /\ \A s \in e + 1..q - 1 : l[s] = -1
      /\ \A k \in 2..Len(w) : w[k][2] <= e
      /\ 1 < Len(w) => w[2][2] = e
      /\ 1 = Len(w) => e = 0
  <2>1. /\ \A s \in w[1][1] + 1..w[1][2] - 1 : l[s] = -1
        /\ \A k \in 1 + 1..Len(w) : w[k][2] <= w[1][1]
        /\ 1 < Len(w) => w[1 + 1][2] = w[1][1]
        /\ 1 = Len(w) => w[1][1] = 0
    BY Zenon, <1>0, <1>1 DEF Adjoining
  <2>2. w[1][1] = e /\ w[1][2] = q /\ 1 + 1 = 2
    BY <1>0
  <2>. QED
    BY Zenon, <2>1, <2>2
<1>10. ASSUME NEW k \in 3..Len(v)
       PROVE  k - 1 \in 1..Len(w) /\ v[k] = w[k - 1] /\ v[k][2] <= e
  <2>1. k - 1 \in 2..Len(w) /\ k - 1 \in 1..Len(w)
    BY <1>7, <1>1
  <2>2. v[k] = w[k - 1]
    BY <1>8
  <2>3. w[k - 1][2] <= e
    BY <2>1, <1>9
  <2>. QED
    BY <2>1, <2>2, <2>3
<1>11. ASSUME NEW k \in 1..Len(v) PROVE v[k][1] \in Int /\ v[k][2] \in Int
  <2>1. v[k] \in Pairs
    OBVIOUS
  <2>. QED
    BY <2>1, SearchConstants DEF Pairs, Place0
<1>12. Adjoining(v, l)
  <2>. SUFFICES ASSUME NEW i \in 1..Len(v)
                PROVE  /\ v[i][1] < v[i][2]
                       /\ \A s \in v[i][1] + 1..v[i][2] - 1 : l[s] = -1
                       /\ \A k \in i + 1..Len(v) : v[k][2] <= v[i][1]
                       /\ i < Len(v) => v[i + 1][2] = v[i][1]
                       /\ i = Len(v) => v[i][1] = 0
    BY Zenon DEF Adjoining
  <2>3. CASE i = 1
    <3>1. v[i][1] = mid /\ v[i][2] = q /\ v[2][2] = mid
      BY <2>3, <1>8
    <3>2. ASSUME NEW k \in i + 1..Len(v) PROVE v[k][2] <= v[i][1]
      <4>1. CASE k = 2
        BY <4>1, <3>1
      <4>2. CASE k # 2
        <5>1. k \in 3..Len(v) /\ k \in 1..Len(v)
          BY <4>2, <2>3, <1>7
        <5>2. v[k][2] <= e /\ v[k][2] \in Int
          BY Zenon, <5>1, <1>10, <1>11
        <5>. QED
          BY <5>2, <3>1, <1>2
      <4>. QED
        BY <4>1, <4>2
    <3>3. \A s \in mid + 1..q - 1 : s \in e + 1..q - 1
      BY <1>2
    <3>4. \A s \in v[i][1] + 1..v[i][2] - 1 : l[s] = -1
      BY Zenon, <3>1, <3>3, <1>9
    <3>5. i + 1 = 2 /\ ~(i = Len(v))
      BY <2>3, <1>7, <1>1
    <3>6. v[i][1] < v[i][2]
      BY <3>1, <1>2
    <3>. QED
      BY Zenon, <3>1, <3>2, <3>4, <3>5, <3>6
  <2>4. CASE i = 2
    <3>1. v[i][1] = e /\ v[i][2] = mid
      BY <2>4, <1>8
    <3>2. \A k \in i + 1..Len(v) : k \in 3..Len(v)
      BY <2>4
    <3>3. \A k \in i + 1..Len(v) : v[k][2] <= v[i][1]
      BY Zenon, <3>1, <3>2, <1>10
    <3>4. \A s \in e + 1..mid - 1 : s \in e + 1..q - 1
      BY <1>2
    <3>5. \A s \in v[i][1] + 1..v[i][2] - 1 : l[s] = -1
      BY Zenon, <3>1, <3>4, <1>9
    <3>6. ASSUME i < Len(v) PROVE v[i + 1][2] = v[i][1]
      <4>1. 3 \in 3..Len(v) /\ 1 < Len(w) /\ 3 - 1 = 2 /\ i + 1 = 3
        BY <3>6, <2>4, <1>7, <1>1
      <4>2. v[3] = w[3 - 1] /\ w[2][2] = e
        BY Zenon, <4>1, <1>10, <1>9
      <4>. QED
        BY Zenon, <4>1, <4>2, <3>1
    <3>7. ASSUME i = Len(v) PROVE v[i][1] = 0
      <4>1. \A m, n \in Nat : m = n + 1 /\ m = 2 => 1 = n
        OBVIOUS
      <4>2. 1 = Len(w)
        BY Zenon, <4>1, <3>7, <2>4, <1>7, <1>1
      <4>. QED
        BY Zenon, <4>2, <1>9, <3>1
    <3>8. v[i][1] < v[i][2]
      BY <3>1, <1>2
    <3>. QED
      BY Zenon, <3>3, <3>5, <3>6, <3>7, <3>8
  <2>5. CASE i \in 3..Len(v)
    <3>1. i - 1 \in 1..Len(w) /\ v[i] = w[i - 1]
      BY Zenon, <2>5, <1>10
    <3>2. /\ w[i - 1][1] < w[i - 1][2]
          /\ \A s \in w[i - 1][1] + 1..w[i - 1][2] - 1 : l[s] = -1
          /\ \A k \in i - 1 + 1..Len(w) : w[k][2] <= w[i - 1][1]
          /\ i - 1 < Len(w) => w[i - 1 + 1][2] = w[i - 1][1]
          /\ i - 1 = Len(w) => w[i - 1][1] = 0
      BY Zenon, <1>0, <3>1 DEF Adjoining
    <3>3. ASSUME NEW k \in i + 1..Len(v) PROVE v[k][2] <= v[i][1]
      <4>1. k \in 3..Len(v) /\ k - 1 \in i - 1 + 1..Len(w)
        BY <2>5, <1>7, <1>1
      <4>2. v[k] = w[k - 1]
        BY Zenon, <4>1, <1>10
      <4>. QED
        BY Zenon, <4>1, <4>2, <3>1, <3>2
    <3>4. ASSUME i < Len(v) PROVE v[i + 1][2] = v[i][1]
      <4>1. i + 1 \in 3..Len(v) /\ i - 1 < Len(w) /\ i + 1 - 1 = i - 1 + 1
        BY <3>4, <2>5, <1>7, <1>1
      <4>2. v[i + 1] = w[i + 1 - 1]
        BY <4>1, <1>8
      <4>. QED
        BY Zenon, <4>1, <4>2, <3>1, <3>2
    <3>5. ASSUME i = Len(v) PROVE v[i][1] = 0
      <4>1. \A m, n \in Nat : m = n + 1 => m - 1 = n
        OBVIOUS
      <4>2. i - 1 = Len(w)
        BY Zenon, <4>1, <3>5, <1>7, <1>1
      <4>. QED
        BY Zenon, <4>2, <3>1, <3>2
    <3>. QED
      BY Zenon, <3>1, <3>2, <3>3, <3>4, <3>5
  <2>6. i = 1 \/ i = 2 \/ i \in 3..Len(v)
    BY <1>7, <1>1
  <2>. QED
    BY Zenon, <2>3, <2>4, <2>5, <2>6
<1>. QED
  BY Zenon, <1>12

\* Steps that leave the samples, the calls to come and the levels alone.
LEMMA QuietStep ==
  ASSUME CacheParts, spc \in Collecting, spc' \in Collecting,
         samples' = samples, lat' = lat, ratio' = ratio, work' = work,
         levels' = levels, from' = from, base' \in Nat
  PROVE  CacheParts'
<1>1. spc # "last" /\ spc' # "last" /\ spc' # "first"
      /\ spc \notin {"levels", "done"} /\ spc' \notin {"levels", "done"}
  BY DEF Collecting
<1>2. (spc' # "last" => samples' = samples) /\ SearchTypes' /\ Untouched'
  BY <1>1 DEF CacheParts, SearchTypes, Untouched
<1>3. WorkShape' /\ EndsMeasured'
  BY <1>1 DEF CacheParts, WorkShape, EndsMeasured, Adjoining
<1>4. GapsDone'
  BY <1>1 DEF CacheParts, GapsDone, Smooth, Gap, HasLatency, DoneFrom
<1>5. LevelsAscend'
  BY <1>1 DEF CacheParts, LevelsAscend
<1>. QED
  BY <1>1, <1>2, <1>3, <1>4, <1>5 DEF CacheParts

CacheStep == \/ LastSample \/ FirstSample \/ Search \/ SearchDone \/ Sample
             \/ KeepChunk \/ DivideChunk \/ PartDone \/ SuspectChunk
             \/ NextPass \/ Sampled \/ KeepPages \/ SortBad \/ Replace
             \/ Replaced \/ Level

\* A sample is measured, whatever is tried with its pages.
LEMMA CollectStep ==
  ASSUME CacheInv,
         \/ Sample \/ KeepChunk \/ DivideChunk \/ PartDone \/ SuspectChunk
         \/ NextPass \/ KeepPages \/ SortBad \/ Replace \/ Replaced
  PROVE  CacheInv'
<1>1. samples' = samples /\ lat' = lat /\ ratio' = ratio /\ work' = work
      /\ levels' = levels /\ from' = from
  BY DEF Sample, KeepChunk, DivideChunk, PartDone,
         SuspectChunk, NextPass, KeepPages, SortBad,
         Replace, Replaced, sampleVars, levelVars
<1>2. spc \in Collecting /\ spc' \in Collecting \cup Stuck
  BY DEF Sample, KeepChunk, DivideChunk, PartDone,
         SuspectChunk, NextPass, KeepPages, SortBad,
         Replace, Replaced, Collecting, Stuck
<1>3. spc \notin Stuck
  BY <1>2 DEF Stuck, Collecting
<1>4. CacheParts /\ base \in Nat
  BY <1>3 DEF CacheInv, CacheParts, SearchTypes
<1>5. base' \in Nat
  <2>1. base' = base \/ base' \in Times
    BY DEF Sample, KeepChunk, DivideChunk, PartDone,
         SuspectChunk, NextPass, KeepPages, SortBad,
           Replace, Replaced, chunkVars
  <2>. QED
    BY <2>1, <1>4, SearchConstants
<1>6. CASE spc' \in Stuck
  BY <1>6 DEF CacheInv
<1>7. CASE spc' \in Collecting
  <2>1. CacheParts'
    BY Zenon, <1>1, <1>2, <1>4, <1>5, <1>7, QuietStep
  <2>. QED
    BY <2>1, <1>7 DEF CacheInv
<1>. QED
  BY <1>2, <1>6, <1>7

LEMMA LastSampleStep ==
  ASSUME CacheInv, LastSample
  PROVE  CacheInv'
<1>1. spc = "last" /\ CacheParts
  BY DEF LastSample, CacheInv, Stuck
<1>2. samples \in 1..Samples /\ base \in Nat /\ lat \in [Place0 -> Int]
      /\ (\A s \in Place0 : lat[s] >= -1) /\ ratio \in [Place0 -> Int]
      /\ (\A s \in 0..Samples - 2 : lat[s] = -1) /\ work = <<>>
      /\ levels = <<>> /\ from \in Nat
  BY <1>1 DEF CacheParts, SearchTypes, Untouched, LevelsAscend
<1>3. base' = base /\ ratio' = ratio /\ work' = work /\ levels' = levels
      /\ from' = from
  BY DEF LastSample, chunkVars, levelVars
<1>4. WorkShape' /\ EndsMeasured' /\ GapsDone' /\ LevelsAscend'
  <2>1. spc' \in {"last", "first", "undefined"}
    BY DEF LastSample
  <2>2. work' = <<>> /\ levels' = <<>> /\ from' \in Nat
    BY <1>2, <1>3
  <2>. QED
    BY <2>1, <2>2 DEF WorkShape, Adjoining, EndsMeasured, GapsDone,
                      LevelsAscend, Collecting
<1>5. CASE lat[samples - 1] = -1 /\ samples = Samples
  <2>1. PICK t \in Times : lat' = [lat EXCEPT ![samples - 1] = t]
    BY <1>5 DEF LastSample
  <2>2. spc' \in {"first", "last"} /\ samples' = samples
    BY <1>5 DEF LastSample
  <2>3. t \in Nat
    BY SearchConstants
  <2>4. lat' = [lat EXCEPT ![Samples - 1] = t]
    BY <2>1, <1>5
  <2>5. lat' \in [Place0 -> Int] /\ (\A s \in Place0 : lat'[s] >= -1)
        /\ (\A s \in 0..Samples - 2 : lat'[s] = -1) /\ lat'[Samples - 1] >= 0
    BY <2>3, <2>4, <1>2, SearchConstants DEF Place0
  <2>6. SearchTypes'
    BY <2>2, <2>5, <1>2, <1>3 DEF SearchTypes
  <2>7. Untouched'
    BY <2>5, <1>2, <1>3 DEF Untouched
  <2>8. samples' = Samples
    BY <2>2, <1>5
  <2>. QED
    BY <2>2, <2>6, <2>7, <2>8, <1>4 DEF CacheInv, CacheParts
<1>6. CASE ~(lat[samples - 1] = -1 /\ samples = Samples)
  <2>1. samples' = samples - 1 /\ lat' = lat
        /\ spc' = IF samples' = 0 THEN "undefined" ELSE "last"
    BY <1>6 DEF LastSample
  <2>2. CASE samples' = 0
    BY <2>1, <2>2 DEF CacheInv, Stuck
  <2>3. CASE samples' # 0
    <3>1. samples' \in 1..Samples
      BY <2>1, <2>3, <1>2, SearchConstants
    <3>2. SearchTypes'
      BY <3>1, <2>1, <1>2, <1>3 DEF SearchTypes
    <3>3. spc' = "last"
      BY <2>1, <2>3
    <3>4. Untouched'
      BY <3>3, <2>1, <1>2, <1>3 DEF Untouched
    <3>. QED
      BY <3>2, <3>3, <3>4, <1>4 DEF CacheInv, CacheParts
  <2>. QED
    BY <2>2, <2>3
<1>. QED
  BY <1>5, <1>6

LEMMA FirstSampleStep ==
  ASSUME CacheInv, FirstSample
  PROVE  CacheInv'
<1>1. spc = "first" /\ CacheParts /\ spc' = "search"
  BY DEF FirstSample, CacheInv, Stuck
<1>2. samples = Samples /\ base \in Nat /\ lat \in [Place0 -> Int]
      /\ (\A s \in Place0 : lat[s] >= -1) /\ ratio \in [Place0 -> Int]
      /\ (\A s \in 0..Samples - 2 : lat[s] = -1) /\ lat[Samples - 1] >= 0
      /\ levels = <<>> /\ from \in Nat
  BY <1>1 DEF CacheParts, SearchTypes, Untouched, LevelsAscend
<1>3. base' = base /\ ratio' = ratio /\ samples' = samples /\ levels' = levels
      /\ from' = from /\ work' = <<<<0, Samples - 1>>>>
  BY <1>2 DEF FirstSample, chunkVars, levelVars
<1>4. PICK t \in Times : lat' = [lat EXCEPT ![0] = t]
  BY DEF FirstSample
<1>5. t \in Nat
  BY SearchConstants
<1>6. lat' \in [Place0 -> Int] /\ (\A s \in Place0 : lat'[s] >= -1)
      /\ (\A s \in 1..Samples - 2 : lat'[s] = -1) /\ lat'[Samples - 1] >= 0
  BY <1>5, <1>4, <1>2, SearchConstants DEF Place0
<1>7. <<0, Samples - 1>> \in Pairs
  BY SearchConstants DEF Pairs, Place0
<1>8. work' \in Seq(Pairs) /\ Len(work') = 1 /\ work'[1][1] = 0
      /\ work'[1][2] = Samples - 1 /\ work' # <<>>
  BY <1>3, <1>7
<1>9. SearchTypes'
  BY <1>2, <1>3, <1>6, <1>8, SearchConstants DEF SearchTypes
<1>10. WorkShape' /\ EndsMeasured'
  BY <1>1, <1>6, <1>8, SearchConstants
     DEF WorkShape, Adjoining, EndsMeasured, Collecting
<1>11. GapsDone'
  <2>. SUFFICES ASSUME NEW l \in Samples - 1..Samples - 1, NEW r \in Place0
                PROVE  ~Gap(l, r)'
    BY <1>8 DEF GapsDone, DoneFrom, Smooth
  <2>1. ~(l < r)
    BY SearchConstants DEF Place0
  <2>. QED
    BY <2>1 DEF Gap
<1>12. Untouched' /\ LevelsAscend'
  BY <1>1, <1>2, <1>3 DEF Untouched, LevelsAscend
<1>. QED
  BY <1>1, <1>2, <1>3, <1>9, <1>10, <1>11, <1>12
     DEF CacheInv, CacheParts, Stuck

LEMMA SearchStep ==
  ASSUME CacheInv, Search
  PROVE  CacheInv'
<1>1. spc = "search" /\ CacheParts /\ work # <<>>
      /\ spc' \in {"search", "sample"}
  BY DEF Search, CacheInv, Stuck
<1>2. samples = Samples /\ base \in Nat /\ lat \in [Place0 -> Int]
      /\ (\A s \in Place0 : lat[s] >= -1) /\ ratio \in [Place0 -> Int]
      /\ work \in Seq(Pairs) /\ levels = <<>> /\ from \in Nat
      /\ Adjoining(work, lat) /\ \A i \in 1..Len(work) : lat[work[i][2]] >= 0
  BY <1>1 DEF CacheParts, SearchTypes, LevelsAscend, WorkShape, EndsMeasured,
              Collecting
<1>3. base' = base /\ samples' = samples /\ levels' = levels /\ from' = from
      /\ lat' = NewLat /\ ratio' = NewRatio
  BY DEF Search, chunkVars, levelVars
<1>4. Len(work) \in Nat /\ Len(work) >= 1 /\ 1 \in 1..Len(work)
      /\ work[1] \in Pairs
  BY <1>1, <1>2
<1>5. PICK e \in Place0, q \in Place0 : work[1] = <<e, q>>
  BY <1>4 DEF Pairs
<1>6. Left = e /\ Right = q
  BY <1>5 DEF Left, Right
<1>7. e \in Nat /\ q \in Nat /\ e <= Samples - 1 /\ q <= Samples - 1
  BY SearchConstants DEF Place0
<1>8. e < q /\ lat[q] >= 0 /\ (\A s \in e + 1..q - 1 : lat[s] = -1)
  <2>1. work[1][1] < work[1][2] /\ lat[work[1][2]] >= 0
        /\ \A s \in work[1][1] + 1..work[1][2] - 1 : lat[s] = -1
    BY Zenon, <1>2, <1>4 DEF Adjoining
  <2>. QED
    BY <2>1, <1>5
\* The latency of the left sample, and its ratio.
<1>9. PICK x \in Int, y \in Int :
         /\ lat' = [lat EXCEPT ![e] = x] /\ x >= -1
         /\ ratio' = [ratio EXCEPT ![e] = y]
         /\ x > 0 /\ lat[q] > 0 => y = (100 * lat[q]) \div x
  <2>1. lat[e] \in Int /\ lat[q] \in Int /\ ratio[e] \in Int /\ lat[e] >= -1
    BY <1>2
  <2>2. CASE Bad
    <3>1. lat' = [lat EXCEPT ![e] = lat[q]]
          /\ ratio' = [ratio EXCEPT ![e] = 100]
      BY <2>2, <1>3, <1>6 DEF NewLat, NewRatio
    <3>2. lat[q] > 0 => 100 = (100 * lat[q]) \div lat[q]
      BY <2>1
    <3>3. lat[q] >= -1 /\ 100 \in Int
      BY <2>1, <1>8
    <3>. QED
      BY Zenon, <3>1, <3>2, <3>3, <2>1
  <2>3. CASE ~Bad /\ lat[e] > 0
    <3>1. lat' = [lat EXCEPT ![e] = lat[e]]
          /\ ratio' = [ratio EXCEPT ![e] = Percent]
      BY <2>3, <1>2, <1>3, <1>6 DEF NewLat, NewRatio
    <3>2. Percent = (100 * lat[q]) \div lat[e]
      BY <1>6 DEF Percent
    <3>3. Percent \in Int
      BY <3>2, <2>1, <2>3
    <3>. QED
      BY <3>1, <3>2, <3>3, <2>1
  <2>4. CASE ~(lat[e] > 0)
    <3>1. ~Bad
      BY <2>4, <1>6 DEF Bad
    <3>2. lat' = [lat EXCEPT ![e] = lat[e]]
          /\ ratio' = [ratio EXCEPT ![e] = ratio[e]]
      BY <2>4, <3>1, <1>2, <1>3, <1>6 DEF NewLat, NewRatio
    <3>. QED
      BY <3>2, <2>1, <2>4
  <2>. QED
    BY <2>2, <2>3, <2>4
<1>10. lat' \in [Place0 -> Int] /\ (\A s \in Place0 : lat'[s] >= -1)
       /\ ratio' \in [Place0 -> Int] /\ lat'[e] = x /\ ratio'[e] = y
       /\ (\A s \in Place0 : s # e => lat'[s] = lat[s])
       /\ (\A s \in Place0 : s # e => ratio'[s] = ratio[s])
  BY <1>9, <1>2
<1>11. Adjoining(work, lat')
  <2>1. \A i \in 1..Len(work) :
           work[1][1] \notin work[i][1] + 1..work[i][2] - 1
    BY Zenon, <1>1, <1>2, LeftOutside
  <2>2. \A i \in 1..Len(work) : e \notin work[i][1] + 1..work[i][2] - 1
    <3>1. work[1][1] = e
      BY <1>5
    <3>. QED
      BY Zenon, <2>1, <3>1
  <2>3. Adjoining(work, [lat EXCEPT ![e] = x])
    BY Zenon, <2>2, <1>2, <1>9, OutsideParts
  <2>. QED
    BY Zenon, <2>3, <1>9
<1>12. \A i \in 1..Len(work) : lat'[work[i][2]] >= 0
  <2>. SUFFICES ASSUME NEW i \in 1..Len(work) PROVE lat'[work[i][2]] >= 0
    OBVIOUS
  <2>1. work[i] \in Pairs
    BY <1>2
  <2>2. work[i][2] \in Place0 /\ lat[work[i][2]] >= 0
    BY <2>1, <1>2 DEF Pairs
  <2>3. CASE work[i][2] # e
    BY <2>2, <2>3, <1>10
  <2>4. CASE work[i][2] = e
    <3>1. lat[e] >= 0
      BY <2>2, <2>4
    <3>2. x >= 0
      BY <3>1, <1>3, <1>6, <1>8, <1>10, <1>2 DEF NewLat
    <3>. QED
      BY <3>2, <2>4, <1>10
  <2>. QED
    BY <2>3, <2>4
\* To the right of this part nothing changes.
<1>13. ASSUME NEW l \in q..Samples - 1, NEW r \in Place0
       PROVE  Smooth(l, r)'
  <2>1. Smooth(l, r)
    <3>1. DoneFrom = q
      BY <1>1, <1>5 DEF DoneFrom
    <3>. QED
      BY Zenon, <3>1, <1>1 DEF CacheParts, GapsDone
  <2>2. CASE ~(l < r)
    BY <2>2 DEF Smooth, Gap
  <2>3. CASE l < r
    <3>1. l \in Place0 /\ l # e /\ r # e
      BY <2>3, <1>7, <1>8, SearchConstants DEF Place0
    <3>2. \A s \in l + 1..r - 1 : s \in Place0 /\ s # e
      BY <2>3, <1>7, <1>8, SearchConstants DEF Place0
    <3>3. lat'[l] = lat[l] /\ lat'[r] = lat[r] /\ ratio'[l] = ratio[l]
          /\ \A s \in l + 1..r - 1 : lat'[s] = lat[s]
      BY <3>1, <3>2, <1>10
    <3>. QED
      BY <3>3, <2>1 DEF Smooth, Gap, HasLatency
  <2>. QED
    BY <2>2, <2>3
<1>14. CASE Splits(NewRatio[Left])
  <2>. DEFINE mid == Middle
  <2>1. spc' = "sample" /\ work' = Halves \o Tail(work)
    BY <1>14 DEF Search
  <2>2. mid = e + (q - e) \div 2 /\ mid # e
    BY <1>6, <1>14 DEF Splits, Middle
  <2>3. mid \in Int /\ e < mid /\ mid < q
    BY <2>2, <1>7, <1>8
  <2>4. Halves = <<<<mid, q>>, <<e, mid>>>>
    BY <1>6 DEF Halves
  <2>. HIDE DEF mid
  <2>5. PICK m \in Int : m = mid
    BY <2>3
  <2>6. e < m /\ m < q /\ work' = <<<<m, q>>, <<e, m>>>> \o Tail(work)
    BY <2>1, <2>3, <2>4, <2>5
  <2>7. e \in Int /\ q \in Int
    BY <1>7
  <2>8. /\ work' \in Seq(Pairs) /\ Len(work') = Len(work) + 1
        /\ work'[1] = <<m, q>> /\ work'[2] = <<e, m>>
        /\ \A i \in 3..Len(work') : work'[i] = work[i - 1]
        /\ Adjoining(work', lat')
    <3>1. m \in Place0
      BY <2>6, <1>7, SearchConstants DEF Place0
    <3>2. <<m, q>> \in Pairs /\ <<e, m>> \in Pairs
      BY <3>1 DEF Pairs
    <3>3. PICK h : h = <<<<m, q>>, <<e, m>>>>
      OBVIOUS
    <3>9. PICK v : v = h \o Tail(work)
      OBVIOUS
    <3>4. /\ v \in Seq(Pairs) /\ Len(v) = Len(work) + 1
          /\ v[1] = <<m, q>> /\ v[2] = <<e, m>>
          /\ \A i \in 3..Len(v) : v[i] = work[i - 1]
      <4>1. work \in Seq(Pairs) /\ work # <<>>
        BY <1>1, <1>2
      <4>2. h \in Seq(Pairs) /\ Len(h) = 2
        BY <3>2, <3>3
      <4>4. h[1] = <<m, q>> /\ h[2] = <<e, m>>
        BY <3>3
      <4>3. Pushed(v, work, h)
        BY Zenon, <3>9, <4>1, <4>2, TwoCalls
      <4>. QED
        BY Zenon, <4>4, <4>3 DEF Pushed
    <3>5. PICK k : k = lat'
      OBVIOUS
    <3>6. Adjoining(work, k)
      BY Zenon, <1>11, <3>5
    <3>7. Adjoining(v, k)
      BY Zenon, <3>4, <3>6, <2>5, <2>6, <2>7, <1>2, <1>4, <1>5, SplitPart
    <3>8. v = work'
      BY Zenon, <2>6, <3>3, <3>9
    <3>. QED
      BY Zenon, <3>4, <3>5, <3>7, <3>8
  <2>9. ASSUME NEW i \in 1..Len(work') PROVE i = 2 \/ lat'[work'[i][2]] >= 0
    <3>1. CASE i = 1
      <4>1. work[1][2] = q /\ work'[1][2] = q
        BY <1>5, <2>8
      <4>. QED
        BY Zenon, <3>1, <4>1, <1>4, <1>12
    <3>2. CASE i \in 3..Len(work')
      <4>1. i - 1 \in 1..Len(work)
        BY <3>2, <2>8, <1>4
      <4>. QED
        BY Zenon, <3>2, <4>1, <2>8, <1>12
    <3>3. i = 1 \/ i = 2 \/ i \in 3..Len(work')
      BY <2>8, <1>4
    <3>. QED
      BY Zenon, <3>1, <3>2, <3>3
  <2>10. lat'[work'[1][1]] = -1 /\ Len(work') >= 2 /\ work' # <<>>
    <3>1. m \in e + 1..q - 1 /\ m \in Place0 /\ m # e
      BY <2>6, <2>7, <1>7, SearchConstants DEF Place0
    <3>2. lat'[m] = lat[m] /\ lat[m] = -1
      BY Zenon, <3>1, <1>8, <1>10
    <3>. QED
      BY <3>2, <2>8, <1>4
  <2>11. DoneFrom' = q
    BY <2>8, <2>10 DEF DoneFrom
  <2>12. SearchTypes'
    BY <1>2, <1>3, <1>10, <2>8, SearchConstants DEF SearchTypes
  <2>13. Untouched' /\ LevelsAscend'
    BY <2>1, <1>2, <1>3 DEF Untouched, LevelsAscend
  <2>14. WorkShape'
    BY <2>1, <2>8 DEF WorkShape
  <2>15. EndsMeasured'
    BY <2>1, <2>9, <2>10 DEF EndsMeasured, Collecting
  <2>16. GapsDone'
    BY <2>11, <1>13 DEF GapsDone
  <2>. QED
    BY <2>1, <1>2, <1>3, <2>12, <2>13, <2>14, <2>15, <2>16
       DEF CacheInv, CacheParts, Stuck, Collecting
<1>15. CASE ~Splits(NewRatio[Left])
  <2>1. spc' = "search" /\ work' = Tail(work)
    BY <1>15, <1>1 DEF Search
  <2>2. /\ work' \in Seq(Pairs) /\ Len(work') = Len(work) - 1
        /\ \A i \in 1..Len(work') : work'[i] = work[i + 1]
        /\ Adjoining(work', lat')
        /\ work' = <<>> => e = 0
        /\ work' # <<>> => work'[1][2] = e
    <3>1. work[1][1] = e
      BY <1>5
    <3>. QED
      BY Zenon, <3>1, <2>1, <1>1, <1>2, <1>11, PopPart
  <2>3. DoneFrom' = e
    BY <2>2 DEF DoneFrom
  <2>4. ASSUME NEW i \in 1..Len(work') PROVE lat'[work'[i][2]] >= 0
    <3>1. i + 1 \in 1..Len(work)
      BY <2>2, <1>4
    <3>. QED
      BY Zenon, <3>1, <2>2, <1>12
  <2>5. ASSUME NEW r \in Place0 PROVE Smooth(e, r)'
    <3>. SUFFICES ASSUME e < r, lat'[e] > 0, lat'[r] > 0,
                         \A s \in e + 1..r - 1 : lat'[s] = -1
                  PROVE  /\ ratio'[e] = (100 * lat'[r]) \div lat'[e]
                         /\ r > e + 1 => ratio'[e] <= 135
      BY DEF Smooth, Gap, HasLatency
    <3>1. lat'[q] = lat[q]
      BY <1>7, <1>8, <1>10
    <3>2. ~(q < r)
      <4>. SUFFICES ASSUME q < r PROVE FALSE
        OBVIOUS
      <4>1. q \in e + 1..r - 1
        BY <1>7, <1>8, SearchConstants DEF Place0
      <4>. QED
        BY <4>1, <3>1, <1>8
    <3>3. ~(r < q)
      <4>. SUFFICES ASSUME r < q PROVE FALSE
        OBVIOUS
      <4>1. r \in e + 1..q - 1 /\ r # e
        BY <1>7, SearchConstants DEF Place0
      <4>2. lat'[r] = -1
        BY <4>1, <1>8, <1>10
      <4>. QED
        BY <4>2
    <3>4. r = q
      BY <3>2, <3>3, <1>7, SearchConstants DEF Place0
    <3>5. y = (100 * lat[q]) \div x
      BY <3>1, <3>4, <1>9, <1>10
    <3>6. ASSUME q > e + 1 PROVE y <= 135
      <4>1. Middle = e + (q - e) \div 2
        BY <1>6 DEF Middle
      <4>2. Middle # e
        BY <4>1, <3>6, <1>7
      <4>3. NewRatio[Left] = y
        BY <1>3, <1>6, <1>10
      <4>4. ~(y > 135)
        BY <4>2, <4>3, <1>6, <1>15 DEF Splits
      <4>. QED
        BY <4>4, <1>9
    <3>. QED
      BY <3>1, <3>4, <3>5, <3>6, <1>10
  <2>6. ASSUME NEW l \in e..Samples - 1, NEW r \in Place0 PROVE Smooth(l, r)'
    <3>1. CASE l = e
      BY <3>1, <2>5
    <3>2. CASE l \in e + 1..q - 1
      <4>1. l \in Place0 /\ l # e
        BY <3>2, <1>7, SearchConstants DEF Place0
      <4>2. lat'[l] = -1
        BY <4>1, <3>2, <1>8, <1>10
      <4>. QED
        BY <4>2 DEF Smooth, Gap, HasLatency
    <3>3. CASE l \in q..Samples - 1
      BY <3>3, <1>13
    <3>4. l = e \/ l \in e + 1..q - 1 \/ l \in q..Samples - 1
      BY <1>7, SearchConstants
    <3>. QED
      BY <3>1, <3>2, <3>3, <3>4
  <2>7. SearchTypes'
    BY <1>2, <1>3, <1>10, <2>2, SearchConstants DEF SearchTypes
  <2>8. Untouched' /\ LevelsAscend' /\ WorkShape' /\ EndsMeasured'
    BY <2>1, <2>2, <2>4, <1>2, <1>3
       DEF Untouched, LevelsAscend, WorkShape, EndsMeasured, Collecting
  <2>9. GapsDone'
    BY <2>3, <2>6 DEF GapsDone
  <2>. QED
    BY <2>1, <1>2, <1>3, <2>7, <2>8, <2>9 DEF CacheInv, CacheParts, Stuck
<1>. QED
  BY <1>14, <1>15

LEMMA SearchDoneStep ==
  ASSUME CacheInv, SearchDone
  PROVE  CacheInv'
<1>1. spc = "search" /\ CacheParts /\ work = <<>> /\ spc' = "levels"
  BY DEF SearchDone, CacheInv, Stuck
<1>2. samples' = samples /\ lat' = lat /\ ratio' = ratio /\ work' = work
      /\ levels' = levels /\ from' = from /\ base' = base
  BY DEF SearchDone, sampleVars, levelVars, chunkVars
<1>3. SearchTypes' /\ Untouched' /\ WorkShape' /\ EndsMeasured'
  BY <1>1, <1>2 DEF CacheParts, SearchTypes, Untouched, WorkShape,
                    EndsMeasured, Adjoining, Collecting
<1>4. GapsDone'
  BY <1>1, <1>2 DEF CacheParts, GapsDone, Smooth, Gap, HasLatency, DoneFrom
<1>5. LevelsAscend'
  BY <1>1, <1>2 DEF CacheParts, LevelsAscend
<1>. QED
  BY <1>1, <1>2, <1>3, <1>4, <1>5 DEF CacheInv, CacheParts, Stuck

\* The sample in the middle is taken.
LEMMA SampledStep ==
  ASSUME CacheInv, Sampled
  PROVE  CacheInv'
<1>1. spc = "sampled" /\ CacheParts /\ spc' = "search"
  BY DEF Sampled, CacheInv, Stuck
<1>2. samples = Samples /\ base \in Nat /\ lat \in [Place0 -> Int]
      /\ (\A s \in Place0 : lat[s] >= -1) /\ ratio \in [Place0 -> Int]
      /\ work \in Seq(Pairs) /\ levels = <<>> /\ from \in Nat
      /\ Adjoining(work, lat) /\ Len(work) >= 2 /\ lat[work[1][1]] = -1
      /\ \A i \in 1..Len(work) : i = 2 \/ lat[work[i][2]] >= 0
  BY <1>1 DEF CacheParts, SearchTypes, LevelsAscend, WorkShape, EndsMeasured,
              Collecting
<1>3. base' = 0 /\ samples' = samples /\ levels' = levels /\ from' = from
      /\ lat' = [lat EXCEPT ![Taken] = base] /\ ratio' = ratio /\ work' = work
  BY DEF Sampled, levelVars
<1>4. Len(work) \in Nat /\ 1 \in 1..Len(work) /\ 2 \in 1..Len(work)
      /\ work[1] \in Pairs /\ work[2] \in Pairs /\ work # <<>> /\ 1 < Len(work)
      /\ 1 + 1 = 2
  BY <1>2
<1>5. work[1][1] \in Place0 /\ work[1][2] \in Place0 /\ work[2][1] \in Place0
  BY <1>4 DEF Pairs
<1>6. PICK m \in Place0, q \in Place0, e \in Place0 :
         m = work[1][1] /\ q = work[1][2] /\ e = work[2][1]
  BY <1>5
<1>7. m < q /\ e < m
  <2>1. work[1][1] < work[1][2] /\ work[2][1] < work[2][2]
        /\ work[1 + 1][2] = work[1][1]
    BY Zenon, <1>2, <1>4 DEF Adjoining
  <2>. QED
    BY Zenon, <2>1, <1>6, <1>4
<1>8. Taken = m
  <2>1. m \in Nat /\ e \in Nat
    BY SearchConstants DEF Place0
  <2>2. Max({m, e}) \in {m, e} /\ Max({m, e}) >= m
    <3>1. m \in {m, e} /\ \A y \in {m, e} : m >= y
      BY <2>1, <1>7
    <3>2. \E z \in {m, e} : \A y \in {m, e} : z >= y
      BY Zenon, <3>1
    <3>3. Max({m, e}) \in {m, e} /\ \A y \in {m, e} : Max({m, e}) >= y
      BY Zenon, <3>2 DEF Max
    <3>. QED
      BY Zenon, <3>1, <3>3
  <2>3. Max({m, e}) = m
    BY <2>1, <2>2, <1>7
  <2>. QED
    BY Zenon, <2>3, <1>6 DEF Taken
<1>9. lat' = [lat EXCEPT ![m] = base] /\ base \in Int /\ base >= 0
  BY <1>2, <1>3, <1>8
<1>10. lat' \in [Place0 -> Int] /\ (\A s \in Place0 : lat'[s] >= -1)
       /\ lat'[m] = base /\ \A s \in Place0 : s # m => lat'[s] = lat[s]
  BY <1>2, <1>9
<1>11. Adjoining(work, lat')
  <2>1. \A i \in 1..Len(work) :
           work[1][1] \notin work[i][1] + 1..work[i][2] - 1
    BY Zenon, <1>2, <1>4, LeftOutside
  <2>2. \A i \in 1..Len(work) : m \notin work[i][1] + 1..work[i][2] - 1
    BY Zenon, <2>1, <1>6
  <2>3. Adjoining(work, [lat EXCEPT ![m] = base])
    BY Zenon, <2>2, <1>2, <1>9, OutsideParts
  <2>. QED
    BY Zenon, <2>3, <1>9
<1>12. \A i \in 1..Len(work) : lat'[work[i][2]] >= 0
  <2>. SUFFICES ASSUME NEW i \in 1..Len(work) PROVE lat'[work[i][2]] >= 0
    OBVIOUS
  <2>1. work[i] \in Pairs
    BY <1>2
  <2>2. work[i][2] \in Place0
    BY <2>1 DEF Pairs
  <2>3. CASE work[i][2] = m
    BY <2>3, <1>9, <1>10
  <2>4. CASE work[i][2] # m
    <3>1. i # 2
      BY <2>4, <1>2, <1>4, <1>6 DEF Adjoining
    <3>2. lat[work[i][2]] >= 0
      BY <3>1, <1>2
    <3>. QED
      BY <3>2, <2>2, <2>4, <1>10
  <2>. QED
    BY <2>3, <2>4
<1>13. DoneFrom = q /\ DoneFrom' = q
  BY <1>3, <1>4, <1>6 DEF DoneFrom
<1>14. GapsDone'
  <2>. SUFFICES ASSUME NEW l \in q..Samples - 1, NEW r \in Place0
                PROVE  Smooth(l, r)'
    BY <1>13 DEF GapsDone
  <2>1. Smooth(l, r)
    BY Zenon, <1>13, <1>1 DEF CacheParts, GapsDone, Collecting
  <2>2. CASE ~(l < r)
    BY <2>2 DEF Smooth, Gap
  <2>3. CASE l < r
    <3>0. m \in Nat /\ q \in Nat /\ q <= Samples - 1
      BY SearchConstants DEF Place0
    <3>1. l \in Place0 /\ l # m /\ r # m
      BY <2>3, <3>0, <1>7, SearchConstants DEF Place0
    <3>2. \A s \in l + 1..r - 1 : s \in Place0 /\ s # m
      BY <2>3, <3>0, <1>7, SearchConstants DEF Place0
    <3>3. lat'[l] = lat[l] /\ lat'[r] = lat[r]
          /\ \A s \in l + 1..r - 1 : lat'[s] = lat[s]
      BY <3>1, <3>2, <1>10
    <3>. QED
      BY <3>3, <2>1, <1>3 DEF Smooth, Gap, HasLatency
  <2>. QED
    BY <2>2, <2>3
<1>15. SearchTypes'
  BY <1>2, <1>3, <1>10, SearchConstants DEF SearchTypes
<1>16. Untouched' /\ LevelsAscend' /\ WorkShape' /\ EndsMeasured'
  BY <1>1, <1>2, <1>3, <1>11, <1>12
     DEF Untouched, LevelsAscend, WorkShape, EndsMeasured, Collecting
<1>. QED
  BY <1>1, <1>2, <1>3, <1>14, <1>15, <1>16 DEF CacheInv, CacheParts, Stuck

\* The next level is beyond those that are found.
LEMMA LevelStep ==
  ASSUME CacheInv, Level
  PROVE  CacheInv'
<1>1. spc = "levels" /\ CacheParts /\ spc' \in {"levels", "done"}
  BY DEF Level, CacheInv, Stuck
<1>2. samples' = samples /\ lat' = lat /\ ratio' = ratio /\ work' = work
      /\ base' = base
  BY DEF Level, sampleVars, chunkVars
<1>3. SearchTypes' /\ Untouched' /\ WorkShape' /\ EndsMeasured'
  BY <1>1, <1>2 DEF CacheParts, SearchTypes, Untouched, WorkShape,
                    EndsMeasured, Adjoining, Collecting
<1>4. GapsDone'
  BY <1>1, <1>2 DEF CacheParts, GapsDone, Smooth, Gap, HasLatency, DoneFrom
<1>5. LevelsAscend'
  <2>1. CASE levels' = levels /\ from' = from
    BY <2>1, <1>1, <1>2 DEF CacheParts, LevelsAscend
  <2>2. CASE ~(levels' = levels /\ from' = from)
    <3>1. Ends # {} /\ levels' = Append(levels, Legal(Found))
          /\ from' = Legal(Found) + 1
      BY <2>2 DEF Level, levelVars
    <3>2. from \in Nat /\ samples \in Nat
      BY <1>1, SearchConstants DEF CacheParts, LevelsAscend, SearchTypes
    <3>3. Ends \in SUBSET Nat
      BY <3>2 DEF Ends
    <3>4. Min(Ends) \in Ends
      BY Zenon, <3>1, <3>3, MinIn
    <3>5. PICK i \in Nat : i = Min(Ends) /\ Jumps(i) # {}
      BY <3>3, <3>4 DEF Ends
    <3>6. Jumps(i) \in SUBSET (0..i)
      BY <3>2 DEF Jumps
    <3>7. Max(Jumps(i)) \in Jumps(i)
      BY Zenon, <3>5, <3>6, MaxIn
    <3>8. Found \in Jumps(i)
      BY Zenon, <3>5, <3>7 DEF Found
    <3>9. PICK f \in Nat : f = Found /\ f >= from /\ ratio[f] > 150
      BY <3>2, <3>8 DEF Jumps
    <3>10. PICK g \in Nat : g = Legal(Found) /\ (g = f \/ g = f + 1)
      BY <3>9 DEF Legal
    <3>11. levels' = Append(levels, g) /\ from' = g + 1
      BY <3>1, <3>10
    <3>12. levels \in Seq(Nat) /\ Len(levels) \in Nat
      BY <1>1 DEF CacheParts, LevelsAscend
    <3>13. /\ levels' \in Seq(Nat) /\ Len(levels') = Len(levels) + 1
           /\ \A k \in 1..Len(levels) : levels'[k] = levels[k]
           /\ levels'[Len(levels) + 1] = g
      BY <3>11, <3>12
    <3>14. ASSUME NEW k \in 1..Len(levels)
           PROVE  /\ levels[k] < from
                  /\ k > 1 => levels[k - 1] < levels[k]
                  /\ \E s \in {levels[k], levels[k] - 1} :
                        s >= 0 /\ ratio[s] > 150
      BY <1>1 DEF CacheParts, LevelsAscend
    <3>15. ASSUME NEW k \in 1..Len(levels')
           PROVE  /\ levels'[k] < from'
                  /\ k > 1 => levels'[k - 1] < levels'[k]
                  /\ \E s \in {levels'[k], levels'[k] - 1} :
                        s >= 0 /\ ratio'[s] > 150
      <4>1. CASE k \in 1..Len(levels)
        <5>1. levels'[k] = levels[k] /\ levels[k] \in Nat
          BY <4>1, <3>12, <3>13
        <5>2. k > 1 => levels'[k - 1] = levels[k - 1]
          <6>1. k > 1 => k - 1 \in 1..Len(levels)
            BY <4>1, <3>12
          <6>. QED
            BY <6>1, <3>13
        <5>3. levels'[k] < from'
          BY <5>1, <4>1, <3>14, <3>2, <3>9, <3>10, <3>11
        <5>. QED
          BY Zenon, <5>1, <5>2, <5>3, <4>1, <3>14, <1>2
      <4>2. CASE k = Len(levels) + 1
        <5>1. levels'[k] = g
          BY Zenon, <4>2, <3>13
        <5>2. ASSUME k > 1 PROVE levels'[k - 1] < levels'[k]
          <6>1. k - 1 \in 1..Len(levels)
            BY <5>2, <4>2, <3>12
          <6>2. levels'[k - 1] = levels[k - 1] /\ levels[k - 1] < from
                /\ levels[k - 1] \in Nat
            BY <6>1, <3>12, <3>13, <3>14
          <6>. QED
            BY <6>2, <5>1, <3>2, <3>9, <3>10
        <5>3. f \in {g, g - 1} /\ f >= 0 /\ ratio'[f] > 150
          BY <3>9, <3>10, <1>2
        <5>4. levels'[k] < from'
          BY <5>1, <3>11
        <5>. QED
          BY Zenon, <5>1, <5>2, <5>3, <5>4
      <4>3. k \in 1..Len(levels) \/ k = Len(levels) + 1
        BY <3>12, <3>13
      <4>. QED
        BY Zenon, <4>1, <4>2, <4>3
    <3>16. from' \in Nat
      BY <3>11
    <3>. QED
      BY Zenon, <3>13, <3>15, <3>16, <1>1 DEF LevelsAscend
  <2>. QED
    BY <2>1, <2>2
<1>. QED
  BY <1>1, <1>2, <1>3, <1>4, <1>5 DEF CacheInv, CacheParts, Stuck

LEMMA TlbStep ==
  ASSUME TlbInv, Double \/ NoTlb \/ Halve \/ TlbFound
  PROVE  TlbInv'
<1>1. ti \in Nat /\ verdict \in [0..TlbPages -> {"none", "slow", "fast"}]
  BY DEF TlbInv
<1>2. CASE Double
  <2>1. spc = "double" /\ ti <= TlbPages /\ ti >= 2 /\ ti \in 0..TlbPages
    BY <1>2, <1>1, SearchConstants DEF Double, TlbInv
  <2>2. CASE Tries("slow")
    <3>1. CASE spc' = "halve"
      <4>1. lower' = ti \div 2 /\ upper' = ti
            /\ ti' = lower' + (upper' - lower') \div 2
        BY <3>1, <2>1, <1>2 DEF Double
      <4>2. verdict' = [verdict EXCEPT ![ti] = "slow"]
        BY <2>2 DEF Tries
      <4>3. lower' \in Nat /\ upper' \in Nat /\ lower' < upper' /\ ti' \in Nat
        BY <4>1, <2>1, <1>1
      <4>4. verdict' \in [0..TlbPages -> {"none", "slow", "fast"}]
            /\ verdict'[upper'] = "slow"
        BY <4>1, <4>2, <2>1, <1>1
      <4>5. verdict'[lower'] = "fast" \/ lower' = TlbStart \div 2
        <5>1. CASE ti = TlbStart
          BY <5>1, <4>1
        <5>2. CASE \E half \in 0..TlbPages :
                      ti = 2 * half /\ verdict[half] = "fast"
          <6>1. PICK half \in 0..TlbPages :
                        ti = 2 * half /\ verdict[half] = "fast"
            BY <5>2
          <6>2. lower' = half /\ half # ti
            BY <6>1, <4>1, <2>1, SearchConstants
          <6>. QED
            BY <6>1, <6>2, <4>2, <1>1
        <5>. QED
          BY <5>1, <5>2, <2>1 DEF TlbInv
      <4>. QED
        BY <3>1, <4>1, <4>3, <4>4, <4>5, <2>1 DEF TlbInv
    <3>2. CASE spc' # "halve"
      BY <3>2, <2>1, <2>2, <1>2, <1>1 DEF Double, Tries
    <3>. QED
      BY <3>1, <3>2
  <2>3. CASE ~Tries("slow")
    <3>1. verdict' = [verdict EXCEPT ![ti] = "fast"] /\ ti' = 2 * ti
          /\ spc' = "double"
      BY <2>1, <2>3, <1>2 DEF Double, Tries
    <3>2. verdict' \in [0..TlbPages -> {"none", "slow", "fast"}]
          /\ verdict'[ti] = "fast"
      BY <3>1, <2>1, <1>1
    <3>3. ti' \in Nat /\ ti' >= 2
      BY <3>1, <2>1, <1>1
    <3>4. \E half \in 0..TlbPages : ti' = 2 * half /\ verdict'[half] = "fast"
      BY Zenon, <3>1, <3>2, <2>1
    <3>. QED
      BY <3>1, <3>2, <3>3, <3>4 DEF TlbInv
  <2>. QED
    BY <2>2, <2>3
<1>3. CASE NoTlb
  BY <1>3, <1>1 DEF NoTlb, TlbInv, tlbVars
<1>4. CASE Halve
  <2>1. spc = "halve" /\ spc' = "halve" /\ ti < TlbPages /\ lower + 1 < upper
    BY <1>4 DEF Halve
  <2>2. lower \in Nat /\ upper \in Nat /\ lower < upper /\ upper <= TlbPages
        /\ verdict[upper] = "slow"
        /\ (verdict[lower] = "fast" \/ lower = TlbStart \div 2)
        /\ ti = lower + (upper - lower) \div 2
    BY <2>1 DEF TlbInv
  <2>3. lower < ti /\ ti < upper /\ ti \in 0..TlbPages
    BY <2>1, <2>2, <1>1, SearchConstants
  <2>4. ti' = lower' + (upper' - lower') \div 2
    BY <1>4 DEF Halve
  <2>5. CASE Tries("slow") /\ upper' = ti /\ lower' = lower
    <3>1. verdict' = [verdict EXCEPT ![ti] = "slow"]
      BY <2>5 DEF Tries
    <3>2. verdict' \in [0..TlbPages -> {"none", "slow", "fast"}]
          /\ verdict'[ti] = "slow"
          /\ (verdict'[lower] = "fast" \/ lower = TlbStart \div 2)
      BY <3>1, <2>2, <2>3, <1>1
    <3>3. ti' \in Nat
      BY <2>4, <2>5, <2>2, <2>3, <1>1
    <3>4. upper' <= TlbPages
      BY <2>5, <2>3
    <3>. QED
      BY <2>1, <2>2, <2>3, <2>4, <2>5, <3>2, <3>3, <3>4, <1>1 DEF TlbInv
  <2>6. CASE Tries("fast") /\ lower' = ti /\ upper' = upper
    <3>1. verdict' = [verdict EXCEPT ![ti] = "fast"]
      BY <2>6 DEF Tries
    <3>2. upper # ti /\ upper \in 0..TlbPages
      BY <2>2, <2>3, <1>1
    <3>3. verdict' \in [0..TlbPages -> {"none", "slow", "fast"}]
          /\ verdict'[ti] = "fast" /\ verdict'[upper] = "slow"
      BY <3>1, <3>2, <2>2, <2>3, <1>1
    <3>4. ti' \in Nat
      BY <2>4, <2>6, <2>2, <2>3, <1>1
    <3>. QED
      BY <2>1, <2>2, <2>3, <2>4, <2>6, <3>3, <3>4, <1>1 DEF TlbInv
  <2>. QED
    BY <2>5, <2>6, <1>4 DEF Halve
<1>5. CASE TlbFound
  <2>1. spc = "halve" /\ spc' = "done" /\ lower + 1 >= upper
        /\ ti' = ti /\ lower' = lower /\ upper' = upper /\ verdict' = verdict
    BY <1>5 DEF TlbFound, tlbVars
  <2>2. lower \in Nat /\ upper \in Nat /\ lower < upper /\ upper <= TlbPages
        /\ verdict[upper] = "slow"
        /\ (verdict[lower] = "fast" \/ lower = TlbStart \div 2)
    BY <2>1 DEF TlbInv
  <2>3. upper = lower + 1
    BY <2>1, <2>2
  <2>. QED
    BY <2>1, <2>2, <2>3, <1>1 DEF TlbInv
<1>. QED
  BY <1>2, <1>3, <1>4, <1>5

LEMMA SearchInvNext ==
  ASSUME SearchInv, SearchNext
  PROVE  SearchInv'
<1>1. prog' = prog
  BY DEF SearchNext, LastSample, FirstSample, Search, SearchDone, Sample,
         KeepChunk, DivideChunk, PartDone,
         SuspectChunk, NextPass, Sampled, KeepPages, SortBad,
         Replace, Replaced, Level, Double, NoTlb, Halve, TlbFound
<1>2. CASE prog = "cache"
  <2>1. CacheInv /\ spc \notin {"double", "halve"}
    BY <1>2 DEF SearchInv, CacheInv, Stuck, Collecting
  <2>2. ~(Double \/ NoTlb \/ Halve \/ TlbFound)
    BY <2>1 DEF Double, NoTlb, Halve, TlbFound
  <2>3. CacheInv'
    BY Zenon, <2>1, <2>2, LastSampleStep, FirstSampleStep, SearchStep,
       SearchDoneStep, CollectStep, SampledStep, LevelStep DEF SearchNext
  <2>. QED
    BY <2>3, <1>1, <1>2 DEF SearchInv
<1>3. CASE prog = "tlb"
  <2>1. TlbInv /\ spc \in {"double", "halve", "none", "done"}
    BY <1>3 DEF SearchInv, TlbInv
  <2>2. Double \/ NoTlb \/ Halve \/ TlbFound
    BY <2>1 DEF SearchNext, LastSample, FirstSample, Search, SearchDone,
                Sample, KeepChunk, DivideChunk, PartDone,
         SuspectChunk, NextPass, Sampled, KeepPages,
                SortBad, Replace, Replaced, Level
  <2>3. TlbInv'
    BY Zenon, <2>1, <2>2, TlbStep
  <2>. QED
    BY <2>3, <1>1, <1>3 DEF SearchInv
<1>. QED
  BY <1>2, <1>3 DEF SearchInv

LEMMA SearchInvStutter ==
  ASSUME SearchInv, UNCHANGED searchVars
  PROVE  SearchInv'
<1>1. prog' = prog /\ spc' = spc /\ samples' = samples /\ lat' = lat
      /\ ratio' = ratio /\ work' = work /\ base' = base /\ levels' = levels
      /\ from' = from /\ ti' = ti /\ lower' = lower /\ upper' = upper
      /\ verdict' = verdict
  BY DEF searchVars, sampleVars, chunkVars, levelVars, tlbVars
<1>2. TlbInv => TlbInv'
  BY <1>1 DEF TlbInv
<1>3. SearchTypes => SearchTypes'
  BY <1>1 DEF SearchTypes
<1>4. (Untouched => Untouched') /\ (LevelsAscend => LevelsAscend')
  BY <1>1 DEF Untouched, LevelsAscend
<1>5. (WorkShape => WorkShape') /\ (EndsMeasured => EndsMeasured')
  BY <1>1 DEF WorkShape, Adjoining, EndsMeasured
<1>6. GapsDone => GapsDone'
  BY <1>1 DEF GapsDone, Smooth, Gap, HasLatency, DoneFrom
<1>7. CacheInv => CacheInv'
  BY <1>1, <1>3, <1>4, <1>5, <1>6 DEF CacheInv, CacheParts
<1>. QED
  BY <1>1, <1>2, <1>7 DEF SearchInv

LEMMA SearchInvComplete ==
  SearchInv => SearchComplete
<1>. SUFFICES ASSUME SearchInv PROVE SearchComplete
  OBVIOUS
<1>1. ASSUME prog = "cache" /\ spc \in {"levels", "done"}
      PROVE  /\ \A l, r \in 0..samples - 1 :
                   Gap(l, r) => /\ ratio[l] = (100 * lat[r]) \div lat[l]
                                /\ r > l + 1 => ratio[l] <= 135
             /\ \A i \in 1..Len(levels) :
                   /\ i > 1 => levels[i - 1] < levels[i]
                   /\ \E s \in {levels[i], levels[i] - 1} :
                         s >= 0 /\ ratio[s] > 150
  <2>1. CacheParts /\ samples = Samples
    BY <1>1 DEF SearchInv, CacheInv, Stuck, CacheParts
  <2>2. DoneFrom = 0
    BY <2>1, <1>1 DEF CacheParts, WorkShape, DoneFrom
  <2>3. \A l, r \in Place0 : Smooth(l, r)
    BY <2>1, <2>2, <1>1 DEF CacheParts, GapsDone, Place0
  <2>. QED
    BY Zenon, <2>1, <2>3 DEF Smooth, Place0, CacheParts, LevelsAscend
<1>2. ASSUME prog = "tlb" /\ spc = "done"
      PROVE  verdict[lower + 1] = "slow"
             /\ (verdict[lower] = "fast" \/ lower = TlbStart \div 2)
  BY <1>2 DEF SearchInv, TlbInv
<1>. QED
  BY Zenon, <1>1, <1>2 DEF SearchComplete

\* Whatever is measured, neither search leaves out what it is looking for:
\* cache no jump between sizes that are not neighbours, tlb no slow size
\* below the one it returns but those not tried.
THEOREM SearchesComplete ==
  SearchSpec => []SearchComplete
<1>1. SearchInit => SearchInv
  BY SearchStarts
<1>2. SearchInv /\ [SearchNext]_searchVars => SearchInv'
  BY SearchInvNext, SearchInvStutter
<1>3. SearchInv => SearchComplete
  BY SearchInvComplete
<1>. QED
  BY <1>1, <1>2, <1>3, PTL DEF SearchSpec

-----------------------------------------------------------------------------
(* The pages of a sample in cache.                                         *)

Arranged(V) == {l \in [0..Total - 1 -> V] : {l[i] : i \in 0..Total - 1} = V}

LEMMA SwappedArranged ==
  ASSUME NEW V, NEW l \in Arranged(V),
         NEW i \in 0..Total - 1, NEW j \in 0..Total - 1
  PROVE  Swapped(l, i, j) \in Arranged(V)
<1>. DEFINE Places == 0..Total - 1
            m == Swapped(l, i, j)
<1>1. l \in [Places -> V] /\ {l[k] : k \in Places} = V
  BY DEF Arranged
<1>. HIDE DEF Places
<1>2. i \in Places /\ j \in Places
  BY DEF Places
<1>3. /\ m \in [Places -> V] /\ m[j] = l[i]
      /\ i # j => m[i] = l[j]
      /\ \A k \in Places \ {i, j} : m[k] = l[k]
  BY <1>1, <1>2 DEF Swapped
<1>4. m[i] = l[j]
  BY <1>3
<1>. HIDE DEF m
<1>5. ASSUME NEW v \in V PROVE \E k \in Places : m[k] = v
  <2>1. PICK k \in Places : l[k] = v
    BY <1>1
  <2>2. CASE k = i
    BY <2>1, <2>2, <1>2, <1>3
  <2>3. CASE k = j
    BY <2>1, <2>3, <1>2, <1>4
  <2>4. CASE k \notin {i, j}
    BY <2>1, <2>4, <1>3
  <2>. QED
    BY <2>2, <2>3, <2>4
<1>6. {m[k] : k \in Places} = V
  BY <1>3, <1>5
<1>. QED
  BY <1>3, <1>6 DEF Arranged, Places, m

\* The chunk lies within the sample's pages.
ChunkFits ==
    /\ Total \in Nat /\ N \in 1..Total /\ at \in Nat /\ at < N
    /\ ThisChunk \in Nat /\ at + ThisChunk <= N

LEMMA SlotIn ==
  ASSUME ChunkFits, NEW j \in 0..ThisChunk - 1
  PROVE  ChunkSlot(j) \in 0..Total - 1 /\ at + j \in 0..Total - 1
<1>1. PICK n, c : n = N /\ c = ThisChunk
  OBVIOUS
<1>2. /\ n \in Int /\ c \in Int /\ Total \in Int /\ n <= Total /\ c <= n
      /\ at + c <= n /\ j \in Int /\ 0 <= j /\ j < c /\ at \in Nat
  BY <1>1 DEF ChunkFits
<1>3. ChunkSlot(j) = n - c + j
  BY <1>1 DEF ChunkSlot
<1>. QED
  BY <1>2, <1>3

\* Moving a chunk to the end rearranges the list.
LEMMA MoveArranged ==
  ASSUME ChunkFits, NEW V, NEW list \in Arranged(V)
  PROVE  MoveChunk(list) \in Arranged(V)
<1>. DEFINE S == Arranged(V)
            n == ThisChunk
            next(l, k) == Swapped(l, at + k - 1, ChunkSlot(k - 1))
            h == [k \in Nat |-> [l \in S |->
                    IF k \in 1..n THEN next(l, k) ELSE l]]
            Def(f) == [j \in 0..n |->
                         IF j = 0 THEN list ELSE next(f[j - 1], j)]
            after == CHOOSE f : f = Def(f)
<1>1. n \in Nat
  BY DEF ChunkFits
<1>2. ASSUME NEW k \in 1..n, NEW l \in S
      PROVE  next(l, k) \in S
  <2>1. k - 1 \in 0..ThisChunk - 1 /\ at + (k - 1) = at + k - 1
    BY <1>1 DEF ChunkFits
  <2>2. ChunkSlot(k - 1) \in 0..Total - 1 /\ at + k - 1 \in 0..Total - 1
    BY Zenon, <2>1, SlotIn
  <2>. QED
    BY Zenon, <2>2, SwappedArranged
<1>. HIDE DEF S, n, next
<1>3. StepOf(S, h)
  BY <1>2 DEF StepOf
<1>4. list \in S
  BY DEF S
<1>5. PICK g : Unfolds(S, list, h, n, g)
  BY Zenon, <1>1, <1>3, <1>4, UnfoldsAll DEF StepOf
<1>6. \A k \in 1..n : \A l \in S : h[k][l] = next(l, k)
  BY <1>1
<1>. HIDE DEF h
<1>7. g = Def(g)
  <2>1. /\ g \in [0..n -> S] /\ g[0] = list
        /\ \A k \in 1..n : g[k] = h[k][g[k - 1]]
    BY <1>5 DEF Unfolds
  <2>2. ASSUME NEW k \in 0..n, k # 0 PROVE g[k] = next(g[k - 1], k)
    <3>1. k \in 1..n /\ k - 1 \in 0..n
      BY <2>2, <1>1
    <3>2. g[k] = h[k][g[k - 1]] /\ g[k - 1] \in S
      BY <3>1, <2>1
    <3>. QED
      BY <3>1, <3>2, <1>6
  <2>. QED
    BY <2>1, <2>2
<1>8. after = Def(after)
  BY Zenon, <1>7
<1>. HIDE DEF after
<1>9. after[0] = list /\ \A k \in 1..n : after[k] = next(after[k - 1], k)
  BY <1>8, <1>1
<1>10. after[n] \in S
  <2>1. \A k \in 1..n : after[k - 1] \in S => after[k] = h[k][after[k - 1]]
    BY Zenon, <1>6, <1>9
  <2>2. \A k \in 0..n : after[k] \in S
    BY Zenon, <2>1, <1>1, <1>3, <1>4, <1>9, UnfoldsWithin
  <2>. QED
    BY <2>2, <1>1
<1>11. MoveChunk(list) = IF at + ThisChunk < N THEN after[n] ELSE list
  BY Zenon DEF MoveChunk, after, n, next
<1>. QED
  BY Zenon, <1>10, <1>11 DEF S

LEMMA ModBelow ==
  ASSUME NEW a \in Nat, NEW n \in Nat, n > 0
  PROVE  a % n \in 0..n - 1 /\ a \div n \in Nat
  OBVIOUS

LatsOf == [0..ThisChunk - 1 -> Nat]

\* So does the sort, which moves latencies along with their pages.
LEMMA SortArranged ==
  ASSUME ChunkFits, NEW V, NEW list \in Arranged(V), NEW ls \in LatsOf,
         NEW first \in Nat
  PROVE  /\ PageSort(list, ls, first).pages \in Arranged(V)
         /\ PageSort(list, ls, first).lats \in LatsOf
<1>. DEFINE S == [pages : Arranged(V), lats : LatsOf]
            n == ThisChunk * ThisChunk
            Exchanged(s, i, j) ==
                IF first <= i /\ i < j /\ s.lats[i] > s.lats[j]
                THEN [pages |-> Swapped(s.pages, ChunkSlot(i), ChunkSlot(j)),
                      lats |-> Swapped(s.lats, i, j)]
                ELSE s
            next(s, c) ==
                Exchanged(s, (c - 1) \div ThisChunk, (c - 1) % ThisChunk)
            start == [pages |-> list, lats |-> ls]
            h == [k \in Nat |-> [s \in S |->
                    IF k \in 1..n THEN next(s, k) ELSE s]]
            Def(f) == [c \in 0..n |->
                         IF c = 0 THEN start ELSE next(f[c - 1], c)]
            sorted == CHOOSE f : f = Def(f)
<1>1. n \in Nat /\ (n # 0 => ThisChunk > 0) /\ ThisChunk \in Nat
  BY DEF ChunkFits
<1>2. ASSUME NEW s \in S, NEW i \in Nat, NEW j \in 0..ThisChunk - 1
      PROVE  Exchanged(s, i, j) \in S
  <2>1. CASE ~(first <= i /\ i < j /\ s.lats[i] > s.lats[j])
    BY Zenon, <2>1, <1>2
  <2>2. CASE first <= i /\ i < j /\ s.lats[i] > s.lats[j]
    <3>1. i \in 0..ThisChunk - 1
      BY <2>2, <1>1
    <3>2. ChunkSlot(i) \in 0..Total - 1 /\ ChunkSlot(j) \in 0..Total - 1
      BY Zenon, <3>1, SlotIn
    <3>3. s.pages \in Arranged(V) /\ s.lats \in LatsOf
      OBVIOUS
    <3>4. Swapped(s.pages, ChunkSlot(i), ChunkSlot(j)) \in Arranged(V)
      BY Zenon, <3>2, <3>3, SwappedArranged
    <3>5. Swapped(s.lats, i, j) \in LatsOf
      BY <3>1, <3>3 DEF Swapped, LatsOf
    <3>. HIDE DEF S
    <3>6. Exchanged(s, i, j) =
            [pages |-> Swapped(s.pages, ChunkSlot(i), ChunkSlot(j)),
             lats |-> Swapped(s.lats, i, j)]
      BY Zenon, <2>2
    <3>. QED
      BY <3>4, <3>5, <3>6 DEF S
  <2>. QED
    BY <2>1, <2>2
<1>. HIDE DEF Exchanged
<1>3. ASSUME NEW k \in 1..n, NEW s \in S
      PROVE  next(s, k) \in S
  <2>1. k - 1 \in Nat /\ ThisChunk \in Nat /\ ThisChunk > 0
    BY <1>1
  <2>2. (k - 1) % ThisChunk \in 0..ThisChunk - 1
        /\ (k - 1) \div ThisChunk \in Nat
    BY Zenon, <2>1, ModBelow
  <2>. QED
    BY Zenon, <2>2, <1>2
<1>4. start \in S
  OBVIOUS
<1>. HIDE DEF S, n, next, start
<1>5. StepOf(S, h)
  BY <1>3 DEF StepOf
<1>6. PICK g : Unfolds(S, start, h, n, g)
  BY Zenon, <1>1, <1>5, <1>4, UnfoldsAll DEF StepOf
<1>7. \A k \in 1..n : \A s \in S : h[k][s] = next(s, k)
  BY <1>1
<1>. HIDE DEF h
<1>8. g = Def(g)
  <2>1. /\ g \in [0..n -> S] /\ g[0] = start
        /\ \A k \in 1..n : g[k] = h[k][g[k - 1]]
    BY <1>6 DEF Unfolds
  <2>2. ASSUME NEW k \in 0..n, k # 0 PROVE g[k] = next(g[k - 1], k)
    <3>1. k \in 1..n /\ k - 1 \in 0..n
      BY <2>2, <1>1
    <3>2. g[k] = h[k][g[k - 1]] /\ g[k - 1] \in S
      BY <3>1, <2>1
    <3>. QED
      BY <3>1, <3>2, <1>7
  <2>. QED
    BY <2>1, <2>2
<1>9. sorted = Def(sorted)
  BY Zenon, <1>8
<1>. HIDE DEF sorted
<1>10. sorted[0] = start /\ \A k \in 1..n : sorted[k] = next(sorted[k - 1], k)
  BY <1>9, <1>1
<1>11. sorted[n] \in S
  <2>1. \A k \in 1..n : sorted[k - 1] \in S => sorted[k] = h[k][sorted[k - 1]]
    BY Zenon, <1>7, <1>10
  <2>2. \A k \in 0..n : sorted[k] \in S
    BY Zenon, <2>1, <1>1, <1>5, <1>4, <1>10, UnfoldsWithin
  <2>. QED
    BY <2>2, <1>1
<1>12. PageSort(list, ls, first) = sorted[n]
  BY Zenon DEF PageSort, sorted, n, next, start, Exchanged
<1>. QED
  BY <1>11, <1>12 DEF S

LEMMA DivMore ==
  ASSUME NEW a \in Nat, NEW b \in Nat, a <= b, NEW n \in Nat \ {0}
  PROVE  a \div n <= b \div n
  OBVIOUS

LEMMA DivOne ==
  ASSUME NEW a \in Nat, NEW n \in Nat \ {0}
  PROVE  /\ (a + n - 1) \div n \in Nat
         /\ a >= 1 => (a + n - 1) \div n \in 1..a
  OBVIOUS

LEMMA LenGrows ==
  ASSUME NEW s \in Nat
  PROVE  LenOf(s) \in Nat /\ LenOf(s) >= 1 /\ LenOf(s) <= LenOf(s + 1)
<1>1. PICK q, r : q = s \div 4 /\ r = s % 4
  OBVIOUS
<1>2. q \in Nat /\ r \in 0..3 /\ s = 4 * q + r
  BY <1>1
<1>3. PICK d \in Nat : d = TwoTo[q] /\ d > 0
  <2>1. TwoTo[q] \in Nat \ {0}
    BY <1>2, TwoToPositive
  <2>. QED
    BY <2>1
<1>4. LenOf(s) = (4 + r) * d
  BY Zenon, <1>1, <1>3 DEF LenOf
<1>5. CASE r = 3
  <2>1. (s + 1) \div 4 = q + 1 /\ (s + 1) % 4 = 0
    BY <1>2, <1>5
  <2>2. TwoTo[q + 1] = 2 * d
    BY Zenon, <1>2, <1>3, TwoToIs
  <2>3. LenOf(s + 1) = (4 + 0) * (2 * d)
    BY Zenon, <2>1, <2>2 DEF LenOf
  <2>. QED
    BY <1>3, <1>4, <1>5, <2>3
<1>6. CASE r # 3
  <2>1. (s + 1) \div 4 = q /\ (s + 1) % 4 = r + 1
    BY <1>2, <1>6
  <2>2. LenOf(s + 1) = (4 + (r + 1)) * d
    BY Zenon, <2>1, <1>3 DEF LenOf
  <2>3. r = 0 \/ r = 1 \/ r = 2
    BY <1>2, <1>6
  <2>. QED
    BY <1>3, <1>4, <2>2, <2>3
<1>. QED
  BY <1>5, <1>6

LEMMA LenMono ==
  ASSUME NEW s \in Nat
  PROVE  \A t \in Nat : s <= t => LenOf(s) <= LenOf(t)
<1>. DEFINE Off == {t \in Nat : s <= t /\ ~(LenOf(s) <= LenOf(t))}
<1>1. ASSUME Off # {}
      PROVE  FALSE
  <2>0. Off \in SUBSET Nat
    BY Zenon
  <2>1. PICK t \in Off : \A l \in Off : t <= l
    BY Zenon, <1>1, <2>0, LeastNatural
  <2>2. t # s
    BY <2>1, LenGrows
  <2>3. t - 1 \in Nat /\ s <= t - 1 /\ ~(t <= t - 1) /\ (t - 1) + 1 = t
        /\ t \in Nat
    BY <2>1, <2>2
  <2>4. LenOf(s) <= LenOf(t - 1)
    BY Zenon, <2>1, <2>3
  <2>5. LenOf(t - 1) \in Nat /\ LenOf(t - 1) <= LenOf((t - 1) + 1)
    BY Zenon, <2>3, LenGrows
  <2>6. LenOf(s) \in Nat /\ LenOf(t) \in Nat
    BY Zenon, <2>3, LenGrows
  <2>7. LenOf(s) <= LenOf(t)
    BY <2>3, <2>4, <2>5, <2>6
  <2>. QED
    BY Zenon, <2>1, <2>7
<1>. QED
  BY Zenon, <1>1

\* No sample has more pages than the largest.
LEMMA PagesIn ==
  ASSUME NEW s \in 0..Samples - 1
  PROVE  PagesOf(s) \in 1..Total /\ Total \in Nat
<1>1. Samples \in Nat /\ Samples >= 2 /\ PageUnits \in Nat \ {0}
  BY SearchAssumption
<1>2. s \in Nat /\ Samples - 1 \in Nat /\ s <= Samples - 1
  BY <1>1
<1>3. PICK a \in Nat, b \in Nat, u \in Nat \ {0} :
         a = LenOf(s) /\ b = LenOf(Samples - 1) /\ u = PageUnits
  BY Zenon, <1>1, <1>2, LenGrows
<1>4. 1 <= a /\ a <= b
  BY Zenon, <1>2, <1>3, LenGrows, LenMono
<1>5. a + u - 1 \in Nat /\ b + u - 1 \in Nat /\ a + u - 1 <= b + u - 1
  BY <1>3, <1>4
<1>6. (a + u - 1) \div u <= (b + u - 1) \div u
  BY Zenon, <1>5, DivMore
<1>7. (a + u - 1) \div u \in 1..a /\ (b + u - 1) \div u \in Nat
  BY <1>3, <1>4, DivOne
<1>8. PagesOf(s) = (a + u - 1) \div u /\ Total = (b + u - 1) \div u
  BY Zenon, <1>3 DEF PagesOf, Total
<1>. QED
  BY <1>6, <1>7, <1>8

\* The calls of test_chunk() that wait for the one that runs.
Calls == [chunk : 1..N, chunkEnd : 0..N, nodiff : Nat, modified : BOOLEAN,
          low : Nat]

PagesParts ==
    /\ pageset \in Arranged(0..Total - 1) /\ avail \in Nat
    /\ spc \in {"test", "keep", "replace"} =>
         /\ at \in 0..N /\ chunk \in 1..N /\ chunkEnd \in 0..N
         /\ outer \in Seq(Calls) /\ nodiff \in Nat /\ modified \in BOOLEAN
    /\ spc \in {"keep", "replace"} =>
         /\ at < chunkEnd /\ low \in Nat
         /\ lats \in LatsOf /\ fj \in 0..ThisChunk /\ fk \in Nat
    /\ spc = "keep" => fj <= fk /\ fk <= ThisChunk
    /\ spc = "replace" => Spare # 1 /\ (Spare = 0 => fj = ThisChunk)

\* As long as nothing was backed out, the list is a rearrangement of the
\* pages, and the chunk lies within it.
PagesInv == SearchInv /\ (~backedOut => PagesParts)

LEMMA PagesStart ==
  SearchInit => PagesInv
<1>. SUFFICES ASSUME SearchInit PROVE PagesInv
  OBVIOUS
<1>1. SearchInv
  BY SearchStarts
<1>2. spc \in {"last", "double"} /\ avail = 0
      /\ pageset = [i \in 0..Total - 1 |-> i]
  BY DEF SearchInit, SearchStart
<1>3. pageset \in Arranged(0..Total - 1)
  BY <1>2 DEF Arranged
<1>. QED
  BY <1>1, <1>2, <1>3 DEF PagesInv, PagesParts

\* A sample that is taken.
LEMMA TakenPages ==
  ASSUME SearchInv, spc \in Collecting
  PROVE  N \in 1..Total /\ Total \in Nat
<1>1. CacheInv
  BY DEF SearchInv, TlbInv, Collecting
<1>2. work \in Seq(Pairs) /\ Len(work) >= 2
  BY <1>1 DEF CacheInv, CacheParts, Stuck, Collecting, SearchTypes,
              EndsMeasured
<1>3. work[1][1] \in Place0 /\ work[2][1] \in Place0
  BY <1>2 DEF Pairs
<1>4. {work[1][1], work[2][1]} \in SUBSET (0..Samples - 1)
      /\ {work[1][1], work[2][1]} # {} /\ Samples - 1 \in Nat
  BY <1>3, SearchConstants DEF Place0
<1>5. Taken \in 0..Samples - 1
  BY Zenon, <1>4, MaxIn DEF Taken
<1>. QED
  BY Zenon, <1>5, PagesIn DEF N

LEMMA ThisChunkIs ==
  ASSUME N \in Nat, at \in 0..N, chunk \in 1..N, chunkEnd \in 0..N,
         at < chunkEnd
  PROVE  ThisChunk \in 1..N /\ at + ThisChunk <= chunkEnd
<1>1. PICK n \in Nat : n = N
  OBVIOUS
<1>2. {chunk, chunkEnd - at} \in SUBSET Nat /\ {chunk, chunkEnd - at} # {}
  BY <1>1
<1>3. \E x \in {chunk, chunkEnd - at} :
         \A y \in {chunk, chunkEnd - at} : x <= y
  BY Zenon, <1>2, LeastNatural
<1>4. ThisChunk = Min({chunk, chunkEnd - at})
  BY DEF ThisChunk
<1>5. ThisChunk \in {chunk, chunkEnd - at} /\ ThisChunk <= chunkEnd - at
  BY Zenon, <1>3, <1>4 DEF Min
<1>. QED
  BY <1>1, <1>5

LEMMA ChunkIn ==
  ASSUME SearchInv, PagesParts, spc \in {"test", "keep", "replace"},
         at < chunkEnd
  PROVE  /\ ChunkFits /\ ThisChunk \in 1..N /\ at + ThisChunk <= chunkEnd
         /\ at + ThisChunk \in 0..N
<1>1. N \in 1..Total /\ Total \in Nat
  BY TakenPages DEF Collecting
<1>2. at \in 0..N /\ chunk \in 1..N /\ chunkEnd \in 0..N
  BY DEF PagesParts
<1>3. ThisChunk \in 1..N /\ at + ThisChunk <= chunkEnd
  BY <1>1, <1>2, ThisChunkIs
<1>. QED
  BY <1>1, <1>2, <1>3 DEF ChunkFits

LEMMA LastSlot ==
  ASSUME ChunkFits, ThisChunk \in 1..N
  PROVE  ChunkSlot(ThisChunk - 1) = N - 1 /\ N - 1 \in 0..Total - 1
<1>1. PICK n, c : n = N /\ c = ThisChunk
  OBVIOUS
<1>2. n \in Nat /\ n <= Total /\ Total \in Nat /\ c \in 1..n
  BY <1>1 DEF ChunkFits
<1>3. ChunkSlot(ThisChunk - 1) = n - c + (c - 1)
  BY <1>1 DEF ChunkSlot
<1>. QED
  BY <1>1, <1>2, <1>3

\* What the other steps leave alone.
LEMMA PagesQuiet ==
  ASSUME PagesParts, SearchInv,
         UNCHANGED <<pageset, avail>>,
         spc' \notin {"test", "keep", "replace"}
  PROVE  PagesParts'
  BY DEF PagesParts

LEMMA PartsIn ==
  ASSUME NEW n \in Nat, n >= 1
  PROVE  PartsOf(n) \in 1..n
  BY SearchAssumption, DivOne DEF PartsOf

\* Latencies are numbers.
LEMMA BaseIs ==
  ASSUME SearchInv, spc \in Collecting
  PROVE  base \in Nat /\ Times \subseteq Nat
<1>1. CacheInv
  BY DEF SearchInv, TlbInv, Collecting
<1>. QED
  BY <1>1, SearchAssumption DEF CacheInv, CacheParts, Stuck, Collecting,
     SearchTypes

LEMMA SampleStarts ==
  ASSUME SearchInv, PagesParts, Sample
  PROVE  PagesParts'
<1>1. N \in 1..Total /\ Total \in Nat
  BY TakenPages DEF Sample, Collecting
<1>2. /\ UNCHANGED <<pageset, avail, work>> /\ at' = 0
      /\ chunk' = PartsOf(N) /\ chunkEnd' = N /\ outer' = <<>>
      /\ nodiff' \in Nat /\ modified' = FALSE
      /\ spc' \in {"test", "sampled"}
  BY SearchAssumption DEF Sample, sampleVars
<1>3. N' = N
  BY <1>2 DEF N, Taken
<1>4. at' \in 0..N' /\ chunk' \in 1..N' /\ chunkEnd' \in 0..N'
  BY <1>1, <1>2, <1>3, PartsIn
<1>5. outer' \in Seq(Calls')
  BY <1>2
<1>6. pageset' \in Arranged(0..Total - 1) /\ avail' \in Nat
  BY <1>2 DEF PagesParts
<1>7. spc' \notin {"keep", "replace"} /\ modified' \in BOOLEAN
  BY <1>2
<1>. QED
  BY Zenon, <1>2, <1>4, <1>5, <1>6, <1>7 DEF PagesParts

LEMMA ChunkKept ==
  ASSUME SearchInv, PagesParts, KeepChunk
  PROVE  PagesParts'
<1>1. at < chunkEnd /\ spc = "test"
  BY DEF KeepChunk
<1>2. at + ThisChunk \in 0..N
  BY <1>1, ChunkIn
<1>3. /\ UNCHANGED <<pageset, avail, work, chunk, chunkEnd, outer, nodiff,
                     modified, spc>>
      /\ at' = at + ThisChunk
  BY DEF KeepChunk, sampleVars
<1>4. N' = N
  BY <1>3 DEF N, Taken
<1>5. Calls' = Calls
  BY <1>4 DEF Calls
<1>. QED
  BY <1>1, <1>2, <1>3, <1>4, <1>5 DEF PagesParts

LEMMA ChunkDivided ==
  ASSUME SearchInv, PagesParts, DivideChunk
  PROVE  PagesParts'
<1>1. /\ at < chunkEnd /\ spc = "test" /\ outer \in Seq(Calls)
      /\ at \in 0..N /\ chunk \in 1..N /\ chunkEnd \in 0..N /\ nodiff \in Nat
      /\ modified \in BOOLEAN
  BY DEF PagesParts, DivideChunk
<1>2. ThisChunk \in 1..N /\ at + ThisChunk \in 0..N /\ N \in Nat
  BY <1>1, ChunkIn DEF ChunkFits
<1>3. PICK t \in Times :
         outer' = <<[chunk |-> chunk, chunkEnd |-> chunkEnd, nodiff |-> nodiff,
                     modified |-> modified, low |-> t]>> \o outer
  BY Zenon DEF DivideChunk
<1>4. /\ UNCHANGED <<pageset, avail, work, at, spc>>
      /\ chunkEnd' = at + ThisChunk /\ chunk' = PartsOf(ThisChunk)
      /\ nodiff' = base /\ modified' = FALSE
  BY DEF DivideChunk, sampleVars
<1>5. N' = N
  BY <1>4 DEF N, Taken
<1>6. Calls' = Calls
  BY <1>5 DEF Calls
<1>7. base \in Nat /\ t \in Nat
  BY <1>1, BaseIs DEF Collecting
<1>8. outer' \in Seq(Calls)
  <2>1. PICK c \in Calls : c = [chunk |-> chunk, chunkEnd |-> chunkEnd,
                                nodiff |-> nodiff, modified |-> modified,
                                low |-> t]
    BY <1>1, <1>7 DEF Calls
  <2>. QED
    BY <2>1, <1>1, <1>3
<1>9. PartsOf(ThisChunk) \in 1..N
  <2>1. PICK c \in Nat : c = ThisChunk /\ c >= 1 /\ c <= N
    BY <1>2
  <2>2. PartsOf(c) \in 1..c
    BY <2>1, PartsIn
  <2>. QED
    BY <2>1, <2>2, <1>2
<1>. QED
  BY <1>1, <1>2, <1>4, <1>5, <1>6, <1>7, <1>8, <1>9 DEF PagesParts

LEMMA PartEnds ==
  ASSUME SearchInv, PagesParts, PartDone
  PROVE  PagesParts'
<1>1. /\ spc = "test" /\ outer \in Seq(Calls) /\ outer # <<>>
      /\ at \in 0..N /\ modified \in BOOLEAN
  BY DEF PagesParts, PartDone
<1>2. outer[1] \in Calls /\ Tail(outer) \in Seq(Calls)
  BY <1>1
<1>3. /\ UNCHANGED <<pageset, avail, work, at, spc>>
      /\ outer' = Tail(outer)
      /\ chunk' = outer[1].chunk /\ chunkEnd' = outer[1].chunkEnd
      /\ modified' = (modified \/ outer[1].modified)
      /\ nodiff' \in {outer[1].nodiff, outer[1].low}
  BY DEF PartDone, sampleVars
<1>4. N' = N
  BY <1>3 DEF N, Taken
<1>5. Calls' = Calls
  BY <1>4 DEF Calls
<1>6. /\ outer[1].chunk \in 1..N /\ outer[1].chunkEnd \in 0..N
      /\ outer[1].nodiff \in Nat /\ outer[1].low \in Nat
  BY <1>2 DEF Calls
<1>7. modified' \in BOOLEAN
  BY <1>3
<1>. QED
  BY <1>1, <1>2, <1>3, <1>4, <1>5, <1>6, <1>7 DEF PagesParts

LEMMA ChunkSuspected ==
  ASSUME SearchInv, PagesParts, SuspectChunk
  PROVE  PagesParts'
<1>1. /\ at < chunkEnd /\ spc = "test" /\ avail \in Nat
      /\ pageset \in Arranged(0..Total - 1)
  BY DEF PagesParts, SuspectChunk
<1>2. ChunkFits /\ ThisChunk \in 1..N
  BY <1>1, ChunkIn
<1>3. /\ UNCHANGED <<work, chunk, at, chunkEnd, outer, nodiff,
                     modified>>
      /\ pageset' = MoveChunk(pageset)
      /\ fj' = 0 /\ fk' = ThisChunk
      /\ lats' = [j \in 0..ThisChunk - 1 |-> 0]
      /\ avail' \in {0, avail} /\ spc' = "keep" /\ low' \in Nat
  BY SearchAssumption DEF SuspectChunk, sampleVars
<1>4. N' = N /\ ThisChunk' = ThisChunk
  BY <1>3 DEF N, Taken, ThisChunk
<1>5. pageset' \in Arranged(0..Total - 1) /\ avail' \in Nat
  BY <1>1, <1>2, <1>3, MoveArranged
<1>6. lats' \in LatsOf /\ LatsOf' = LatsOf /\ ThisChunk \in Nat
  BY <1>2, <1>3, <1>4 DEF LatsOf, ChunkFits
<1>7. fj' \in 0..ThisChunk /\ fk' \in Nat /\ fj' <= fk' /\ fk' <= ThisChunk
  BY <1>3, <1>6
<1>8. Calls' = Calls
  BY <1>4 DEF Calls
<1>. QED
  BY <1>1, <1>3, <1>4, <1>5, <1>6, <1>7, <1>8 DEF PagesParts

LEMMA PassEnds ==
  ASSUME SearchInv, PagesParts, NextPass
  PROVE  PagesParts'
<1>1. spc = "test" /\ base \in Nat
  BY BaseIs DEF NextPass, Collecting
<1>2. /\ UNCHANGED <<pageset, avail, work, chunk, chunkEnd, outer>>
      /\ \/ spc' = "test" /\ at' = 0 /\ nodiff' = base /\ modified' = FALSE
         \/ spc' = "sampled"
  BY <1>1 DEF NextPass, sampleVars
<1>3. N' = N /\ N \in 1..Total /\ Total \in Nat
  BY <1>1, <1>2, TakenPages DEF N, Taken, Collecting
<1>4. Calls' = Calls
  BY <1>3 DEF Calls
<1>5. CASE spc' = "sampled"
  BY <1>2, <1>5 DEF PagesParts
<1>6. CASE spc' = "test"
  <2>1. at' = 0 /\ nodiff' = base /\ modified' = FALSE
    <3>1. spc' # "sampled"
      BY <1>6
    <3>. QED
      BY Zenon, <3>1, <1>2
  <2>2. 0 \in 0..N
    BY <1>3
  <2>3. modified' \in BOOLEAN
    BY Zenon, <2>1
  <2>4. /\ pageset \in Arranged(0..Total - 1) /\ avail \in Nat
        /\ chunk \in 1..N /\ chunkEnd \in 0..N /\ outer \in Seq(Calls)
    BY <1>1 DEF PagesParts
  <2>5. spc' \notin {"keep", "replace"}
    BY <1>6
  <2>. QED
    BY Zenon, <2>1, <2>2, <2>3, <2>4, <2>5, <1>1, <1>2, <1>3, <1>4
    DEF PagesParts
<1>. QED
  BY <1>2, <1>5, <1>6

LEMMA PagesTried ==
  ASSUME SearchInv, PagesParts, KeepPages
  PROVE  PagesParts'
<1>1. /\ spc = "keep" /\ at < chunkEnd
      /\ fj < fk /\ lats \in LatsOf /\ fj \in Nat /\ fk \in Nat
      /\ fk <= ThisChunk /\ pageset \in Arranged(0..Total - 1)
  BY DEF PagesParts, KeepPages
<1>2. ChunkFits /\ ThisChunk \in 1..N
  BY <1>1, ChunkIn
<1>3. UNCHANGED <<spc, work, avail, chunkVars>>
  BY DEF KeepPages, sampleVars
<1>4. N' = N /\ ThisChunk' = ThisChunk /\ LatsOf' = LatsOf /\ Calls' = Calls
  BY <1>3 DEF N, Taken, ThisChunk, LatsOf, Calls, chunkVars
<1>5. PICK t \in Times :
        \/ /\ lats' = [lats EXCEPT ![fj] = t] /\ fj' = fj + 1
           /\ fk' = fk /\ pageset' = pageset
        \/ /\ lats' = [lats EXCEPT ![fk - 1] = t] /\ fk' = fk - 1
           /\ pageset' = Swapped(pageset, ChunkSlot(fj), ChunkSlot(fk - 1))
           /\ fj' = fj
  BY DEF KeepPages
<1>6. t \in Nat /\ ThisChunk \in Nat
  BY <1>2, SearchAssumption DEF ChunkFits
<1>7. fj \in 0..ThisChunk - 1 /\ fk - 1 \in 0..ThisChunk - 1
  BY <1>1, <1>6
<1>8. lats' \in LatsOf
  BY <1>1, <1>5, <1>6, <1>7 DEF LatsOf
<1>9. ChunkSlot(fj) \in 0..Total - 1 /\ ChunkSlot(fk - 1) \in 0..Total - 1
  BY Zenon, <1>2, <1>7, SlotIn
<1>10. pageset' \in Arranged(0..Total - 1)
  BY <1>1, <1>5, <1>9, SwappedArranged
<1>11. /\ fj' \in 0..ThisChunk /\ fk' \in Nat /\ fj' <= fk'
       /\ fk' <= ThisChunk
  BY <1>1, <1>5, <1>6
<1>. QED
  BY <1>1, <1>3, <1>4, <1>8, <1>10, <1>11
  DEF PagesParts, chunkVars

LEMMA BadSorted ==
  ASSUME SearchInv, PagesParts, SortBad
  PROVE  PagesParts'
<1>1. /\ spc = "keep" /\ at < chunkEnd
      /\ lats \in LatsOf /\ fj \in 0..ThisChunk
      /\ pageset \in Arranged(0..Total - 1) /\ avail \in Nat
  BY DEF PagesParts, SortBad
<1>2. ChunkFits /\ ThisChunk \in 1..N
  BY <1>1, ChunkIn
<1>3. /\ UNCHANGED <<work, avail, fj, chunkVars>>
      /\ lats' = PageSort(pageset, lats, fj).lats
      /\ pageset' = PageSort(pageset, lats, fj).pages
      /\ fk' = 0
  BY DEF SortBad, sampleVars
<1>4. /\ N' = N /\ ThisChunk' = ThisChunk /\ LatsOf' = LatsOf
      /\ Spare' = Spare /\ Calls' = Calls
  BY <1>3 DEF N, Taken, ThisChunk, LatsOf, Spare, Calls, chunkVars
<1>5. fj \in Nat
  BY <1>1, <1>2
<1>6. lats' \in LatsOf /\ pageset' \in Arranged(0..Total - 1)
  BY Zenon, <1>1, <1>2, <1>3, <1>5, SortArranged
<1>7. Spare \in Nat
  <2>1. PICK n \in Nat : n = N /\ n <= Total /\ Total \in Nat
    BY <1>2 DEF ChunkFits
  <2>2. Spare = Total - n
    BY <2>1 DEF Spare
  <2>. QED
    BY <2>1, <2>2
<1>8. /\ spc' \in {"undefined", "trapped", "replace"}
      /\ spc' = "replace" => Spare # 1 /\ (Spare = 0 => fj = ThisChunk)
  <2>1. spc' = CASE Spare = 0 /\ fj < ThisChunk -> "undefined"
                 [] Spare = 1 -> "trapped"
                 [] OTHER -> "replace"
    BY DEF SortBad
  <2>2. PICK c \in Nat, j \in Nat : c = ThisChunk /\ j = fj /\ j <= c
    BY <1>1, <1>2
  <2>. QED
    BY <1>7, <2>1, <2>2
<1>. QED
  BY <1>1, <1>3, <1>4, <1>6, <1>8 DEF PagesParts, chunkVars

LEMMA SpareSlot ==
  ASSUME ChunkFits, Spare >= 2, NEW k \in Nat, avail \in Nat
  PROVE  /\ N + Spare - 1 - ((k + avail) % (Spare - 1)) \in 0..Total - 1
         /\ (k + avail) % (Spare - 1) \in Nat
<1>1. PICK n, s : n = N /\ s = Spare
  OBVIOUS
<1>2. n \in Nat /\ Total \in Nat /\ n <= Total /\ s = Total - n /\ s >= 2
  BY <1>1 DEF ChunkFits, Spare
<1>3. s - 1 \in Nat /\ s - 1 > 0 /\ k + avail \in Nat
  BY <1>2
<1>4. PICK m \in 0..(s - 1) - 1 : m = (k + avail) % (s - 1)
  BY Zenon, <1>3, ModBelow
<1>5. n + s - 1 - m \in 0..Total - 1
  BY <1>2, <1>4
<1>. QED
  BY <1>1, <1>4, <1>5

LEMMA PagesReplaced ==
  ASSUME SearchInv, PagesParts, Replace
  PROVE  PagesParts'
<1>. DEFINE spare == N + Spare - 1 - ((fk + avail) % (Spare - 1))
            better(t) == t < lats[ThisChunk - 1]
            swap == Swapped(pageset, N - 1, spare)
            ls(t) == [lats EXCEPT ![ThisChunk - 1] = t]
            sorted(t) == IF better(t) THEN PageSort(swap, ls(t), fj)
                                      ELSE [pages |-> pageset, lats |-> lats]
<1>1. /\ spc = "replace" /\ at < chunkEnd
      /\ lats \in LatsOf /\ fj \in 0..ThisChunk /\ fj < ThisChunk
      /\ fk \in Nat /\ pageset \in Arranged(0..Total - 1) /\ avail \in Nat
      /\ Spare # 1 /\ (Spare = 0 => fj = ThisChunk)
  BY DEF PagesParts, Replace
<1>2. ChunkFits /\ ThisChunk \in 1..N /\ ThisChunk \in Nat /\ fj \in Nat
      /\ Spare >= 2
  <2>1. ChunkFits /\ ThisChunk \in 1..N
    BY <1>1, ChunkIn
  <2>2. PICK n \in Nat, c \in Nat, j \in Nat, a \in Nat :
           /\ n = N /\ c = ThisChunk /\ j = fj /\ a = Total
           /\ n <= a /\ j <= c
    BY <1>1, <2>1 DEF ChunkFits
  <2>3. Spare = a - n
    BY <2>2 DEF Spare
  <2>4. j < c /\ a - n # 1 /\ a - n # 0
    BY <1>1, <2>2, <2>3
  <2>. QED
    BY <2>1, <2>2, <2>3, <2>4
<1>3. UNCHANGED <<spc, work, avail, chunkVars>> /\ fk' = fk + 1
  BY DEF Replace, sampleVars
<1>4. /\ N' = N /\ ThisChunk' = ThisChunk /\ LatsOf' = LatsOf
      /\ Spare' = Spare /\ Calls' = Calls
  BY <1>3 DEF N, Taken, ThisChunk, LatsOf, Spare, Calls, chunkVars
<1>5. PICK t \in Times : /\ lats' = sorted(t).lats
                         /\ pageset' = sorted(t).pages
                         /\ fj' \in {fj, fj + 1}
  BY DEF Replace
<1>6. spare \in 0..Total - 1 /\ N - 1 \in 0..Total - 1
  BY Zenon, <1>1, <1>2, SpareSlot, LastSlot
<1>. HIDE DEF spare
<1>7. swap \in Arranged(0..Total - 1)
  BY Zenon, <1>1, <1>6, SwappedArranged
<1>8. ls(t) \in LatsOf
  <2>1. t \in Nat
    BY SearchAssumption
  <2>. QED
    BY <1>1, <2>1 DEF LatsOf
<1>. HIDE DEF swap, ls
<1>9. /\ PageSort(swap, ls(t), fj).pages \in Arranged(0..Total - 1)
      /\ PageSort(swap, ls(t), fj).lats \in LatsOf
  BY Zenon, <1>2, <1>7, <1>8, SortArranged
<1>10. lats' \in LatsOf /\ pageset' \in Arranged(0..Total - 1)
  <2>1. CASE better(t)
    BY Zenon, <2>1, <1>5, <1>9
  <2>2. CASE ~better(t)
    <3>. HIDE DEF better
    <3>1. sorted(t) = [pages |-> pageset, lats |-> lats]
      BY Zenon, <2>2
    <3>. QED
      BY <3>1, <1>1, <1>5
  <2>. QED
    BY <2>1, <2>2
<1>11. fj' \in 0..ThisChunk /\ fk' \in Nat
  BY <1>1, <1>2, <1>3, <1>5
<1>. QED
  BY <1>1, <1>3, <1>4, <1>10, <1>11 DEF PagesParts, chunkVars

LEMMA ChunkReplaced ==
  ASSUME SearchInv, PagesParts, Replaced, ~backedOut'
  PROVE  PagesParts'
<1>1. /\ spc = "replace" /\ at < chunkEnd /\ chunk \in 1..N
      /\ chunkEnd \in 0..N
      /\ outer \in Seq(Calls) /\ nodiff \in Nat /\ modified \in BOOLEAN
      /\ fk \in Nat /\ low \in Nat /\ Spare # 1
      /\ pageset \in Arranged(0..Total - 1) /\ avail \in Nat
  BY DEF PagesParts, Replaced
<1>2. ChunkFits /\ at + ThisChunk \in 0..N
  BY <1>1, ChunkIn
<1>3. /\ UNCHANGED <<work, chunk, chunkEnd, outer>> /\ spc' = "test"
      /\ at' = at + ThisChunk
      /\ avail' = IF Spare = 0 THEN fk + avail ELSE (fk + avail) % (Spare - 1)
  BY Zenon DEF Replaced, sampleVars
<1>4. /\ pageset' = pageset \/ pageset' = MoveChunk(pageset)
      /\ nodiff' = nodiff \/ nodiff' = low
      /\ modified' = modified \/ modified' = TRUE
  BY DEF Replaced
<1>5. N' = N
  BY <1>3 DEF N, Taken
<1>6. pageset' \in Arranged(0..Total - 1)
  BY Zenon, <1>1, <1>2, <1>4, MoveArranged
<1>7. avail' \in Nat
  <2>1. CASE Spare = 0
    BY <2>1, <1>1, <1>3
  <2>2. CASE Spare # 0
    <3>1. PICK n \in Nat, a \in Nat : n = N /\ a = Total /\ n <= a
      BY <1>2 DEF ChunkFits
    <3>2. Spare = a - n
      BY <3>1 DEF Spare
    <3>3. Spare >= 2
      BY <2>2, <3>1, <3>2, <1>1
    <3>. QED
      BY Zenon, <2>2, <3>3, <1>1, <1>2, <1>3, SpareSlot
  <2>. QED
    BY <2>1, <2>2
<1>8. Calls' = Calls
  BY <1>5 DEF Calls
<1>9. modified' \in BOOLEAN /\ nodiff' \in Nat
  BY Zenon, <1>1, <1>4
<1>. QED
  BY <1>1, <1>2, <1>3, <1>5, <1>6, <1>7, <1>8, <1>9 DEF PagesParts

LEMMA PagesNext ==
  PagesInv /\ [SearchNext]_searchVars => PagesInv'
<1>. SUFFICES ASSUME PagesInv, [SearchNext]_searchVars PROVE PagesInv'
  OBVIOUS
<1>1. SearchInv /\ SearchInv'
  BY SearchInvNext, SearchInvStutter DEF PagesInv
<1>2. ASSUME ~backedOut'
      PROVE  PagesParts'
  <2>1. ~backedOut
    BY <1>2 DEF searchVars, fixVars, SearchNext, LastSample, FirstSample,
       Search, SearchDone, Sample, KeepChunk, DivideChunk, PartDone,
         SuspectChunk, NextPass, Sampled,
       KeepPages, SortBad, Replace, Replaced, Level, Double, NoTlb, Halve,
       TlbFound
  <2>2. PagesParts
    BY <2>1 DEF PagesInv
  <2>3. CASE UNCHANGED searchVars
    <3>1. UNCHANGED <<spc, work, pageset, avail, chunkVars, lats, fj, fk>>
      BY <2>3 DEF searchVars, sampleVars, fixVars
    <3>2. N' = N /\ ThisChunk' = ThisChunk /\ LatsOf' = LatsOf
          /\ Spare' = Spare /\ Calls' = Calls
      BY <3>1 DEF N, Taken, ThisChunk, LatsOf, Spare, Calls, chunkVars
    <3>. QED
      BY <2>2, <3>1, <3>2 DEF PagesParts, chunkVars
  <2>4. CASE LastSample \/ FirstSample \/ Search \/ SearchDone \/ Sampled
             \/ Level
    <3>1. UNCHANGED <<pageset, avail>>
      BY <2>4 DEF LastSample, FirstSample, Search, SearchDone, Sampled, Level
    <3>2. spc' \notin {"test", "keep", "replace"}
      BY <2>4 DEF LastSample, FirstSample, Search, SearchDone, Sampled, Level
    <3>. QED
      BY <1>1, <2>2, <3>1, <3>2, PagesQuiet
  <2>5. CASE Double \/ NoTlb \/ Halve \/ TlbFound
    <3>1. UNCHANGED <<pageset, avail>>
      BY <2>5 DEF Double, NoTlb, Halve, TlbFound
    <3>2. spc' \notin {"test", "keep", "replace"}
      BY <2>5 DEF Double, NoTlb, Halve, TlbFound
    <3>. QED
      BY <1>1, <2>2, <3>1, <3>2, PagesQuiet
  <2>6. CASE Sample
    BY Zenon, <1>1, <2>2, <2>6, SampleStarts
  <2>7. CASE KeepChunk
    BY Zenon, <1>1, <2>2, <2>7, ChunkKept
  <2>8. CASE SuspectChunk
    BY Zenon, <1>1, <2>2, <2>8, ChunkSuspected
  <2>9. CASE DivideChunk
    BY Zenon, <1>1, <2>2, <2>9, ChunkDivided
  <2>10. CASE PartDone
    BY Zenon, <1>1, <2>2, <2>10, PartEnds
  <2>11. CASE NextPass
    BY Zenon, <1>1, <2>2, <2>11, PassEnds
  <2>12. CASE KeepPages
    BY Zenon, <1>1, <2>2, <2>12, PagesTried
  <2>13. CASE SortBad
    BY Zenon, <1>1, <2>2, <2>13, BadSorted
  <2>14. CASE Replace
    BY Zenon, <1>1, <2>2, <2>14, PagesReplaced
  <2>15. CASE Replaced
    BY Zenon, <1>1, <1>2, <2>2, <2>15, ChunkReplaced
  <2>. QED
    BY <2>3, <2>4, <2>5, <2>6, <2>7, <2>8, <2>9, <2>10, <2>11, <2>12, <2>13,
       <2>14, <2>15 DEF SearchNext
<1>. QED
  BY <1>1, <1>2 DEF PagesInv

LEMMA ArrangedKept ==
  PagesInv => PagesKept
  BY DEF PagesInv, PagesParts, PagesKept, APermutation, Arranged

\* The list of pages has every page once as long as nothing had to be backed
\* out, for any sizes, times and failures to find a better page.
THEOREM SearchKeepsPages ==
  SearchSpec => []PagesKept
<1>1. SearchInit => PagesInv
  BY PagesStart
<1>2. PagesInv /\ [SearchNext]_searchVars => PagesInv'
  BY PagesNext
<1>3. PagesInv => PagesKept
  BY ArrangedKept
<1>. QED
  BY <1>1, <1>2, <1>3, PTL DEF SearchSpec

-----------------------------------------------------------------------------
(* Places in a mask.                                                       *)

Below(s, i) == {j \in s : j < i}

LEMMA BelowFinite ==
  ASSUME NEW b \in Nat, NEW s \in SUBSET (0..b), NEW i
  PROVE  /\ IsFiniteSet(s) /\ Cardinality(s) \in Nat
         /\ IsFiniteSet(Below(s, i)) /\ Cardinality(Below(s, i)) \in Nat
<1>1. IsFiniteSet(0..b)
  BY FS_Interval
<1>2. IsFiniteSet(s)
  BY <1>1, FS_Subset
<1>3. Below(s, i) \in SUBSET s
  BY DEF Below
<1>4. IsFiniteSet(Below(s, i))
  BY <1>2, <1>3, FS_Subset
<1>. QED
  BY <1>2, <1>4, FS_CardinalityType

\* Below the highest of those below i is all but itself.
LEMMA BelowHighest ==
  ASSUME NEW b \in Nat, NEW s \in SUBSET (0..b), s # {}
  PROVE  \E m \in s : Cardinality(Below(s, m)) = Cardinality(s) - 1
<1>1. PICK m \in s : \A y \in s : m >= y
  BY GreatestIn
<1>2. Below(s, m) = s \ {m}
  <2>. SUFFICES ASSUME NEW j \in s PROVE j < m <=> j # m
    BY DEF Below
  <2>1. j \in Int /\ m \in Int /\ m >= j
    BY <1>1
  <2>. QED
    BY <2>1
<1>3. IsFiniteSet(s)
  BY BelowFinite
<1>4. Cardinality(s \ {m}) = Cardinality(s) - 1
  BY <1>3, FS_RemoveElement
<1>. QED
  BY <1>2, <1>4

\* A set has as many places, from 0 on, as elements.
LEMMA RankExists ==
  ASSUME NEW b \in Nat, NEW s \in SUBSET (0..b),
         NEW k \in Nat, k < Cardinality(s)
  PROVE  \E i \in s : Cardinality(Below(s, i)) = k
<1>. DEFINE D == {i \in s : Cardinality(Below(s, i)) >= k}
<1>1. /\ IsFiniteSet(s) /\ Cardinality(s) \in Nat
      /\ \A i \in s : Cardinality(Below(s, i)) \in Nat
  BY BelowFinite
<1>2. s # {}
  BY FS_EmptySet
<1>3. PICK m \in s : Cardinality(Below(s, m)) = Cardinality(s) - 1
  BY <1>2, BelowHighest
<1>4. m \in D
  BY <1>1, <1>3
<1>5. D \in SUBSET Nat
  <2>1. D \subseteq s /\ s \subseteq Nat
    OBVIOUS
  <2>. QED
    BY Zenon, <2>1
<1>6. PICK i \in D : \A y \in D : i <= y
  <2>1. D # {}
    BY <1>4
  <2>. QED
    BY Zenon, <2>1, <1>5, LeastNatural
<1>7. i \in s /\ Cardinality(Below(s, i)) >= k
  BY <1>6
<1>8. ASSUME Cardinality(Below(s, i)) > k PROVE FALSE
  <2>. DEFINE t == Below(s, i)
  <2>1. t \in SUBSET (0..b) /\ t \in SUBSET s
    BY DEF Below
  <2>2. t # {}
    BY <1>8, FS_EmptySet
  <2>3. PICK h \in t : Cardinality(Below(t, h)) = Cardinality(t) - 1
    BY <2>1, <2>2, BelowHighest
  <2>4. h \in s /\ h < i
    BY <2>3 DEF Below
  <2>5. Below(t, h) = Below(s, h)
    <3>. SUFFICES ASSUME NEW j \in s, j < h PROVE j < i
      BY DEF Below
    <3>1. j \in Int /\ h \in Int /\ i \in Int
      BY <2>4, <1>7
    <3>. QED
      BY <3>1, <2>4
  <2>6. Cardinality(Below(s, h)) = Cardinality(Below(s, i)) - 1
    BY <2>3, <2>5
  <2>7. Cardinality(Below(s, h)) >= k
    BY <2>6, <1>8, <1>7, <1>1
  <2>8. h \in D
    BY <2>7, <2>4
  <2>9. i <= h
    BY <2>8, <1>6
  <2>. QED
    BY <2>9, <2>4, <1>7
<1>9. Cardinality(Below(s, i)) = k
  BY <1>8, <1>7, <1>1
<1>. QED
  BY <1>9, <1>7

-----------------------------------------------------------------------------
(* sched_pin().                                                            *)

Machine ==
    /\ host \in Hosts
    /\ host.parallel \in Nat /\ host.parallel > 0
    /\ host.online \in Nat /\ host.online > 0
    /\ host.partners \in Nat /\ host.allowed \subseteq Nat

LEMMA MachineOf ==
  host \in Hosts => Machine
  BY HostsAssumption DEF Machine

LEMMA BitsPositive ==
  IntBits \in Nat /\ IntBits > 0 /\ LongBits \in Nat /\ LongBits > 0
  BY PlacementAssumption

LEMMA MaskSize ==
  ASSUME Machine
  PROVE  /\ MaskWords \in Nat /\ MaskWords > 0
         /\ MaskWords * LongBits \in Nat /\ MaskWords * LongBits > 0
         /\ Slots \in SUBSET (0..MaskWords * LongBits)
<1>1. (2 * host.online) \div LongBits \in Nat
  BY BitsPositive DEF Machine
<1>2. MaskWords \in Nat /\ MaskWords > 0
  BY <1>1 DEF MaskWords
<1>3. \A m, n \in Nat : m > 0 /\ n > 0 => m * n \in Nat /\ m * n > 0
  OBVIOUS
<1>4. MaskWords * LongBits \in Nat /\ MaskWords * LongBits > 0
  BY <1>2, <1>3, BitsPositive
<1>5. Slots \in SUBSET (0..MaskWords * LongBits)
  BY <1>4 DEF Slots
<1>. QED
  BY <1>2, <1>4, <1>5

LEMMA SlotCount ==
  ASSUME Machine
  PROVE  IsFiniteSet(Slots) /\ Cardinality(Slots) \in Nat
  BY MaskSize, BelowFinite

\* The place of a mask that is taken for the k'th processor.
LEMMA SlotIs ==
  ASSUME Machine, NEW k \in Nat, k < Cardinality(Slots)
  PROVE  Slot(k) \in Slots /\ Cardinality(Below(Slots, Slot(k))) = k
<1>1. \E i \in Slots : Cardinality(Below(Slots, i)) = k
  BY MaskSize, RankExists
<1>. QED
  BY Zenon, <1>1 DEF Slot, Below

\* A bit below the sign of an int stays in its place.
LEMMA LowBit ==
  ASSUME NEW i \in Nat, i < IntBits - 1
  PROVE  Shifted(i) = {i}
<1>1. /\ i % LongBits \in Nat /\ i % LongBits <= i
      /\ ((i \div LongBits) * LongBits) + (i % LongBits) = i
  BY BitsPositive
<1>2. (i % LongBits) % IntBits = i % LongBits /\ i % LongBits # IntBits - 1
  BY <1>1, BitsPositive
<1>. QED
  BY <1>1, <1>2 DEF Shifted

\* As many places as there are processors are those of the processors.
LEMMA SlotAllowed ==
  ASSUME Machine, ~host.longer, \A c \in host.allowed : c < IntBits - 1,
         NEW k \in Nat, k < Cardinality(host.allowed)
  PROVE  /\ k < Cardinality(Slots) /\ k < host.online
         /\ Shifted(Slot(k)) \cap host.allowed = {Slot(k)}
<1>1. host.allowed \subseteq 0..MaskWords * LongBits - 1
      /\ Cardinality(host.allowed) <= host.online
  BY HostsAssumption DEF Machine, MaskWords
<1>2. host.allowed \in SUBSET Slots
  <2>. SUFFICES ASSUME NEW c \in host.allowed PROVE c \in Slots
    OBVIOUS
  <2>1. c \in Nat /\ c < IntBits - 1
    BY DEF Machine
  <2>2. Shifted(c) = {c}
    BY <2>1, LowBit
  <2>. QED
    BY <1>1, <2>2 DEF Slots
<1>3. /\ IsFiniteSet(Slots) /\ Cardinality(Slots) \in Nat
      /\ IsFiniteSet(host.allowed) /\ Cardinality(host.allowed) \in Nat
      /\ Cardinality(host.allowed) <= Cardinality(Slots)
  BY <1>2, SlotCount, FS_Subset, FS_CardinalityType
<1>4. k < Cardinality(Slots) /\ k < host.online
  BY <1>1, <1>3 DEF Machine
<1>5. PICK i \in Slots : i = Slot(k)
  BY <1>4, SlotIs
<1>6. Cardinality(Below(Slots, i)) = k
  BY <1>4, <1>5, SlotIs
<1>7. i \in Nat
  BY MaskSize
<1>8. i < IntBits - 1
  <2>. SUFFICES ASSUME i >= IntBits - 1 PROVE FALSE
    BY <1>7, BitsPositive
  <2>1. host.allowed \in SUBSET Below(Slots, i)
    <3>. SUFFICES ASSUME NEW c \in host.allowed
                  PROVE  c \in Slots /\ c < i
      BY DEF Below
    <3>1. c \in Nat /\ c < IntBits - 1
      BY DEF Machine
    <3>. QED
      BY <1>2, <1>7, <3>1, BitsPositive
  <2>2. IsFiniteSet(Below(Slots, i))
    BY MaskSize, BelowFinite
  <2>3. Cardinality(host.allowed) <= Cardinality(Below(Slots, i))
    BY <2>1, <2>2, FS_Subset
  <2>. QED
    BY <2>3, <1>6, <1>3
<1>9. Shifted(i) = {i}
  BY <1>7, <1>8, LowBit
<1>10. i \in host.allowed
  BY <1>9 DEF Slots
<1>. QED
  BY <1>4, <1>5, <1>9, <1>10

-----------------------------------------------------------------------------
(* handle_scheduler().                                                     *)

\* Where the policies put a process that are not the user's own.
Own == {"SINGLE", "BALANCED", "BALANCED_SPREAD", "UNIQUE", "UNIQUE_SPREAD"}
Asked(q) ==
    CASE host.policy = "SINGLE" -> 0
      [] host.policy = "BALANCED" -> q[1]
      [] host.policy = "BALANCED_SPREAD" -> ReverseBits(q[1])
      [] host.policy = "UNIQUE" -> Unique(q, host.partners)
      [] host.policy = "UNIQUE_SPREAD" -> ReverseBits(Unique(q, host.partners))
Given(q) ==
    IF Cardinality(Slots) = 0 THEN host.allowed
    ELSE Shifted(Slot((Asked(q) % host.online) % Cardinality(Slots)))
            \cap host.allowed

PlaceTypes ==
    /\ host \in Hosts
    /\ step \in [Procs -> {"unborn", "started", "placed", "trapped"}]
    /\ pin \in [Procs -> SUBSET Nat]
    /\ cpumask \in [Procs -> BOOLEAN] /\ cpus \in [Procs -> Nat]
    /\ \A q \in Procs : step[q] \in {"started", "placed"} => Exists(q)

\* A process that is placed is where the policy has it.
PlaceOf(q) ==
    /\ cpumask[q] => cpus[q] = Cardinality(Slots)
    /\ Cardinality(Slots) = 0 => pin[q] = host.allowed
    /\ step[q] = "placed" /\ host.policy \in Own => pin[q] = Given(q)

PlaceInv == PlaceTypes /\ (~host.longer => \A q \in Procs : PlaceOf(q))

LEMMA PlaceStarts ==
  ASSUME NEW h \in Hosts, PlaceStart(h)
  PROVE  PlaceInv
<1>1. /\ host = h
      /\ step = [q \in Procs |-> "unborn"]
      /\ pin = [q \in Procs |-> h.allowed]
      /\ cpumask = [q \in Procs |-> FALSE] /\ cpus = [q \in Procs |-> 0]
  BY DEF PlaceStart
<1>2. host \in Hosts /\ host.allowed \in SUBSET Nat
  BY <1>1, HostsAssumption
<1>3. PlaceTypes
  BY <1>1, <1>2 DEF PlaceTypes
<1>4. \A q \in Procs : PlaceOf(q)
  BY <1>1 DEF PlaceOf
<1>. QED
  BY <1>3, <1>4 DEF PlaceInv

LEMMA ProcNumbers ==
  ASSUME NEW q \in Procs
  PROVE  q[1] \in Nat /\ q[2] \in Nat /\ q = <<q[1], q[2]>>
<1>1. PICK h \in Hosts : q \in (0..h.parallel - 1) \X (0..h.partners)
  BY DEF Procs
<1>. QED
  BY <1>1, HostsAssumption

\* What the state of the machine decides does not change with it.
LEMMA HostKept ==
  ASSUME host' = host
  PROVE  /\ Slots' = Slots /\ Machine' = Machine
         /\ \A q : Given(q)' = Given(q) /\ Exists(q)' = Exists(q)
<1>1. MaskWords' = MaskWords
  BY DEF MaskWords
<1>2. Slots' = Slots
  BY <1>1 DEF Slots
<1>3. \A k : Slot(k)' = Slot(k)
  BY <1>2 DEF Slot
<1>4. \A q : Asked(q)' = Asked(q)
  <2>1. Bits' = Bits
    BY DEF Bits
  <2>2. \A k : ReverseBits(k)' = ReverseBits(k)
    BY <2>1 DEF ReverseBits
  <2>. QED
    BY <2>2 DEF Asked
<1>5. \A q : Given(q)' = Given(q)
  BY <1>2, <1>3, <1>4 DEF Given
<1>. QED
  BY <1>2, <1>5 DEF Machine, Exists

\* sched_pin() counts what the process may use, or has the count.
LEMMA PinStep ==
  ASSUME PlaceInv, ~host.longer, NEW q \in Procs, NEW was \in Procs,
         NEW cpu, NEW next, PinTo(q, was, cpu, next)
  PROVE  /\ cpumask' = [cpumask EXCEPT ![q] = TRUE]
         /\ cpus' = [cpus EXCEPT ![q] = Cardinality(Slots)]
         /\ \E to \in {next, "trapped"} : step' = [step EXCEPT ![q] = to]
         /\ pin' = [pin EXCEPT ![q] =
                       IF Cardinality(Slots) = 0 THEN host.allowed
                       ELSE Shifted(Slot(cpu % Cardinality(Slots)))
                               \cap host.allowed]
<1>1. PICK n : n = IF cpumask[was] THEN cpus[was]
                   ELSE IF host.longer THEN 0 ELSE Cardinality(Slots)
  OBVIOUS
<1>2. n = Cardinality(Slots)
  BY <1>1 DEF PlaceInv, PlaceOf
<1>3. Cardinality(Slots) = 0 => pin[was] = host.allowed
  BY DEF PlaceInv, PlaceOf
<1>4. /\ cpumask' = [cpumask EXCEPT ![q] = TRUE]
      /\ cpus' = [cpus EXCEPT ![q] = n]
      /\ step' = [step EXCEPT ![q] =
                     IF cpumask[was] /\ n = 0 THEN "trapped" ELSE next]
      /\ pin' = [pin EXCEPT ![q] =
                    IF n = 0 THEN pin[was]
                    ELSE Shifted(Slot(cpu % n)) \cap host.allowed]
  BY Zenon, <1>1 DEF PinTo
<1>5. \E to \in {next, "trapped"} : step' = [step EXCEPT ![q] = to]
  BY <1>4
<1>. QED
  BY <1>2, <1>3, <1>4, <1>5

LEMMA PinTypes ==
  ASSUME PlaceInv, NEW q \in Procs, NEW was \in Procs,
         NEW cpu, NEW next \in {"started", "placed"}, host' = host,
         Exists(q), PinTo(q, was, cpu, next)
  PROVE  PlaceTypes'
<1>1. PICK n : n = IF cpumask[was] THEN cpus[was]
                   ELSE IF host.longer THEN 0 ELSE Cardinality(Slots)
  OBVIOUS
<1>2. PlaceTypes /\ Machine
  BY MachineOf DEF PlaceInv, PlaceTypes
<1>3. n \in Nat
  BY <1>1, <1>2, SlotCount DEF PlaceTypes
<1>4. /\ cpumask' = [cpumask EXCEPT ![q] = TRUE]
      /\ cpus' = [cpus EXCEPT ![q] = n]
      /\ step' = [step EXCEPT ![q] =
                     IF cpumask[was] /\ n = 0 THEN "trapped" ELSE next]
      /\ pin' = [pin EXCEPT ![q] =
                    IF n = 0 THEN pin[was]
                    ELSE Shifted(Slot(cpu % n)) \cap host.allowed]
  BY Zenon, <1>1 DEF PinTo
<1>5. PICK e : e = IF n = 0 THEN pin[was]
                   ELSE Shifted(Slot(cpu % n)) \cap host.allowed
  OBVIOUS
<1>6. e \in SUBSET Nat
  BY <1>5, <1>2 DEF PlaceTypes, Machine
<1>7. pin' = [pin EXCEPT ![q] = e]
  BY Zenon, <1>4, <1>5
<1>8. pin' \in [Procs -> SUBSET Nat]
  BY <1>6, <1>7, <1>2 DEF PlaceTypes
<1>9. step' \in [Procs -> {"unborn", "started", "placed", "trapped"}]
  BY <1>4, <1>2 DEF PlaceTypes
<1>10. cpumask' \in [Procs -> BOOLEAN] /\ cpus' \in [Procs -> Nat]
  BY <1>4, <1>3, <1>2 DEF PlaceTypes
<1>11. ASSUME NEW r \in Procs, step'[r] \in {"started", "placed"}
       PROVE  Exists(r)'
  <2>1. step'[r] = step[r] \/ r = q
    BY <1>4, <1>2 DEF PlaceTypes
  <2>. QED
    BY <2>1, <1>11, <1>2 DEF PlaceTypes, Exists
<1>. QED
  BY <1>2, <1>8, <1>9, <1>10, <1>11 DEF PlaceTypes

LEMMA ScheduleStep ==
  ASSUME PlaceInv, NEW q \in Procs, NEW was \in Procs, Exists(q),
         NEW n, NEW next \in {"started", "placed"},
         next = "placed" => n = host.partners,
         HandleScheduler(q, was, n, next)
  PROVE  PlaceInv'
<1>1. host' = host
  BY DEF HandleScheduler
<1>2. /\ Slots' = Slots
      /\ \A r : Given(r)' = Given(r) /\ Exists(r)' = Exists(r)
  BY <1>1, HostKept
<1>3. PlaceTypes
  BY DEF PlaceInv
<1>4. CASE host.policy = "DEFAULT"
  <2>1. step' = [step EXCEPT ![q] = next] /\ pin' = pin
        /\ cpumask' = cpumask /\ cpus' = cpus
    BY <1>4 DEF HandleScheduler
  <2>2. PlaceTypes'
    <3>1. step' \in [Procs -> {"unborn", "started", "placed", "trapped"}]
      BY <1>3, <2>1 DEF PlaceTypes
    <3>2. \A r \in Procs : step'[r] = step[r] \/ r = q
      BY <1>3, <2>1 DEF PlaceTypes
    <3>. QED
      BY <3>1, <3>2, <1>1, <1>2, <1>3, <2>1 DEF PlaceTypes
  <2>3. ASSUME ~host.longer, NEW r \in Procs PROVE PlaceOf(r)'
    <3>1. PlaceOf(r)
      BY <2>3 DEF PlaceInv
    <3>2. step'[r] = IF r = q THEN next ELSE step[r]
      BY <2>1, <1>3 DEF PlaceTypes
    <3>. QED
      BY <3>1, <3>2, <2>1, <1>1, <1>2, <1>4 DEF PlaceOf, Own
  <2>. QED
    BY <1>1, <2>2, <2>3 DEF PlaceInv
<1>5. CASE host.policy # "DEFAULT"
  <2>1. PICK list : PinTo(q, was, Cpu(q, n, list) % host.online, next)
    BY Zenon, <1>5 DEF HandleScheduler
  <2>2. PICK cpu : cpu = Cpu(q, n, list) % host.online
    OBVIOUS
  <2>3. PinTo(q, was, cpu, next)
    BY Zenon, <2>1, <2>2
  <2>4. PlaceTypes'
    BY <1>1, <2>3, PinTypes
  <2>5. ASSUME next = "placed", host.policy \in Own
        PROVE  cpu = Asked(q) % host.online
    BY <2>5, <2>2 DEF Cpu, Asked, Own
  <2>6. ASSUME ~host.longer, NEW r \in Procs PROVE PlaceOf(r)'
    <3>1. PlaceOf(r)
      BY <2>6 DEF PlaceInv
    <3>2. /\ cpumask' = [cpumask EXCEPT ![q] = TRUE]
          /\ cpus' = [cpus EXCEPT ![q] = Cardinality(Slots)]
          /\ pin' = [pin EXCEPT ![q] =
                        IF Cardinality(Slots) = 0 THEN host.allowed
                        ELSE Shifted(Slot(cpu % Cardinality(Slots)))
                                \cap host.allowed]
      BY <2>3, <2>6, PinStep
    <3>3. PICK to \in {next, "trapped"} : step' = [step EXCEPT ![q] = to]
      BY <2>3, <2>6, PinStep
    <3>4. CASE r # q
      <4>1. step'[r] = step[r] /\ pin'[r] = pin[r]
            /\ cpumask'[r] = cpumask[r] /\ cpus'[r] = cpus[r]
        BY <3>2, <3>3, <3>4, <1>3 DEF PlaceTypes
      <4>. QED
        BY <4>1, <3>1, <1>1, <1>2 DEF PlaceOf
    <3>5. CASE r = q
      <4>1. step'[q] = to /\ cpus'[q] = Cardinality(Slots)
            /\ pin'[q] = IF Cardinality(Slots) = 0 THEN host.allowed
                         ELSE Shifted(Slot(cpu % Cardinality(Slots)))
                                 \cap host.allowed
        BY <3>2, <3>3, <1>3 DEF PlaceTypes
      <4>2. to = "placed" => next = "placed"
        BY <3>3
      <4>3. to = "placed" /\ host.policy \in Own => pin'[q] = Given(q)
        BY <4>1, <4>2, <2>5 DEF Given
      <4>. QED
        BY <4>1, <4>2, <4>3, <3>3, <3>5, <1>1, <1>2 DEF PlaceOf
    <3>. QED
      BY <3>4, <3>5
  <2>. QED
    BY <1>1, <2>4, <2>6 DEF PlaceInv
<1>. QED
  BY <1>4, <1>5

\* The child that forks a process is one of the processes.
LEMMA ChildOf ==
  ASSUME NEW q \in Procs
  PROVE  <<q[1], 0>> \in Procs
<1>1. PICK h \in Hosts : q \in (0..h.parallel - 1) \X (0..h.partners)
  BY DEF Procs
<1>2. <<q[1], 0>> \in (0..h.parallel - 1) \X (0..h.partners)
  BY <1>1, HostsAssumption
<1>. QED
  BY <1>2 DEF Procs

LEMMA PlaceStep ==
  ASSUME PlaceInv, [PlaceNext]_placeVars
  PROVE  PlaceInv'
<1>1. ASSUME UNCHANGED placeVars PROVE PlaceInv'
  <2>1. host' = host /\ step' = step /\ pin' = pin /\ cpumask' = cpumask
        /\ cpus' = cpus
    BY <1>1 DEF placeVars
  <2>2. /\ Slots' = Slots
        /\ \A r : Given(r)' = Given(r) /\ Exists(r)' = Exists(r)
    BY <2>1, HostKept
  <2>3. PlaceTypes'
    BY <2>1, <2>2 DEF PlaceInv, PlaceTypes
  <2>4. ASSUME NEW q, PlaceOf(q) PROVE PlaceOf(q)'
    BY <2>4, <2>1, <2>2 DEF PlaceOf
  <2>. QED
    BY <2>1, <2>3, <2>4 DEF PlaceInv
<1>2. ASSUME NEW q \in Procs, StartChild(q) PROVE PlaceInv'
  <2>1. Exists(q) /\ q[2] = 0
        /\ HandleScheduler(q, q, 0, IF host.partners = 0 THEN "placed"
                                    ELSE "started")
    BY <1>2 DEF StartChild
  <2>2. PICK next \in {"started", "placed"} :
           next = IF host.partners = 0 THEN "placed" ELSE "started"
    OBVIOUS
  <2>3. HandleScheduler(q, q, 0, next)
    BY Zenon, <2>1, <2>2
  <2>. QED
    BY <2>1, <2>2, <2>3, ScheduleStep
<1>3. ASSUME NEW q \in Procs, PlaceChild(q) PROVE PlaceInv'
  <2>1. HandleScheduler(q, q, host.partners, "placed")
    BY <1>3 DEF PlaceChild
  <2>2. Exists(q)
    BY <1>3 DEF PlaceInv, PlaceTypes, PlaceChild
  <2>. QED
    BY <2>1, <2>2, ScheduleStep
<1>4. ASSUME NEW q \in Procs, PlacePartner(q) PROVE PlaceInv'
  <2>1. Exists(q) /\ HandleScheduler(q, <<q[1], 0>>, host.partners, "placed")
    BY <1>4 DEF PlacePartner
  <2>2. PICK was \in Procs : was = <<q[1], 0>>
    BY ChildOf
  <2>3. HandleScheduler(q, was, host.partners, "placed")
    BY Zenon, <2>1, <2>2
  <2>. QED
    BY <2>1, <2>3, ScheduleStep
<1>. QED
  BY <1>1, <1>2, <1>3, <1>4 DEF PlaceNext

-----------------------------------------------------------------------------
(* The numbers of children and processes.                                  *)

LEMMA RowsApart ==
  ASSUME NEW a \in Nat, NEW b \in Nat, NEW m \in Nat, a < b
  PROVE  /\ a * m \in Nat /\ b * m \in Nat
         /\ a * m + m <= b * m
<1>1. a * m \in Nat /\ b * m \in Nat /\ (a + 1) * m = a * m + m
  OBVIOUS
<1>2. (a + 1) * m <= b * m
  OBVIOUS
<1>. QED
  BY <1>1, <1>2

LEMMA UniqueNumbers ==
  ASSUME Machine, NEW q \in Procs, NEW r \in Procs,
         Exists(q), Exists(r)
  PROVE  /\ Unique(q, host.partners) \in Nat
         /\ host.parallel * (host.partners + 1) \in Nat
         /\ Unique(q, host.partners) < host.parallel * (host.partners + 1)
         /\ q # r => Unique(q, host.partners) # Unique(r, host.partners)
<1>1. PICK m \in Nat, e \in Nat : m = host.partners + 1 /\ e = host.parallel
  BY DEF Machine
<1>2. PICK a \in Nat, b \in Nat, c \in Nat, d \in Nat :
         q[1] = a /\ q[2] = b /\ r[1] = c /\ r[2] = d
  BY ProcNumbers
<1>3. a < e /\ c < e /\ b < m /\ d < m
  BY <1>1, <1>2 DEF Exists, Machine
<1>4. a * m + m <= e * m /\ a * m \in Nat /\ e * m \in Nat /\ c * m \in Nat
  BY <1>3, RowsApart
<1>5. a * m + b < e * m /\ a * m + b \in Nat
  BY <1>3, <1>4
<1>6. ASSUME a * m + b = c * m + d PROVE a = c /\ b = d
  <2>1. ~(a < c)
    <3>. SUFFICES ASSUME a < c PROVE FALSE
      OBVIOUS
    <3>1. a * m + m <= c * m
      BY RowsApart
    <3>. QED
      BY <3>1, <1>3, <1>4, <1>6
  <2>2. ~(c < a)
    <3>. SUFFICES ASSUME c < a PROVE FALSE
      OBVIOUS
    <3>1. c * m + m <= a * m
      BY RowsApart
    <3>. QED
      BY <3>1, <1>3, <1>4, <1>6
  <2>3. a = c
    BY <2>1, <2>2
  <2>4. b = d
    BY <2>3, <1>4, <1>6
  <2>. QED
    BY <2>3, <2>4
<1>7. Unique(q, host.partners) = a * m + b
      /\ Unique(r, host.partners) = c * m + d
  BY <1>1, <1>2 DEF Unique
<1>8. q = r <=> (a = c /\ b = d)
  <2>1. q = <<q[1], q[2]>> /\ r = <<r[1], r[2]>>
    BY Zenon, ProcNumbers
  <2>2. q = <<a, b>> /\ r = <<c, d>>
    BY Zenon, <2>1, <1>2
  <2>. QED
    BY <2>2
<1>9. host.parallel * (host.partners + 1) = e * m
  BY Zenon, <1>1
<1>10. /\ Unique(q, host.partners) \in Nat
       /\ host.parallel * (host.partners + 1) \in Nat
       /\ Unique(q, host.partners) < host.parallel * (host.partners + 1)
  BY <1>4, <1>5, <1>7, <1>9
<1>11. q # r => Unique(q, host.partners) # Unique(r, host.partners)
  BY Zenon, <1>6, <1>7, <1>8
<1>. QED
  BY Zenon, <1>10, <1>11

\* Reversing the bits of the numbers of processors exchanges them, when all
\* that are online may be used and they are a power of two.
LEMMA SpreadApart ==
  ASSUME Machine, Spreads
  PROVE  /\ \A k \in 0..host.online - 1 : ReverseBits(k) \in 0..host.online - 1
         /\ \A j, k \in 0..host.online - 1 :
               ReverseBits(j) = ReverseBits(k) => j = k
<1>. DEFINE n == host.online
<1>1. n \in Nat \ {0} /\ PowerOfTwo(n)
  BY DEF Machine, Spreads
<1>2. CASE n = 1
  <2>1. Bits = 0 + 1
    BY <1>2 DEF Bits
  <2>2. Reversed[0 + 1][0] = (0 % 2) * TwoTo[0] + Reversed[0][0 \div 2]
    BY ReversedMore
  <2>3. 0 % 2 = 0 /\ 0 \div 2 = 0
    OBVIOUS
  <2>4. Reversed[0][0] = 0 /\ TwoTo[0] = 1
    BY ReversedZero, TwoToIs
  <2>5. ReverseBits(0) = 0
    BY <2>1, <2>2, <2>3, <2>4 DEF ReverseBits
  <2>. QED
    BY <1>2, <2>5
<1>3. CASE n # 1
  <2>1. PICK b \in 0..n : n = TwoTo[b]
    BY <1>1 DEF PowerOfTwo
  <2>2. b # 0
    BY <1>3, <2>1, TwoToIs
  <2>. DEFINE c == b - 1
              m == NBits(n - 1)
  <2>3. c \in Nat /\ b = c + 1 /\ n - 1 \in Nat \ {0} /\ b \in Nat
    BY <1>1, <1>3, <2>1, <2>2
  <2>4. TwoTo[b] = 2 * TwoTo[c] /\ TwoTo[c] \in Nat \ {0}
    BY <2>3, TwoToIs, TwoToPositive
  <2>5. m \in Nat /\ TwoTo[m] <= n - 1 /\ n - 1 < TwoTo[m + 1]
    BY <2>3, NBitsIs
  <2>. HIDE DEF c, m
  <2>6. /\ TwoTo[m] \in Nat \ {0} /\ TwoTo[m + 1] = 2 * TwoTo[m]
    BY <2>5, TwoToIs, TwoToPositive
  <2>7. ~(m < c)
    <3>1. m < c => 2 * TwoTo[m] <= TwoTo[c]
      BY <2>3, <2>5, TwoToGrows
    <3>. QED
      BY <1>1, <2>1, <2>4, <2>5, <2>6, <3>1
  <2>8. ~(c < m)
    <3>1. c < m => 2 * TwoTo[c] <= TwoTo[m]
      BY <2>3, <2>5, TwoToGrows
    <3>. QED
      BY <1>1, <2>1, <2>4, <2>5, <2>6, <3>1
  <2>9. m + 1 = b
    BY <2>3, <2>5, <2>7, <2>8
  <2>10. Bits = b
    BY <1>3, <2>9 DEF Bits, m
  <2>11. /\ \A k \in Nat : Reversed[b][k] \in 0..TwoTo[b] - 1
         /\ \A j, k \in 0..TwoTo[b] - 1 : Reversed[b][j] = Reversed[b][k] => j = k
    BY <2>3, ReversedBelow, ReversedApart
  <2>12. \A k : ReverseBits(k) = Reversed[b][k]
    BY <2>10 DEF ReverseBits
  <2>. HIDE DEF n
  <2>13. /\ \A k \in 0..n - 1 : ReverseBits(k) \in 0..n - 1
         /\ \A j, k \in 0..n - 1 : ReverseBits(j) = ReverseBits(k) => j = k
    BY <2>1, <2>11, <2>12
  <2>. QED
    BY <2>13 DEF n
<1>. QED
  BY <1>2, <1>3

LEMMA EnoughIs ==
  ASSUME Machine, ~host.longer, NEW m \in Nat, EnoughFor(m),
         NEW k \in Nat, k < m
  PROVE  /\ k < Cardinality(host.allowed)
         /\ \A c \in host.allowed : c < IntBits - 1
<1>1. Cardinality(host.allowed) \in Int
  <2>1. host.allowed \subseteq 0..MaskWords * LongBits - 1
    BY HostsAssumption DEF Machine, MaskWords
  <2>2. MaskWords * LongBits - 1 \in Int
    BY MaskSize
  <2>3. IsFiniteSet(0..MaskWords * LongBits - 1)
    BY <2>2, FS_Interval
  <2>4. IsFiniteSet(host.allowed)
    BY <2>1, <2>3, FS_Subset
  <2>. QED
    BY <2>4, FS_CardinalityType
<1>. QED
  BY <1>1 DEF EnoughFor

\* With enough processors what a process asks for is what it is given.
LEMMA GivenSlot ==
  ASSUME Machine, ~host.longer, \A c \in host.allowed : c < IntBits - 1,
         NEW k \in Nat, k < Cardinality(host.allowed), NEW q, Asked(q) = k
  PROVE  Given(q) = {Slot(k)} /\ k < Cardinality(Slots)
<1>1. /\ k < Cardinality(Slots) /\ k < host.online
      /\ Shifted(Slot(k)) \cap host.allowed = {Slot(k)}
  BY SlotAllowed
<1>2. Cardinality(Slots) \in Nat
  BY SlotCount
<1>3. k % host.online = k /\ k % Cardinality(Slots) = k
      /\ Cardinality(Slots) # 0
  BY <1>1, <1>2 DEF Machine
<1>. QED
  BY <1>1, <1>3 DEF Given

LEMMA SlotsDiffer ==
  ASSUME Machine, NEW j \in Nat, NEW k \in Nat, j # k,
         j < Cardinality(Slots), k < Cardinality(Slots)
  PROVE  {Slot(j)} \cap {Slot(k)} = {}
<1>1. Cardinality(Below(Slots, Slot(j))) = j
      /\ Cardinality(Below(Slots, Slot(k))) = k
  BY SlotIs
<1>2. Slot(j) # Slot(k)
  BY Zenon, <1>1
<1>. QED
  BY <1>2

\* What a process of number k asks for, when the bits of its number are
\* reversed and when they are not.
Turns == host.policy \in {"BALANCED_SPREAD", "UNIQUE_SPREAD"}
Number(k) == IF Turns THEN ReverseBits(k) ELSE k

\* Processes of different numbers are given different processors, those of
\* the same number the same.
LEMMA NumbersApart ==
  ASSUME Machine, ~host.longer, Turns => Spreads, NEW m \in Nat, EnoughFor(m),
         NEW j \in Nat, j < m, NEW k \in Nat, k < m, NEW q, NEW r,
         Asked(q) = Number(j), Asked(r) = Number(k)
  PROVE  /\ j # k => Given(q) \cap Given(r) = {}
         /\ j = k => Given(q) = Given(r)
<1>. DEFINE x == Number(j)
            y == Number(k)
            n == Cardinality(host.allowed)
<1>1. j < n /\ k < n /\ \A c \in host.allowed : c < IntBits - 1
  BY EnoughIs
<1>2. x \in Nat /\ y \in Nat /\ x < n /\ y < n /\ (x = y => j = k)
  <2>1. CASE ~Turns
    BY <1>1, <2>1 DEF Number
  <2>2. CASE Turns
    <3>1. host.allowed = 0..host.online - 1 /\ host.online \in Nat \ {0}
      BY <2>2 DEF Spreads, Machine
    <3>2. n = host.online
      <4>1. 0 \in Int /\ host.online - 1 \in Int /\ ~(0 > host.online - 1)
        BY <3>1
      <4>2. Cardinality(0..host.online - 1) = (host.online - 1) - 0 + 1
        BY <4>1, FS_Interval
      <4>. QED
        BY <3>1, <4>2
    <3>3. j \in 0..host.online - 1 /\ k \in 0..host.online - 1
      BY <1>1, <3>1, <3>2
    <3>4. /\ ReverseBits(j) \in 0..host.online - 1
          /\ ReverseBits(k) \in 0..host.online - 1
          /\ ReverseBits(j) = ReverseBits(k) => j = k
      BY <2>2, <3>3, SpreadApart
    <3>5. x = ReverseBits(j) /\ y = ReverseBits(k)
      BY <2>2 DEF Number
    <3>. QED
      BY <3>1, <3>2, <3>4, <3>5
  <2>. QED
    BY <2>1, <2>2
<1>3. Given(q) = {Slot(x)} /\ x < Cardinality(Slots)
  BY <1>1, <1>2, GivenSlot
<1>4. Given(r) = {Slot(y)} /\ y < Cardinality(Slots)
  BY <1>1, <1>2, GivenSlot
<1>5. j # k => {Slot(x)} \cap {Slot(y)} = {}
  BY <1>2, <1>3, <1>4, SlotsDiffer
<1>. QED
  BY <1>3, <1>4, <1>5

LEMMA PlacedOwn ==
  ASSUME PlaceInv
  PROVE  OwnProcessor
<1>1. Machine
  BY MachineOf DEF PlaceInv, PlaceTypes
<1>. DEFINE U == host.policy = "UNIQUE" \/ (host.policy = "UNIQUE_SPREAD" /\ Spreads)
            B == \/ host.policy = "BALANCED"
                 \/ host.policy = "BALANCED_SPREAD" /\ Spreads
<1>. SUFFICES ASSUME NEW q \in Placed, NEW r \in Placed, ~host.longer, q # r
              PROVE  /\ U /\ EnoughFor(host.parallel * (host.partners + 1))
                        => Apart(q, r)
                     /\ B /\ EnoughFor(host.parallel)
                        => IF q[1] = r[1] THEN pin[q] = pin[r]
                                          ELSE Apart(q, r)
                     /\ host.policy = "SINGLE" => pin[q] = pin[r]
  BY DEF OwnProcessor
<1>2. q \in Procs /\ r \in Procs /\ Exists(q) /\ Exists(r)
  BY DEF Placed, PlaceInv, PlaceTypes
<1>3. host.policy \in Own => pin[q] = Given(q) /\ pin[r] = Given(r)
  BY DEF Placed, PlaceInv, PlaceOf
<1>4. ASSUME U, EnoughFor(host.parallel * (host.partners + 1))
      PROVE  Apart(q, r)
  <2>1. PICK m \in Nat, j \in Nat, k \in Nat :
           /\ m = host.parallel * (host.partners + 1)
           /\ j = Unique(q, host.partners) /\ k = Unique(r, host.partners)
           /\ j < m /\ k < m /\ j # k
    BY <1>1, <1>2, UniqueNumbers
  <2>2. Asked(q) = Number(j) /\ Asked(r) = Number(k) /\ (Turns => Spreads)
    BY <1>4, <2>1 DEF Asked, Number, Turns
  <2>3. EnoughFor(m)
    BY Zenon, <1>4, <2>1
  <2>4. Given(q) \cap Given(r) = {}
    BY <1>1, <2>1, <2>2, <2>3, NumbersApart
  <2>. QED
    BY <2>4, <1>3, <1>4 DEF Apart, Own
<1>5. ASSUME B, EnoughFor(host.parallel)
      PROVE  IF q[1] = r[1] THEN pin[q] = pin[r] ELSE Apart(q, r)
  <2>1. PICK j \in Nat, k \in Nat : j = q[1] /\ k = r[1]
    BY <1>2, ProcNumbers
  <2>2. j < host.parallel /\ k < host.parallel /\ host.parallel \in Nat
    BY <1>1, <1>2, <2>1 DEF Exists, Machine
  <2>3. Asked(q) = Number(j) /\ Asked(r) = Number(k) /\ (Turns => Spreads)
    BY <1>5, <2>1 DEF Asked, Number, Turns
  <2>4. /\ j # k => Given(q) \cap Given(r) = {}
        /\ j = k => Given(q) = Given(r)
    BY <1>1, <1>5, <2>2, <2>3, NumbersApart
  <2>. QED
    BY <2>1, <2>4, <1>3, <1>5 DEF Apart, Own
<1>6. ASSUME host.policy = "SINGLE" PROVE pin[q] = pin[r]
  <2>1. Asked(q) = Asked(r)
    BY <1>6 DEF Asked
  <2>2. Given(q) = Given(r)
    BY <2>1 DEF Given
  <2>. QED
    BY <2>2, <1>3, <1>6 DEF Own
<1>. QED
  BY <1>4, <1>5, <1>6

\* Whichever process is placed first and wherever the processors are that
\* may be used: under UNIQUE each process has one of its own, under BALANCED
\* each child with its processes, and under SINGLE they all have one; so too
\* when they are spread by their bits over a power of two of processors.
THEOREM PlacedApart == PlaceSpec => []OwnProcessor
<1>1. PlaceInit => PlaceInv
  BY PlaceStarts DEF PlaceInit
<1>2. PlaceInv /\ [PlaceNext]_placeVars => PlaceInv'
  BY PlaceStep
<1>3. PlaceInv => OwnProcessor
  BY PlacedOwn
<1>. QED
  BY <1>1, <1>2, <1>3, PTL DEF PlaceSpec

-----------------------------------------------------------------------------
(* The suite: each of its behaviours is one of each of its programs.       *)

LEMMA AnyIn ==
  ASSUME NEW s, s # {}
  PROVE  AnyOf(s) \in s
  BY DEF AnyOf

LEMMA SuiteStarts ==
  SuiteInit =>
     HooksInit /\ DdInit /\ ChainsInit /\ SearchInit /\ PlaceInit
<1>. SUFFICES ASSUME SuiteInit
              PROVE  /\ HooksInit /\ DdInit /\ ChainsInit
                     /\ SearchInit /\ PlaceInit
  OBVIOUS
<1>1. /\ AnyOf(Benchmarks) \in Benchmarks /\ AnyOf(Commands) \in Commands
      /\ AnyOf(Hosts) \in Hosts
  BY Zenon, SuiteAssumption, AnyIn
<1>2. HooksInit
  BY Zenon, <1>1 DEF SuiteInit, HooksInit
<1>3. DdInit
  BY Zenon, <1>1 DEF SuiteInit, DdInit
<1>4. SearchInit
  BY Zenon DEF SuiteInit, SearchInit
<1>5. PlaceInit
  BY Zenon, <1>1 DEF SuiteInit, PlaceInit
<1>6. ChainsInit
  BY Zenon DEF SuiteInit
<1>. QED
  BY <1>2, <1>3, <1>4, <1>5, <1>6

LEMMA SuiteSteps ==
  ASSUME [SuiteNext]_suiteVars
  PROVE  /\ [HooksNext]_hookVars /\ [DdNext]_ddVars
         /\ [ChainsNext]_chainVars
         /\ [SearchNext]_searchVars /\ [PlaceNext]_placeVars
<1>1. CASE UNCHANGED suiteVars
  BY <1>1 DEF suiteVars
<1>2. CASE Benchmarking
  BY <1>2 DEF Benchmarking
<1>3. CASE Copying
  BY <1>3 DEF Copying
<1>4. CASE Chaining
  BY <1>4 DEF Chaining
<1>5. CASE Searching
  BY <1>5 DEF Searching
<1>6. CASE Placing
  BY <1>6 DEF Placing
<1>. QED
  BY <1>1, <1>2, <1>3, <1>4, <1>5, <1>6 DEF SuiteNext

\* Whichever program runs: hooks kill only their own processes and leave
\* nothing behind, one request is under way at most, the searches leave
\* nothing out and keep every page, lmdd copies faithfully, at offsets that
\* are apart, the chains cover all their words and are not left, and
\* processes have the processors of their own that the policy gives them.
THEOREM SuiteKeeps ==
  SuiteSpec => [](OnlyOwnChildren /\ NothingLeft /\ OneHandover
                  /\ SearchComplete /\ PagesKept /\ OffsetsApart
                  /\ CopyFaithful /\ ChainCovers /\ WalkOnChain
                  /\ OwnProcessor)
<1>. DEFINE Inv == /\ HookInv /\ PagesInv /\ OffsetInv /\ CopyInv
                   /\ ChainInv /\ PlaceInv
<1>1. SuiteInit => Inv
  BY SuiteStarts, HookStart, PagesStart, OffsetsInit, CopyInit, ChainInvInit,
     PlaceStarts DEF HooksInit, PlaceInit
<1>2. Inv /\ [SuiteNext]_suiteVars => Inv'
  <2>. SUFFICES ASSUME Inv, [SuiteNext]_suiteVars PROVE Inv'
    OBVIOUS
  <2>1. /\ [HooksNext]_hookVars /\ [DdNext]_ddVars /\ [ChainsNext]_chainVars
        /\ [SearchNext]_searchVars /\ [PlaceNext]_placeVars
    BY SuiteSteps
  <2>2. HookInv'
    BY Zenon, <2>1, HookInvStep
  <2>3. PagesInv'
    BY Zenon, <2>1, PagesNext
  <2>4. OffsetInv'
    BY Zenon, <2>1, OffsetsNext
  <2>5. CopyInv'
    BY Zenon, <2>1, CopyNext
  <2>6. ChainInv'
    BY Zenon, <2>1, ChainInvStep
  <2>7. PlaceInv'
    BY Zenon, <2>1, PlaceStep
  <2>. QED
    BY <2>2, <2>3, <2>4, <2>5, <2>6, <2>7
<1>3. Inv => /\ OnlyOwnChildren /\ NothingLeft /\ OneHandover
             /\ SearchComplete /\ PagesKept /\ OffsetsApart /\ CopyFaithful
             /\ ChainCovers /\ WalkOnChain /\ OwnProcessor
  <2>1. PagesInv => SearchInv
    BY DEF PagesInv
  <2>. QED
    BY <2>1, InvOwnChildren, InvNothingLeft, InvOneHandover,
       SearchInvComplete, ArrangedKept, OffsetsFit, CopyIsFaithful,
       ChainInvEnough, PlacedOwn
<1>. HIDE DEF Inv
<1>. QED
  BY <1>1, <1>2, <1>3, PTL DEF SuiteSpec
=============================================================================
