------------------------------ MODULE Samples ------------------------------
(***************************************************************************)
(* The numbers behind one call of benchmp() (src/lib_timing.c): how many   *)
(* iterations an interval runs, which of the times measured are kept, how  *)
(* result_t collects and merges them, and which time and count the caller  *)
(* reads with gettime() and get_n().  BenchMP has the processes and pipes  *)
(* this abstracts from: here an interval is one step, a report another.    *)
(*                                                                         *)
(* A call for more than one child first measures one child alone           *)
(* ("baseline") and sizes the iterations of the loaded pass from it.       *)
(* Times are in microseconds.                                              *)
(***************************************************************************)
EXTENDS Integers, Sequences, FiniteSets

CONSTANTS
    Parallel,       \* children measured together
    Repetitions,    \* measurements each of them makes
    Enough,         \* the interval a lone child's measurement should take
    Short,          \* SHORT, the interval aimed at under load
    Tries,          \* TRIES, the samples a result_t has room for at least
    IterCap,        \* 1<<27, where a lone child stops adding iterations
    IterCapNeg,     \* 1<<20, the same when the overhead exceeds the time
    Costs,          \* what an iteration may take, in hundredths
    Noise,          \* how long an interval may take, in percent of that
    Overhead        \* t_overhead() + get_n() * l_overhead()

ASSUME SamplesAssumption ==
    /\ Parallel \in Nat \ {0} /\ Repetitions \in Nat \ {0}
    /\ Enough \in Nat \ {0} /\ Short \in Nat \ {0} /\ Tries \in Nat \ {0}
    /\ IterCap \in Nat /\ IterCapNeg \in Nat
    /\ Costs \subseteq Nat \ {0} /\ Noise \subseteq Nat /\ Overhead \in Nat

Child == 1..Parallel

\* A value_t: u microseconds for n iterations.
Sample == [u : Nat, n : Nat \ {0}]

VARIABLES
    cost,           \* hundredths of a microsecond an iteration takes
    pass,           \* "baseline", "load", "returned"
    published,      \* has set_results(merged_results) run in this pass?
    iterations,     \* state->iterations of each child
    i,              \* state->i: measurements it has made
    state,          \* its benchmp_state, "warmup" left out
    r,              \* its result_t
    gathered,       \* children whose report has been read
    report, j,      \* the report being merged, and how far it is
    merged,         \* merged_results
    time, n         \* what gettime() and get_n() return in the parent

childVars == <<iterations, i, state, r>>
parentVars == <<published, gathered, report, j, merged, time, n>>
vars == <<cost, pass, childVars, parentVars>>

Measuring == IF pass = "baseline" THEN {1} ELSE Child
Width == IF pass = "baseline" THEN 1 ELSE Parallel

-----------------------------------------------------------------------------
(* result_t.                                                               *)

\* insertsort() compares u / (double)n.  Here the quotients are exact, so that
\* two that differ by less than a double can hold are told apart.
Slower(x, y) == x.u * y.n > y.u * x.n

\* How many samples the memory of sizeof_result(repetitions) holds.
Capacity(repetitions) == IF repetitions <= Tries THEN Tries ELSE repetitions

\* Mutant: compare with the first sample only.
PositionEnds(x, v) ==
    IF v # <<>> /\ Slower(x, v[1]) THEN 1 ELSE Len(v) + 1

\* Where x goes: before the first sample it is slower than.
Position(x, v) ==
    CHOOSE k \in 1..(Len(v) + 1) :
        /\ \A l \in 1..(k - 1) : ~Slower(x, v[l])
        /\ k <= Len(v) => Slower(x, v[k])

\* Mutant: overwrite instead of shifting.
InsertOver(x, v) ==
    LET k == Position(x, v)
    IN  IF x.u = 0 \/ k > Len(v) THEN Append(v, x) ELSE [v EXCEPT ![k] = x]

\* insertsort(): biggest to smallest; a time of zero is not kept.
InsertSort(x, v) ==
    LET k == Position(x, v)
    IN  IF x.u = 0 THEN v
        ELSE [l \in 1..(Len(v) + 1) |->
                 IF l < k THEN v[l] ELSE IF l = k THEN x ELSE v[l - 1]]

\* Mutant: the indices count from one, the middle is not moved.
MedianShifted(v) ==
    LET k == Len(v) \div 2
    IN  IF v = <<>> THEN [u |-> 0, n |-> 1]
        ELSE IF Len(v) % 2 = 1 THEN v[k + 1]
        ELSE [u |-> (v[k + 1].u + v[k + 2].u) \div 2,
              n |-> (v[k + 1].n + v[k + 2].n) \div 2]

\* Mutant: no sample, and no iterations either.
MedianOfNone(v) ==
    IF v = <<>> THEN [u |-> 0, n |-> 0]
    ELSE LET k == (Len(v) \div 2) + 1
         IN  IF Len(v) % 2 = 1 THEN v[k]
             ELSE [u |-> (v[k].u + v[k - 1].u) \div 2,
                   n |-> (v[k].n + v[k - 1].n) \div 2]

\* save_median(): the middle sample, or the two middle ones' averages.
Median(v) ==
    LET k == (Len(v) \div 2) + 1
    IN  IF v = <<>> THEN [u |-> 0, n |-> 1]
        ELSE IF Len(v) % 2 = 1 THEN v[k]
        ELSE [u |-> (v[k].u + v[k - 1].u) \div 2,
              n |-> (v[k].n + v[k - 1].n) \div 2]

-----------------------------------------------------------------------------

\* A child of benchmp_child(): nothing recorded yet.
StartChildren(count) ==
    /\ iterations' = [c \in Child |-> count]
    /\ i' = [c \in Child |-> 0]
    /\ state' = [c \in Child |-> "timing_interval"]
    /\ r' = [c \in Child |-> <<>>]

Init ==
    /\ cost \in Costs
    /\ pass = IF Parallel > 1 THEN "baseline" ELSE "load"
    /\ iterations = [c \in Child |-> 1]
    /\ i = [c \in Child |-> 0]
    /\ state = [c \in Child |-> "timing_interval"]
    /\ r = [c \in Child |-> <<>>]
    /\ published = FALSE
    /\ gathered = {} /\ report = <<>> /\ j = 1 /\ merged = <<>>
    /\ time = 0 /\ n = 1

\* stop(0, 0), less the overhead: it may be negative.
Elapsed(count, noise) == ((count * cost * noise) \div 10000) - Overhead

\* Mutant: aim below the interval, not above it.
RescaledBelow(count, result) == ((count * Enough * 9) \div (result * 10)) + 1

\* iterations / result * 1.1 * enough, rounded up.
Rescaled(count, result) == ((count * Enough * 11) \div (result * 10)) + 1

\* The measurement is recorded: always under load, else if long enough.
Counts(result) == Width > 1 \/ 100 * result > 95 * Enough

\* A lone child is to run another number of iterations.
OffTarget(result) ==
    Width = 1 /\ (100 * result < 99 * Enough \/ 10 * result > 12 * Enough)

\* The number grows eightfold and passes the limit: give up.
TooCheap(count, result) ==
    /\ OffTarget(result) /\ result <= 150
    /\ count * 8 > IterCap \/ (result < 0 /\ count * 8 > IterCapNeg)

NextIterations(count, result) ==
    IF ~OffTarget(result) THEN count
    ELSE IF result > 150 THEN Rescaled(count, result) ELSE count * 8

\* Mutant: the time is recorded with the iterations of the next interval.
RecordedNext(c, result) ==
    [u |-> IF result >= 0 THEN result ELSE 0,
     n |-> NextIterations(iterations[c], result)]

\* save_n(state->iterations); settime(result >= 0. ? result : 0.)
Recorded(c, result) ==
    [u |-> IF result >= 0 THEN result ELSE 0, n |-> iterations[c]]

\* Mutant: one measurement more than repetitions.
MeasureOneMore(c, result) ==
    /\ r' = [r EXCEPT ![c] = IF Counts(result)
                             THEN InsertSort(Recorded(c, result), @) ELSE @]
    /\ i' = [i EXCEPT ![c] = IF Counts(result) THEN @ + 1 ELSE @]
    /\ state' = [state EXCEPT ![c] =
           IF i'[c] > Repetitions \/ TooCheap(iterations[c], result)
           THEN "cooldown" ELSE @]
    /\ iterations' = [iterations EXCEPT ![c] = NextIterations(@, result)]

\* benchmp_interval() in state timing_interval.
Measure(c, result) ==
    /\ r' = [r EXCEPT ![c] = IF Counts(result)
                             THEN InsertSort(Recorded(c, result), @) ELSE @]
    /\ i' = [i EXCEPT ![c] = IF Counts(result) THEN @ + 1 ELSE @]
    /\ state' = [state EXCEPT ![c] =
           IF i'[c] >= Repetitions \/ TooCheap(iterations[c], result)
           THEN "cooldown" ELSE @]
    /\ iterations' = [iterations EXCEPT ![c] = NextIterations(@, result)]

Interval(c) ==
    /\ pass # "returned" /\ c \in Measuring /\ state[c] = "timing_interval"
    /\ \E noise \in Noise : Measure(c, Elapsed(iterations[c], noise))
    /\ UNCHANGED <<cost, pass, parentVars>>

AllDone == \A c \in Measuring : state[c] = "cooldown"

\* benchmp_parent() reads the report of the child that took the signal.
Gather(c) ==
    /\ pass # "returned" /\ ~published /\ AllDone
    /\ j > Len(report) /\ c \in Measuring \ gathered
    /\ gathered' = gathered \cup {c}
    /\ report' = r[c] /\ j' = 1
    /\ UNCHANGED <<cost, pass, childVars, published, merged, time, n>>

\* insertsort(results->v[j].u, results->v[j].n, merged_results)
Merge ==
    /\ j <= Len(report)
    /\ merged' = InsertSort(report[j], merged)
    /\ j' = j + 1
    /\ UNCHANGED <<cost, pass, childVars, published, gathered, report, time, n>>

\* set_results(merged_results)
Publish ==
    /\ pass # "returned" /\ ~published
    /\ gathered = Measuring /\ j > Len(report)
    /\ published' = TRUE
    /\ time' = Median(merged).u /\ n' = Median(merged).n
    /\ UNCHANGED <<cost, pass, childVars, gathered, report, j, merged>>

\* "if we can't even do a single job, then give up"; or the call is over.
Return ==
    /\ published /\ pass # "returned"
    /\ pass = "load" \/ time = 0
    /\ pass' = "returned"
    /\ UNCHANGED <<cost, childVars, parentVars>>

\* "calculate iterations for 1sec runtime"
LoadIterations == IF Enough < Short THEN (Short * n) \div time + 1 ELSE n

StartLoad ==
    /\ published /\ pass = "baseline" /\ time # 0
    /\ pass' = "load"
    /\ StartChildren(LoadIterations)
    /\ published' = FALSE /\ gathered' = {} /\ report' = <<>> /\ j' = 1
    /\ merged' = <<>> /\ time' = 0 /\ n' = 1
    /\ UNCHANGED cost

Done == pass = "returned" /\ UNCHANGED vars

Next ==
    \/ \E c \in Child : Interval(c) \/ Gather(c)
    \/ Merge \/ Publish \/ Return \/ StartLoad \/ Done

Spec == Init /\ [][Next]_vars

\* The children are run and so is the parent.
FairSpec == Spec /\ WF_vars(Next)

-----------------------------------------------------------------------------
(* Invariants.                                                             *)

\* A sample a result_t keeps: its time is not zero.
Kept == [u : Nat \ {0}, n : Nat \ {0}]

\* Every variable has its type; no result_t holds a time of zero, which
\* save_minimum() and the callers would take for "no result".
TypeOK ==
    /\ cost \in Costs /\ pass \in {"baseline", "load", "returned"}
    /\ published \in BOOLEAN
    /\ iterations \in [Child -> Nat \ {0}]
    /\ i \in [Child -> Nat]
    /\ state \in [Child -> {"timing_interval", "cooldown"}]
    /\ r \in [Child -> Seq(Kept)]
    /\ gathered \subseteq Child
    /\ report \in Seq(Kept) /\ j \in 1..(Len(report) + 1)
    /\ merged \in Seq(Kept)
    /\ time \in Nat /\ n \in Nat \ {0}

\* No sample is slower than the one before it.
Descending(v) == \A l \in 1..(Len(v) - 1) : ~Slower(v[l + 1], v[l])

\* Every result_t is sorted, biggest to smallest, while insertsort() fills
\* it: save_median() and save_minimum() take a sample by its index.
ResultsDescend ==
    /\ Descending(merged)
    /\ \A c \in Child : Descending(r[c])

\* No result_t outgrows the memory sizeof_result() asked for: a child's has
\* room for its repetitions, merged_results for those of all children.
WithinCapacity ==
    /\ \A c \in Child : Len(r[c]) <= Capacity(Repetitions)
    /\ Len(merged) + Len(report) - (j - 1)
           <= Capacity(Parallel * Repetitions)

\* Why they fit: a child stops at its repetitions, and merging moves samples
\* of the children gathered so far.
Bounded ==
    /\ \A c \in Child :
         /\ Len(r[c]) <= i[c] /\ i[c] <= Repetitions
         /\ state[c] = "timing_interval" => i[c] < Repetitions
    /\ Len(merged) + Len(report) - (j - 1)
           <= Cardinality(gathered) * Repetitions

\* Places of samples in the result_t's of a set of children.
Places(children) ==
    {p \in children \X (1..Repetitions) : p[2] <= Len(r[p[1]])}

\* Merging keeps every sample of every report as often as it was measured.
NothingLost ==
    /\ Cardinality(Places(gathered)) = Len(merged) + Len(report) - (j - 1)
    /\ \A p \in Places(gathered) :
         LET x == r[p[1]][p[2]]
         IN  Cardinality({q \in Places(gathered) : r[q[1]][q[2]] = x})
               = Cardinality({l \in DOMAIN merged : merged[l] = x})
                 + Cardinality({l \in j..Len(report) : report[l] = x})

\* Each sample kept pairs a time with the iterations that took it, although
\* benchmp_interval() changes the number between two intervals.
TimeMatchesCount ==
    \A c \in Child : \A l \in DOMAIN r[c] :
        \E noise \in Noise : r[c][l].u = Elapsed(r[c][l].n, noise)

\* Neither half of the samples is wholly slower or faster than x.
InMiddle(x, v) ==
    /\ 2 * Cardinality({l \in DOMAIN v : ~Slower(v[l], x)}) >= Len(v)
    /\ 2 * Cardinality({l \in DOMAIN v : ~Slower(x, v[l])}) >= Len(v)

\* Under load the number of iterations is constant, and what gettime() and
\* get_n() return is a median ("Compute median time; iterations is
\* constant!", benchmp_parent()).
LoadMedianInMiddle ==
    published /\ Parallel > 1 /\ pass # "baseline" /\ merged # <<>> =>
        InMiddle([u |-> time, n |-> n], merged)

\* The iterations of the loaded pass take SHORT at least, at the pace of the
\* slowest interval of the baseline ("calculate iterations for 1sec
\* runtime", benchmp()).  That takes an odd number of measurements in the
\* baseline: of an even one save_median() rounds the mean of two counts.
LoadLongEnough ==
    pass = "load" /\ Parallel > 1 /\ Enough < Short =>
        \A c \in Child : \E noise \in Noise :
            iterations[c] * cost * noise >= Short * 10000

\* What the loaded pass publishes: a median, of intervals that are long
\* enough to be timed.
LoadMeasured == LoadMedianInMiddle /\ LoadLongEnough

-----------------------------------------------------------------------------
(* Liveness.                                                               *)

\* A lone child settles on a number of iterations that gives it intervals
\* long enough to count, or gives up, and so the call ends.
CallEnds == <>(pass = "returned")

-----------------------------------------------------------------------------
(* What the documentation says, where the code does otherwise.             *)

\* doc/lmbench.3: benchmp() "measures the performance of benchmark
\* repeatedly and reports the median result".  The iterations of a lone
\* child vary, and the average of two counts is rounded down.
MedianReported ==
    published /\ merged # <<>> => InMiddle([u |-> time, n |-> n], merged)
=============================================================================
