----------------------------- MODULE Placement -----------------------------
(***************************************************************************)
(* lib_sched.c: the processor that LMBENCH_SCHED gives to each child of    *)
(* benchmp() and to each process such a child creates.  Processors are     *)
(* numbers from 0 on; a mask is a set of them.                             *)
(***************************************************************************)
EXTENDS Powers, Sequences, FiniteSets, FiniteSetsExt, SequencesExt

CONSTANTS Hosts,         \* records as Host below
          IntBits,       \* width of the 1 that sched_pin() shifts
          LongBits       \* width of a word of a mask

ASSUME PlacementAssumption == IntBits \in Nat \ {0} /\ LongBits \in Nat \ {0}

\* Of the processors online a process may use some or all; where masks are
\* not longer than sched_pin()'s no processor has a higher number.
ASSUME HostsAssumption ==
    \A h \in Hosts :
        /\ {h.parallel, h.online} \subseteq Nat \ {0} /\ h.partners \in Nat
        /\ h.allowed \subseteq Nat
        /\ ~h.longer =>
              /\ h.allowed \subseteq
                    0..(1 + (2 * h.online) \div LongBits) * LongBits - 1
              /\ Cardinality(h.allowed) <= h.online

VARIABLES host,          \* the machine, the policy, the benchmark
          step,          \* of each process: unborn, started, placed, trapped
          pin,           \* of each process: the processors it may use
          cpumask, cpus, \* of each: is its static cpumask set; its ncpus
          values         \* of each: custom()'s static list, or NotYet

placeVars == <<host, step, pin, cpumask, cpus, values>>

\* policy; processors online and those the process may use; whether the
\* kernel's masks are longer than sched_pin()'s; children of benchmp() and
\* processes that each creates; environment strings from LMBENCH_SCHED on:
\* the numbers of each and whether it ends in a digit.
Host == [policy |-> "DEFAULT", online |-> 4, allowed |-> 0..3, longer |-> FALSE,
         parallel |-> 2, partners |-> 1,
         env |-> <<[nums |-> <<>>, digit |-> FALSE]>>]

NotYet == <<"unset">>

\* <<child, 0>> is a child of benchmp(), <<child, k>> the k'th it creates.
Procs == UNION {(0..h.parallel - 1) \X (0..h.partners) : h \in Hosts}
Exists(q) == q[1] < host.parallel /\ q[2] <= host.partners

PlaceStart(h) ==
    /\ host = h
    /\ step = [q \in Procs |-> "unborn"]
    /\ pin = [q \in Procs |-> h.allowed]
    /\ cpumask = [q \in Procs |-> FALSE] /\ cpus = [q \in Procs |-> 0]
    /\ values = [q \in Procs |-> NotYet]

PlaceInit == \E h \in Hosts : PlaceStart(h)

-----------------------------------------------------------------------------

\* reverse_bits(): as many bits as online - 1 has, and at least one.
Bits == IF host.online = 1 THEN 1 ELSE NBits(host.online - 1) + 1
ReverseBits(n) == Reversed[Bits][n]

\* custom() ends a number by a 0 after it, steps over that and so goes on
\* into the next environment string when its own ends in a digit.
Strings == LET ends == {i \in 1..Len(host.env) : ~host.env[i].digit}
           IN  IF ends = {} THEN Len(host.env) ELSE Min(ends)
Parsed == FlattenSeq([i \in 1..Strings |-> host.env[i].nums])
Listed(list, n) == IF list = <<>> THEN 0 ELSE list[(n % Len(list)) + 1]

\* Mutant: the child itself is not counted.
UniqueLess(q, n) == q[1] * n + q[2]
Unique(q, n) == q[1] * (n + 1) + q[2]

Custom == host.policy \in {"CUSTOM", "CUSTOM_SPREAD"}

\* The processor that handle_scheduler(child, k, n) asks for.
Cpu(q, n, list) ==
    CASE host.policy = "SINGLE" -> 0
      [] host.policy = "BALANCED" -> q[1]
      [] host.policy = "BALANCED_SPREAD" -> ReverseBits(q[1])
      [] host.policy = "UNIQUE" -> Unique(q, n)
      [] host.policy = "UNIQUE_SPREAD" -> ReverseBits(Unique(q, n))
      [] host.policy = "CUSTOM" -> Listed(list, q[1])
      [] host.policy = "CUSTOM_SPREAD" -> Listed(list, Unique(q, n))

\* 1 << bit is an int: the count wraps at its width, as x86 has it, and the
\* sign fills the rest of the word.
MaskWords == 1 + (2 * host.online) \div LongBits
Shifted(i) ==
    LET bit == (i % LongBits) % IntBits
        first == (i \div LongBits) * LongBits
    IN  IF bit = IntBits - 1
        THEN first + bit..first + LongBits - 1 ELSE {first + bit}
Slots ==
    {i \in 0..MaskWords * LongBits - 1 : Shifted(i) \cap host.allowed # {}}
Slot(n) == CHOOSE i \in Slots : Cardinality({j \in Slots : j < i}) = n

\* sched_pin(cpu) in q, which has the static variables of was, the process it
\* was forked by or q itself: the first call counts the processors.  When the
\* kernel's masks are longer it fails with none counted, and the next call
\* divides by zero.
PinTo(q, was, cpu, next) ==
    LET n == IF cpumask[was] THEN cpus[was]
             ELSE IF host.longer THEN 0 ELSE Cardinality(Slots)
    IN  /\ cpumask' = [cpumask EXCEPT ![q] = TRUE]
        /\ cpus' = [cpus EXCEPT ![q] = n]
        /\ step' = [step EXCEPT ![q] =
                       IF cpumask[was] /\ n = 0 THEN "trapped" ELSE next]
        /\ pin' = [pin EXCEPT ![q] =
                       IF n = 0 THEN pin[was]
                       ELSE Shifted(Slot(cpu % n)) \cap host.allowed]

\* handle_scheduler(), which benchmp() and the benchmarks call.
HandleScheduler(q, was, n, next) ==
    LET list == IF Custom /\ values[was] = NotYet THEN Parsed ELSE values[was]
    IN  /\ values' = [values EXCEPT ![q] = list]
        /\ IF host.policy = "DEFAULT"
           THEN /\ step' = [step EXCEPT ![q] = next]
                /\ UNCHANGED <<pin, cpumask, cpus>>
           ELSE PinTo(q, was, Cpu(q, n, list) % host.online, next)
        /\ UNCHANGED host

\* benchmp() starts a child,
StartChild(q) ==
    /\ Exists(q) /\ q[2] = 0 /\ step[q] = "unborn"
    /\ HandleScheduler(q, q, 0,
                       IF host.partners = 0 THEN "placed" ELSE "started")

\* the benchmark's initialize() places it again,
PlaceChild(q) ==
    /\ step[q] = "started"
    /\ HandleScheduler(q, q, host.partners, "placed")

\* and it forks the others, each of which places itself.
PlacePartner(q) ==
    /\ Exists(q) /\ q[2] > 0 /\ step[q] = "unborn"
    /\ step[<<q[1], 0>>] = "placed"
    /\ HandleScheduler(q, <<q[1], 0>>, host.partners, "placed")

PlaceNext == \E q \in Procs : StartChild(q) \/ PlaceChild(q) \/ PlacePartner(q)

PlaceSpec == PlaceInit /\ [][PlaceNext]_placeVars

-----------------------------------------------------------------------------
(* Properties.                                                             *)

Placed == {q \in Procs : step[q] = "placed"}
Apart(q, r) == pin[q] \cap pin[r] = {}

\* There is a processor for each process, none of them so high that
\* 1 << bit is not its bit; spreading is by bits of a power of two, and over
\* all that are online.
EnoughFor(n) ==
    n <= Cardinality(host.allowed) /\ \A c \in host.allowed : c < IntBits - 1
Spreads ==
    /\ host.allowed = 0..host.online - 1
    /\ PowerOfTwo(host.online)

\* UNIQUE: each process has a processor of its own, whichever is placed
\* first; BALANCED: each child of benchmp() has, and its processes share it;
\* SINGLE: all have one.
OwnProcessor ==
    \A q, r \in Placed : ~host.longer /\ q # r =>
        /\ host.policy = "UNIQUE" \/ (host.policy = "UNIQUE_SPREAD" /\ Spreads)
           => (EnoughFor(host.parallel * (host.partners + 1)) => Apart(q, r))
        /\ host.policy = "BALANCED"
              \/ (host.policy = "BALANCED_SPREAD" /\ Spreads)
           => (EnoughFor(host.parallel)
               => IF q[1] = r[1] THEN pin[q] = pin[r] ELSE Apart(q, r))
        /\ host.policy = "SINGLE" => pin[q] = pin[r]
=============================================================================
