------------------------------- MODULE Powers -------------------------------
(***************************************************************************)
(* Powers of two, and numbers with their bits in reverse order, as         *)
(* words_initialize() of lib_mem.c and reverse_bits() of lib_sched.c make  *)
(* them.                                                                   *)
(***************************************************************************)
EXTENDS Integers

TwoTo[n \in Nat] == IF n = 0 THEN 1 ELSE 2 * TwoTo[n - 1]

PowerOfTwo(n) == \E i \in 0..n : n = TwoTo[i]

\* Bits of the largest power of two up to max: how often max can be halved.
NBits(max) ==
    CHOOSE n \in 0..max : TwoTo[n] <= max /\ max < TwoTo[n + 1]

\* The last n bits of i in reverse order.
Reversed[n \in Nat] ==
    IF n = 0 THEN [i \in Nat |-> 0]
    ELSE [i \in Nat |-> (i % 2) * TwoTo[n - 1] + Reversed[n - 1][i \div 2]]
=============================================================================
