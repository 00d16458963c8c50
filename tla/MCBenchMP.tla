----------------------------- MODULE MCBenchMP -----------------------------
(* BenchMP for TLC: the constants are given in the configurations.         *)
EXTENDS BenchMP
=============================================================================
