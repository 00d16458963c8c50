----------------------------- MODULE MCSamples -----------------------------
(* Samples for TLC: two children, an operation that takes a third of the   *)
(* interval, one of a microsecond, and one too cheap to time.              *)
EXTENDS Samples

MCCosts == {160000, 100, 1}
MCNoise == {95, 100, 105}
MCWide == {80, 100, 120}
=============================================================================
