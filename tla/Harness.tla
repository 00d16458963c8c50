------------------------------- MODULE Harness -------------------------------
(***************************************************************************)
(* What a call of benchmp() promises, whatever the pipes and signals it    *)
(* is made of: doc/lmbench3.ms, "Timing Harness", and the parent/child     *)
(* table there.  The four sets only grow: children that are ready, that    *)
(* have begun to measure, that are done, and that have reported.           *)
(***************************************************************************)
EXTENDS Integers

CONSTANT P
Child == 1..P

VARIABLES ready, begun, done, reported, outcome
vars == <<ready, begun, done, reported, outcome>>

Init ==
    /\ ready = {} /\ begun = {} /\ done = {} /\ reported = {}
    /\ outcome = "running"

BecomeReady(c) ==
    /\ ready' = ready \cup {c}
    /\ UNCHANGED <<begun, done, reported, outcome>>

\* The start barrier.  After a failure nothing is promised of it.
Begin(c) ==
    /\ ready = Child \/ outcome = "failed"
    /\ begun' = begun \cup {c}
    /\ UNCHANGED <<ready, done, reported, outcome>>

Finish(c) ==
    /\ c \in begun
    /\ done' = done \cup {c}
    /\ UNCHANGED <<ready, begun, reported, outcome>>

\* The result barrier.
Report(c) ==
    /\ done = Child \/ outcome = "failed"
    /\ reported' = reported \cup {c}
    /\ UNCHANGED <<ready, begun, done, outcome>>

Succeed ==
    /\ outcome = "running" /\ reported = Child
    /\ outcome' = "ok"
    /\ UNCHANGED <<ready, begun, done, reported>>

Fail ==
    /\ outcome = "running"
    /\ outcome' = "failed"
    /\ UNCHANGED <<ready, begun, done, reported>>

Next ==
    \/ \E c \in Child : BecomeReady(c) \/ Begin(c) \/ Finish(c) \/ Report(c)
    \/ Succeed \/ Fail

Spec == Init /\ [][Next]_vars
=============================================================================
