--------------------------- MODULE CtxRingProofs ---------------------------
(***************************************************************************)
(* Proofs about the ring of lat_ctx, for any number of processes, batches, *)
(* laps and failures: types; the daemons are ready before they are timed;  *)
(* no daemon is left when the head is done; the head fails for a reason.   *)
(***************************************************************************)
EXTENDS CtxRing, FiniteSetTheorems, TLAPS

\* Each action by itself: the case split of every proof below.
LEMMA Steps ==
    ASSUME Next
    PROVE  \/ MakePipe \/ PipeFails \/ MadeAll \/ Fork \/ ForkFails
           \/ ForkedAll \/ Write \/ Read \/ Interval \/ Close \/ Kill
           \/ Wait \/ CleanedUp \/ Exit \/ Sigchld \/ HeadKilled
           \/ \E d \in Daemon : CloseOthers(d)
           \/ \E d \in Daemon : DaemonRead(d)
           \/ \E d \in Daemon : DaemonEof(d)
           \/ \E d \in Daemon : DaemonWrite(d)
           \/ \E d \in Daemon : DaemonPipe(d)
           \/ \E d \in Daemon : Crash(d)
BY DEF Next, Head, DaemonStep

-----------------------------------------------------------------------------
(* Types.  TypeOK is inductive with what bounds the loop counters.         *)

Counters ==
    /\ hpc \in {"write", "read"} => left > 0
    /\ hpc = "wait" => i < Procs
    /\ hpc \in {"pipes", "fork"} => left = 1 /\ batch = 0

TypeInv == TypeOK /\ Counters

LEMMA TypeInit == Init => TypeInv
BY RingAssumption DEF Init, TypeInv, TypeOK, Counters, HeadPc, Daemon, Pipe

LEMMA TypeStep == TypeInv /\ [Next]_vars => TypeInv'
<1> SUFFICES ASSUME TypeInv, [Next]_vars PROVE TypeInv'
    OBVIOUS
<1> USE RingAssumption DEF TypeInv, TypeOK, Counters, HeadPc, Daemon, Pipe
<1>1. CASE UNCHANGED vars
    BY <1>1 DEF vars, headVars, ringVars
<1>2. CASE MakePipe
    BY <1>2 DEF MakePipe, At, ringVars
<1>3. CASE PipeFails
    BY <1>3 DEF PipeFails, At, Fault, HeadExits, ringVars
<1>4. CASE MadeAll
    BY <1>4 DEF MadeAll, At, ringVars
<1>5. CASE Fork
    BY <1>5 DEF Fork, At
<1>6. CASE ForkFails
    BY <1>6 DEF ForkFails, At, Fault, ringVars
<1>7. CASE ForkedAll
    BY <1>7 DEF ForkedAll, At, ringVars
<1>8. CASE Write
  <2>1. 0 \in Pipe /\ p[0] \in Nat
    OBVIOUS
  <2>2. p' \in [Pipe -> Nat] /\ laps' \in Nat
    BY <1>8, <2>1 DEF Write
  <2> QED BY <1>8, <2>2 DEF Write, At
<1>9. CASE Read
  <2>1. Procs - 1 \in Pipe /\ p[Procs - 1] \in Nat /\ p[Procs - 1] > 0
    BY <1>9 DEF Read
  <2>2. p' \in [Pipe -> Nat]
    BY <1>9, <2>1 DEF Read
  <2> QED BY <1>9, <2>2 DEF Read, At
<1>10. CASE Interval
  <2>1. CASE batch < Batches
    BY <1>10, <2>1 DEF Interval, At, ringVars
  <2>2. CASE ~(batch < Batches)
    BY <1>10, <2>2 DEF Interval, At, ringVars
  <2> QED BY <2>1, <2>2
<1>11. CASE Close
    BY <1>11 DEF Close, At, ringVars
<1>12. CASE Kill
  <2>1. CASE i \in pids
    BY <1>12, <2>1 DEF Kill, At
  <2>2. CASE i \notin pids
    BY <1>12, <2>2 DEF Kill, At
  <2> QED BY <2>1, <2>2
<1>13. CASE Wait
    BY <1>13 DEF Wait, At
<1>14. CASE CleanedUp
  <2>1. CASE status = "failed"
    BY <1>14, <2>1 DEF CleanedUp, At, ringVars
  <2>2. CASE status # "failed"
    BY <1>14, <2>2 DEF CleanedUp, At, ringVars
  <2> QED BY <2>1, <2>2
<1>15. CASE Exit
    BY <1>15 DEF Exit, At, HeadExits, ringVars
<1>16. CASE Sigchld
    BY <1>16 DEF Sigchld, HeadExits, ringVars, Interrupted
<1>17. CASE HeadKilled
    BY <1>17 DEF HeadKilled, Fault, HeadExits, ringVars
<1>18. ASSUME NEW d \in Daemon, CloseOthers(d) PROVE TypeInv'
    BY <1>18 DEF CloseOthers, headVars
<1>19. ASSUME NEW d \in Daemon, DaemonRead(d) PROVE TypeInv'
  <2>1. d - 1 \in Pipe /\ p[d - 1] \in Nat /\ p[d - 1] > 0
    BY <1>19 DEF DaemonRead
  <2>2. p' \in [Pipe -> Nat]
    BY <1>19, <2>1 DEF DaemonRead
  <2>3. dpc' \in [Daemon -> {"unborn", "closing", "read", "write", "zombie",
                            "reaped"}]
    BY <1>19 DEF DaemonRead
  <2> QED BY <1>19, <2>2, <2>3 DEF DaemonRead, headVars
<1>20. ASSUME NEW d \in Daemon, DaemonEof(d) PROVE TypeInv'
    BY <1>20 DEF DaemonEof, headVars
<1>21. ASSUME NEW d \in Daemon, DaemonWrite(d) PROVE TypeInv'
  <2>1. d \in Pipe /\ p[d] \in Nat /\ passed[d] \in Nat
    BY <1>21 DEF DaemonWrite
  <2>2. p' \in [Pipe -> Nat] /\ passed' \in [Daemon -> Nat]
    BY <1>21, <2>1 DEF DaemonWrite
  <2>3. dpc' \in [Daemon -> {"unborn", "closing", "read", "write", "zombie",
                            "reaped"}]
    BY <1>21 DEF DaemonWrite
  <2> QED BY <1>21, <2>2, <2>3 DEF DaemonWrite, headVars
<1>22. ASSUME NEW d \in Daemon, DaemonPipe(d) PROVE TypeInv'
    BY <1>22 DEF DaemonPipe, headVars
<1>23. ASSUME NEW d \in Daemon, Crash(d) PROVE TypeInv'
    BY <1>23 DEF Crash, Fault, headVars
<1> QED
    BY ONLY [Next]_vars, Steps, <1>1, <1>2, <1>3, <1>4, <1>5, <1>6, <1>7,
       <1>8, <1>9, <1>10, <1>11, <1>12, <1>13, <1>14, <1>15, <1>16, <1>17,
       <1>18, <1>19, <1>20, <1>21, <1>22, <1>23

LEMMA TypeInvariant == Spec => []TypeInv
BY TypeInit, TypeStep, PTL DEF Spec

\* Every variable of the ring has its type, however many processes it has
\* and whatever fails.
THEOREM TypeCorrect == Spec => []TypeOK
<1>1. TypeInv => TypeOK
    BY DEF TypeInv
<1> QED BY <1>1, TypeInvariant, PTL

-----------------------------------------------------------------------------
(* The ring is ready when it is timed.                                     *)

\* While a daemon is not ready no message has got past it; and a message has
\* been all the way around before the first interval.
ReadyInv ==
    /\ hpc \in {"pipes", "fork"} =>
           \A d \in Daemon : d >= i => dpc[d] = "unborn"
    /\ \A d \in Daemon : dpc[d] \in {"unborn", "closing"} =>
         /\ \A q \in Pipe : q >= d => p[q] = 0
         /\ \A e \in Daemon : e >= d => dpc[e] # "write"
    /\ hpc = "interval" \/ batch > 0 =>
           \A d \in Daemon : dpc[d] \notin {"unborn", "closing"}

LEMMA ReadyInit == Init => ReadyInv
BY DEF Init, ReadyInv, Daemon, Pipe

LEMMA ReadyStep == TypeInv /\ ReadyInv /\ [Next]_vars => ReadyInv'
<1> SUFFICES ASSUME TypeInv, ReadyInv, [Next]_vars PROVE ReadyInv'
    OBVIOUS
<1> USE RingAssumption DEF TypeInv, TypeOK, Counters, HeadPc, Daemon, Pipe,
                           ReadyInv
<1>1. CASE UNCHANGED vars
    BY <1>1 DEF vars, headVars, ringVars
<1>2. CASE MakePipe
    BY <1>2 DEF MakePipe, At, ringVars
<1>3. CASE PipeFails
    BY <1>3 DEF PipeFails, At, Fault, HeadExits, ringVars
<1>4. CASE MadeAll
    BY <1>4 DEF MadeAll, At, ringVars
<1>5. CASE Fork
    BY <1>5 DEF Fork, At
<1>6. CASE ForkFails
    BY <1>6 DEF ForkFails, At, Fault, ringVars
<1>7. CASE ForkedAll
    BY <1>7 DEF ForkedAll, At, ringVars
<1>8. CASE Write
    BY <1>8 DEF Write, At
<1>9. CASE Read
    BY <1>9 DEF Read, At
<1>10. CASE Interval
    BY <1>10 DEF Interval, At, ringVars
<1>11. CASE Close
    BY <1>11 DEF Close, At, ringVars
<1>12. CASE Kill
  <2>1. hpc' \notin {"pipes", "fork", "interval"} /\ batch' = batch /\ p' = p
    BY <1>12 DEF Kill, At
  <2>2. \A d \in Daemon : dpc'[d] = dpc[d] \/ dpc'[d] = "zombie"
    BY <1>12 DEF Kill, At
  <2> QED BY <2>1, <2>2
<1>13. CASE Wait
  <2>1. hpc' = "kill" /\ batch' = batch /\ p' = p
    BY <1>13 DEF Wait
  <2>2. \A d \in Daemon : dpc'[d] = dpc[d] \/ dpc'[d] = "reaped"
    BY <1>13 DEF Wait
  <2> QED BY <2>1, <2>2
<1>14. CASE CleanedUp
    BY <1>14 DEF CleanedUp, At, ringVars
<1>15. CASE Exit
    BY <1>15 DEF Exit, At, HeadExits, ringVars
<1>16. CASE Sigchld
    BY <1>16 DEF Sigchld, HeadExits, ringVars
<1>17. CASE HeadKilled
    BY <1>17 DEF HeadKilled, Fault, HeadExits, ringVars
<1>18. ASSUME NEW d \in Daemon, CloseOthers(d) PROVE ReadyInv'
    BY <1>18 DEF CloseOthers, headVars
<1>19. ASSUME NEW d \in Daemon, DaemonRead(d) PROVE ReadyInv'
  <2>1. d - 1 \in Pipe /\ p[d - 1] > 0 /\ dpc[d] = "read"
    BY <1>19 DEF DaemonRead
  <2>2. \A e \in Daemon : dpc[e] \in {"unborn", "closing"} => ~(d - 1 >= e)
    BY <2>1
  <2>3. \A e \in Daemon : dpc'[e] = IF e = d THEN "write" ELSE dpc[e]
    BY <1>19 DEF DaemonRead
  <2>4. \A q \in Pipe : q # d - 1 => p'[q] = p[q]
    BY <1>19 DEF DaemonRead
  <2>5. hpc' = hpc /\ batch' = batch /\ i' = i
    BY <1>19 DEF DaemonRead, headVars
  <2>6. ASSUME NEW e \in Daemon, dpc'[e] \in {"unborn", "closing"}
        PROVE  dpc[e] \in {"unborn", "closing"} /\ e > d
    BY <2>2, <2>3, <2>6
  <2>7. ASSUME NEW e \in Daemon, dpc'[e] \in {"unborn", "closing"}
        PROVE  /\ \A q \in Pipe : q >= e => p'[q] = 0
               /\ \A f \in Daemon : f >= e => dpc'[f] # "write"
    <3>1. dpc[e] \in {"unborn", "closing"} /\ e > d
      BY <2>6, <2>7
    <3>2. \A q \in Pipe : q >= e => p'[q] = 0
      BY <3>1, <2>4
    <3>3. \A f \in Daemon : f >= e => dpc'[f] # "write"
      BY <3>1, <2>3
    <3> QED BY <3>2, <3>3
  <2>8. hpc' = "interval" \/ batch' > 0 =>
            \A e \in Daemon : dpc'[e] \notin {"unborn", "closing"}
    BY <2>3, <2>5
  <2>9. hpc' \in {"pipes", "fork"} =>
            \A e \in Daemon : e >= i' => dpc'[e] = "unborn"
    BY <2>1, <2>3, <2>5
  <2> QED BY <2>7, <2>8, <2>9 DEF ReadyInv
<1>20. ASSUME NEW d \in Daemon, DaemonEof(d) PROVE ReadyInv'
    BY <1>20 DEF DaemonEof, headVars
<1>21. ASSUME NEW d \in Daemon, DaemonWrite(d) PROVE ReadyInv'
  <2>1. dpc[d] = "write"
    BY <1>21 DEF DaemonWrite
  <2>2. \A e \in Daemon : dpc[e] \in {"unborn", "closing"} => ~(d >= e)
    BY <2>1
  <2>3. \A e \in Daemon : dpc'[e] = IF e = d THEN "read" ELSE dpc[e]
    BY <1>21 DEF DaemonWrite
  <2>4. \A q \in Pipe : q # d => p'[q] = p[q]
    BY <1>21 DEF DaemonWrite
  <2>5. hpc' = hpc /\ batch' = batch /\ i' = i
    BY <1>21 DEF DaemonWrite, headVars
  <2>6. ASSUME NEW e \in Daemon, dpc'[e] \in {"unborn", "closing"}
        PROVE  /\ \A q \in Pipe : q >= e => p'[q] = 0
               /\ \A f \in Daemon : f >= e => dpc'[f] # "write"
    <3>1. dpc[e] \in {"unborn", "closing"} /\ e > d
      BY <2>2, <2>3, <2>6
    <3>2. \A q \in Pipe : q >= e => p'[q] = 0
      BY <3>1, <2>4
    <3>3. \A f \in Daemon : f >= e => dpc'[f] # "write"
      BY <3>1, <2>3
    <3> QED BY <3>2, <3>3
  <2>7. hpc' = "interval" \/ batch' > 0 =>
            \A e \in Daemon : dpc'[e] \notin {"unborn", "closing"}
    BY <2>3, <2>5
  <2>8. hpc' \in {"pipes", "fork"} =>
            \A e \in Daemon : e >= i' => dpc'[e] = "unborn"
    BY <2>1, <2>3, <2>5
  <2> QED BY <2>6, <2>7, <2>8 DEF ReadyInv
<1>22. ASSUME NEW d \in Daemon, DaemonPipe(d) PROVE ReadyInv'
    BY <1>22 DEF DaemonPipe, headVars
<1>23. ASSUME NEW d \in Daemon, Crash(d) PROVE ReadyInv'
    BY <1>23 DEF Crash, Fault, Up, headVars
<1> QED
    BY ONLY [Next]_vars, Steps, <1>1, <1>2, <1>3, <1>4, <1>5, <1>6, <1>7,
       <1>8, <1>9, <1>10, <1>11, <1>12, <1>13, <1>14, <1>15, <1>16, <1>17,
       <1>18, <1>19, <1>20, <1>21, <1>22, <1>23

\* No daemon is still closing its copies of the pipe ends when laps are
\* timed: the lap in create_daemons() has waited for every one of them.
THEOREM ReadyRing == Spec => []ReadyWhenTimed
<1>1. ReadyInv => ReadyWhenTimed
    BY DEF ReadyInv, ReadyWhenTimed
<1>2. Spec => []ReadyInv
    BY ReadyInit, ReadyStep, TypeInvariant, PTL DEF Spec
<1> QED BY <1>1, <1>2, PTL

-----------------------------------------------------------------------------
(* Nobody is left behind.                                                  *)

\* The pids stored are those of the daemons forked, which are all when
\* nothing has failed; those the loop of cleanup() has passed are reaped.
CleanInv ==
    /\ hpc \in {"pipes", "fork"} => pids = 1..(i - 1)
    /\ hpc \in {"write", "read", "interval"} => pids = Daemon
    /\ hpc \notin {"close", "kill", "wait", "exited"} => status # "failed"
    /\ status # "failed" /\ hpc \in {"close", "kill", "wait"} =>
           pids = Daemon
    /\ status # "failed" /\ hpc \in {"kill", "wait"} =>
           \A d \in Daemon : d < i => dpc[d] = "reaped"
    /\ NoneLeftBehind

LEMMA CleanInit == Init => CleanInv
BY DEF Init, CleanInv, NoneLeftBehind

LEMMA CleanStep == TypeInv /\ CleanInv /\ [Next]_vars => CleanInv'
<1> SUFFICES ASSUME TypeInv, CleanInv, [Next]_vars PROVE CleanInv'
    OBVIOUS
<1> USE RingAssumption DEF TypeInv, TypeOK, Counters, HeadPc, Daemon, Pipe,
                           CleanInv, NoneLeftBehind
<1>1. CASE UNCHANGED vars
    BY <1>1 DEF vars, headVars, ringVars
<1>2. CASE MakePipe
    BY <1>2 DEF MakePipe, At, ringVars
<1>3. CASE PipeFails
    BY <1>3 DEF PipeFails, At, Fault, HeadExits, ringVars
<1>4. CASE MadeAll
    BY <1>4 DEF MadeAll, At, ringVars
<1>5. CASE Fork
    BY <1>5 DEF Fork, At
<1>6. CASE ForkFails
    BY <1>6 DEF ForkFails, At, Fault, ringVars
<1>7. CASE ForkedAll
    BY <1>7 DEF ForkedAll, At, ringVars
<1>8. CASE Write
    BY <1>8 DEF Write, At
<1>9. CASE Read
    BY <1>9 DEF Read, At
<1>10. CASE Interval
    BY <1>10 DEF Interval, At, ringVars
<1>11. CASE Close
    BY <1>11 DEF Close, At, ringVars
<1>12. CASE Kill
    BY <1>12 DEF Kill, At, Up
<1>13. CASE Wait
    BY <1>13 DEF Wait, At
<1>14. CASE CleanedUp
    BY <1>14 DEF CleanedUp, At, ringVars
<1>15. CASE Exit
    BY <1>15 DEF Exit, At, HeadExits, ringVars
<1>16. CASE Sigchld
    BY <1>16 DEF Sigchld, HeadExits, ringVars
<1>17. CASE HeadKilled
    BY <1>17 DEF HeadKilled, Fault, HeadExits, ringVars
<1>18. ASSUME NEW d \in Daemon, CloseOthers(d) PROVE CleanInv'
    BY <1>18 DEF CloseOthers, headVars
<1>19. ASSUME NEW d \in Daemon, DaemonRead(d) PROVE CleanInv'
    BY <1>19 DEF DaemonRead, headVars
<1>20. ASSUME NEW d \in Daemon, DaemonEof(d) PROVE CleanInv'
    BY <1>20 DEF DaemonEof, headVars
<1>21. ASSUME NEW d \in Daemon, DaemonWrite(d) PROVE CleanInv'
    BY <1>21 DEF DaemonWrite, headVars
<1>22. ASSUME NEW d \in Daemon, DaemonPipe(d) PROVE CleanInv'
    BY <1>22 DEF DaemonPipe, headVars
<1>23. ASSUME NEW d \in Daemon, Crash(d) PROVE CleanInv'
    BY <1>23 DEF Crash, Fault, headVars, Up
<1> QED
    BY ONLY [Next]_vars, Steps, <1>1, <1>2, <1>3, <1>4, <1>5, <1>6, <1>7,
       <1>8, <1>9, <1>10, <1>11, <1>12, <1>13, <1>14, <1>15, <1>16, <1>17,
       <1>18, <1>19, <1>20, <1>21, <1>22, <1>23

\* A head that gets through cleanup(0) without a failure has killed and
\* reaped each of its daemons.
THEOREM CleanEnd == Spec => []NoneLeftBehind
<1>1. CleanInv => NoneLeftBehind
    BY DEF CleanInv
<1>2. Spec => []CleanInv
    BY CleanInit, CleanStep, TypeInvariant, PTL DEF Spec
<1> QED BY <1>1, <1>2, PTL

-----------------------------------------------------------------------------
(* The head fails for a reason.                                            *)

\* Without a failure no daemon ends while the handler is in place, which it
\* is not from the second call of benchmp_interval() on.
QuietInv ==
    faults = 0 =>
        /\ status # "failed"
        /\ handler = "benchmp_child_sigchld" =>
               \A d \in Daemon : dpc[d] # "zombie"
        /\ hpc \in {"close", "kill", "wait", "over", "exited"} =>
               handler = "default"

LEMMA QuietInit == Init => QuietInv
BY DEF Init, QuietInv

LEMMA QuietStep == TypeInv /\ QuietInv /\ [Next]_vars => QuietInv'
<1> SUFFICES ASSUME TypeInv, QuietInv, [Next]_vars PROVE QuietInv'
    OBVIOUS
<1> USE RingAssumption DEF TypeInv, TypeOK, Counters, HeadPc, Daemon, Pipe,
                           QuietInv
<1>1. CASE UNCHANGED vars
    BY <1>1 DEF vars, headVars, ringVars
<1>2. CASE MakePipe
    BY <1>2 DEF MakePipe, At, ringVars
<1>3. CASE PipeFails
    BY <1>3 DEF PipeFails, At, Fault, HeadExits, ringVars
<1>4. CASE MadeAll
    BY <1>4 DEF MadeAll, At, ringVars
<1>5. CASE Fork
    BY <1>5 DEF Fork, At
<1>6. CASE ForkFails
    BY <1>6 DEF ForkFails, At, Fault, ringVars
<1>7. CASE ForkedAll
    BY <1>7 DEF ForkedAll, At, ringVars
<1>8. CASE Write
    BY <1>8 DEF Write, At
<1>9. CASE Read
    BY <1>9 DEF Read, At
<1>10. CASE Interval
    BY <1>10 DEF Interval, At, ringVars
<1>11. CASE Close
    BY <1>11 DEF Close, At, ringVars
<1>12. CASE Kill
    BY <1>12 DEF Kill, At
<1>13. CASE Wait
    BY <1>13 DEF Wait, At
<1>14. CASE CleanedUp
    BY <1>14 DEF CleanedUp, At, ringVars
<1>15. CASE Exit
    BY <1>15 DEF Exit, At, HeadExits, ringVars
<1>16. CASE Sigchld
    BY <1>16 DEF Sigchld, HeadExits, ringVars, Interrupted
<1>17. CASE HeadKilled
    BY <1>17 DEF HeadKilled, Fault, HeadExits, ringVars
<1>18. ASSUME NEW d \in Daemon, CloseOthers(d) PROVE QuietInv'
    BY <1>18 DEF CloseOthers, headVars
<1>19. ASSUME NEW d \in Daemon, DaemonRead(d) PROVE QuietInv'
    BY <1>19 DEF DaemonRead, headVars
<1>20. ASSUME NEW d \in Daemon, DaemonEof(d) PROVE QuietInv'
    BY <1>20 DEF DaemonEof, headVars, Open
<1>21. ASSUME NEW d \in Daemon, DaemonWrite(d) PROVE QuietInv'
    BY <1>21 DEF DaemonWrite, headVars
<1>22. ASSUME NEW d \in Daemon, DaemonPipe(d) PROVE QuietInv'
    BY <1>22 DEF DaemonPipe, headVars, Open
<1>23. ASSUME NEW d \in Daemon, Crash(d) PROVE QuietInv'
    BY <1>23 DEF Crash, Fault, headVars
<1> QED
    BY ONLY [Next]_vars, Steps, <1>1, <1>2, <1>3, <1>4, <1>5, <1>6, <1>7,
       <1>8, <1>9, <1>10, <1>11, <1>12, <1>13, <1>14, <1>15, <1>16, <1>17,
       <1>18, <1>19, <1>20, <1>21, <1>22, <1>23

\* The deaths of the daemons it kills itself never make the head fail.
THEOREM NoFalseAlarm == Spec => []FailsForAReason
<1>1. TypeInv /\ QuietInv => FailsForAReason
    BY RingAssumption DEF TypeInv, TypeOK, QuietInv, FailsForAReason
<1>2. Spec => []QuietInv
    BY QuietInit, QuietStep, TypeInvariant, PTL DEF Spec
<1> QED BY <1>1, <1>2, TypeInvariant, PTL

-----------------------------------------------------------------------------
(* One message goes around.                                                *)

\* The message is nowhere: with the head, or lost with a daemon.
Idle == (\A q \in Pipe : p[q] = 0) /\ \A d \in Daemon : dpc[d] # "write"

\* Exactly the first n daemons have passed the message on in this lap.
PassedBy(n) ==
    \A d \in Daemon : passed[d] = IF d <= n THEN laps ELSE laps - 1

\* Where the message is tells which daemons have passed it on; without it
\* the head runs, or a daemon has died.
InPipe ==
    \A q \in Pipe : p[q] > 0 =>
        /\ p[q] = 1 /\ PassedBy(q)
        /\ \A r \in Pipe : p[r] > 0 => r = q
        /\ \A d \in Daemon : dpc[d] # "write"

InHand ==
    \A d \in Daemon : dpc[d] = "write" =>
        PassedBy(d - 1) /\ \A e \in Daemon : dpc[e] = "write" => e = d

WithHead ==
    /\ Idle => PassedBy(Procs - 1) \/ Dead # {}
    /\ hpc \in {"pipes", "fork", "write", "interval"} =>
           Idle /\ PassedBy(Procs - 1)
    /\ hpc = "read" /\ Dead = {} => ~Idle

InOrder == \A d \in Daemon \ {1} : passed[d] <= passed[d - 1]

MessageInv == InPipe /\ InHand /\ WithHead /\ InOrder

LEMMA MessageInit == Init => MessageInv
BY RingAssumption DEF Init, MessageInv, InPipe, InHand, WithHead, InOrder,
   Idle, PassedBy, Daemon, Pipe

\* A step that leaves the message where it is, revives nobody and does not
\* bring the head where it must have the message.
LEMMA MessageStays ==
    ASSUME TypeInv, MessageInv,
           p' = p, passed' = passed, laps' = laps,
           \A d \in Daemon : dpc'[d] = "write" <=> dpc[d] = "write",
           Dead \subseteq Dead',
           hpc' \in {"pipes", "fork", "write", "interval"} =>
               hpc \in {"pipes", "fork", "write", "interval"},
           hpc' = "read" => hpc = "read"
    PROVE  MessageInv'
<1>1. \A n : PassedBy(n)' <=> PassedBy(n)
    BY DEF PassedBy
<1>2. Idle' <=> Idle
    BY DEF Idle
<1>3. InPipe' /\ InHand'
    BY <1>1 DEF MessageInv, InPipe, InHand
<1>4. WithHead'
    BY <1>1, <1>2 DEF MessageInv, WithHead
<1>5. InOrder'
    BY DEF MessageInv, InOrder
<1> QED BY <1>3, <1>4, <1>5 DEF MessageInv

\* A step that ends a daemon, with the message or without it.
LEMMA MessageLost ==
    ASSUME TypeInv, MessageInv,
           p' = p, passed' = passed, laps' = laps,
           \A d \in Daemon : dpc'[d] = "write" => dpc[d] = "write",
           Dead' # {},
           hpc' \in {"pipes", "fork", "write", "interval"} =>
               hpc \in {"pipes", "fork", "write", "interval"}
    PROVE  MessageInv'
<1>1. \A n : PassedBy(n)' <=> PassedBy(n)
    BY DEF PassedBy
<1>2. Idle => Idle'
    BY DEF Idle
<1>3. InPipe' /\ InHand'
    BY <1>1 DEF MessageInv, InPipe, InHand
<1>4. WithHead'
    BY <1>1, <1>2 DEF MessageInv, WithHead
<1>5. InOrder'
    BY DEF MessageInv, InOrder
<1> QED BY <1>3, <1>4, <1>5 DEF MessageInv

LEMMA MessageStep == TypeInv /\ MessageInv /\ [Next]_vars => MessageInv'
<1> SUFFICES ASSUME TypeInv, MessageInv, [Next]_vars PROVE MessageInv'
    OBVIOUS
<1>1. CASE UNCHANGED vars
    BY <1>1, MessageStays DEF vars, headVars, ringVars, Dead
<1>2. CASE MakePipe
    BY <1>2, MessageStays DEF MakePipe, At, ringVars, Dead
<1>3. CASE PipeFails
    BY <1>3, MessageStays DEF PipeFails, HeadExits, ringVars, Dead
<1>4. CASE MadeAll
    BY <1>4, MessageStays DEF MadeAll, At, ringVars, Dead
<1>5. CASE Fork
  <2>1. /\ p' = p /\ passed' = passed /\ laps' = laps
        /\ hpc = "fork" /\ hpc' = "fork"
    BY <1>5 DEF Fork, At
  <2>2. Idle /\ PassedBy(Procs - 1)
    BY <2>1 DEF MessageInv, WithHead
  <2>3. \A d \in Daemon : dpc'[d] = "closing" \/ dpc'[d] = dpc[d]
    BY <1>5 DEF Fork, TypeInv, TypeOK
  <2>4. Idle' /\ PassedBy(Procs - 1)'
    BY <2>1, <2>2, <2>3 DEF Idle, PassedBy
  <2>5. InPipe' /\ InHand' /\ WithHead'
    BY <2>1, <2>4 DEF Idle, InPipe, InHand, WithHead
  <2>6. InOrder'
    BY <2>1 DEF MessageInv, InOrder
  <2> QED BY <2>5, <2>6 DEF MessageInv
<1>6. CASE ForkFails
    BY <1>6, MessageStays DEF ForkFails, At, ringVars, Dead
<1>7. CASE ForkedAll
    BY <1>7, MessageStays DEF ForkedAll, At, ringVars, Dead
<1>8. CASE Write
  <2>1. /\ passed' = passed /\ dpc' = dpc /\ laps' = laps + 1
        /\ hpc = "write" /\ hpc' = "read"
        /\ p' = [p EXCEPT ![0] = @ + 1]
    BY <1>8 DEF Write, At
  <2>2. Idle /\ PassedBy(Procs - 1)
    BY <2>1 DEF MessageInv, WithHead
  <2>3. laps \in Nat /\ \A d \in Daemon : passed[d] = laps
    BY <2>2, RingAssumption
       DEF PassedBy, Daemon, TypeInv, TypeOK
  <2>4. PassedBy(0)'
    BY <2>1, <2>3, RingAssumption DEF PassedBy, Daemon
  <2>5. 0 \in Pipe /\ \A q \in Pipe : p'[q] = IF q = 0 THEN 1 ELSE 0
    BY <2>1, <2>2, RingAssumption DEF Idle, Pipe, TypeInv, TypeOK
  <2>6. \A d \in Daemon : dpc'[d] # "write"
    BY <2>1, <2>2 DEF Idle
  <2>7. InPipe'
    BY <2>4, <2>5, <2>6 DEF InPipe
  <2>8. InHand'
    BY <2>6 DEF InHand
  <2>9. WithHead'
    BY <2>1, <2>5 DEF WithHead, Idle
  <2>10. InOrder'
    BY <2>1 DEF MessageInv, InOrder
  <2> QED BY <2>7, <2>8, <2>9, <2>10 DEF MessageInv
<1>9. CASE Read
  <2>1. /\ passed' = passed /\ dpc' = dpc /\ laps' = laps
        /\ hpc' \in {"write", "interval"}
        /\ Procs - 1 \in Pipe /\ p[Procs - 1] > 0
        /\ p' = [p EXCEPT ![Procs - 1] = @ - 1]
    BY <1>9, RingAssumption DEF Read, At, Pipe
  <2>2. /\ p[Procs - 1] = 1 /\ PassedBy(Procs - 1)
        /\ \A r \in Pipe : p[r] > 0 => r = Procs - 1
        /\ \A d \in Daemon : dpc[d] # "write"
    BY <2>1 DEF MessageInv, InPipe
  <2>3. \A q \in Pipe : p[q] \in Nat
    BY DEF TypeInv, TypeOK
  <2>4. \A q \in Pipe : p'[q] = 0
    BY <2>1, <2>2, <2>3 DEF TypeInv, TypeOK
  <2>5. Idle' /\ PassedBy(Procs - 1)'
    BY <2>1, <2>2, <2>4 DEF Idle, PassedBy
  <2>6. InPipe' /\ InHand' /\ WithHead'
    BY <2>1, <2>5 DEF Idle, InPipe, InHand, WithHead
  <2>7. InOrder'
    BY <2>1 DEF MessageInv, InOrder
  <2> QED BY <2>6, <2>7 DEF MessageInv
<1>10. CASE Interval
    BY <1>10, MessageStays DEF Interval, At, ringVars, Dead
<1>11. CASE Close
    BY <1>11, MessageStays DEF Close, At, ringVars, Dead
<1>12. CASE Kill
  <2>1. /\ p' = p /\ passed' = passed /\ laps' = laps
        /\ hpc' \in {"kill", "wait"}
    BY <1>12 DEF Kill, At
  <2>2. CASE dpc' = dpc
    BY <2>1, <2>2, MessageStays DEF Dead
  <2>3. CASE i \in Up /\ dpc' = [dpc EXCEPT ![i] = "zombie"]
    <3>1. /\ i \in Daemon /\ dpc'[i] = "zombie"
          /\ \A d \in Daemon : dpc'[d] = "write" => dpc[d] = "write"
      BY <2>3 DEF Up, TypeInv, TypeOK
    <3>2. Dead' # {}
      BY <3>1 DEF Dead
    <3> QED BY <2>1, <3>1, <3>2, MessageLost
  <2>4. dpc' = dpc \/ (i \in Up /\ dpc' = [dpc EXCEPT ![i] = "zombie"])
    BY <1>12 DEF Kill, TypeInv, TypeOK
  <2> QED BY <2>2, <2>3, <2>4
<1>13. CASE Wait
  <2>1. /\ p' = p /\ passed' = passed /\ laps' = laps
        /\ hpc' = "kill" /\ dpc[i] = "zombie"
        /\ dpc' = [dpc EXCEPT ![i] = "reaped"]
    BY <1>13 DEF Wait, At
  <2>2. \A d \in Daemon :
            dpc'[d] = dpc[d] \/ (dpc[d] = "zombie" /\ dpc'[d] = "reaped")
    BY <2>1 DEF TypeInv, TypeOK
  <2>3. Dead \subseteq Dead'
    BY <2>2 DEF Dead
  <2>4. \A d \in Daemon : dpc'[d] = "write" <=> dpc[d] = "write"
    BY <2>2
  <2> QED BY <2>1, <2>3, <2>4, MessageStays
<1>14. CASE CleanedUp
  <2>1. hpc' \in {"exited", "over"}
    BY <1>14 DEF CleanedUp
  <2> QED BY <1>14, <2>1, MessageStays DEF CleanedUp, ringVars, Dead
<1>15. CASE Exit
    BY <1>15, MessageStays DEF Exit, HeadExits, ringVars, Dead
<1>16. CASE Sigchld
    BY <1>16, MessageStays DEF Sigchld, HeadExits, ringVars, Dead
<1>17. CASE HeadKilled
    BY <1>17, MessageStays DEF HeadKilled, HeadExits, ringVars, Dead
<1>18. ASSUME NEW d \in Daemon, CloseOthers(d) PROVE MessageInv'
  <2>1. \A e \in Daemon :
            dpc'[e] = dpc[e] \/ (dpc[e] = "closing" /\ dpc'[e] = "read")
    BY <1>18 DEF CloseOthers, TypeInv, TypeOK
  <2>2. /\ Dead \subseteq Dead'
        /\ \A e \in Daemon : dpc'[e] = "write" <=> dpc[e] = "write"
    BY <2>1 DEF Dead
  <2> QED BY <1>18, <2>2, MessageStays DEF CloseOthers, headVars
<1>19. ASSUME NEW d \in Daemon, DaemonRead(d) PROVE MessageInv'
  <2>1. /\ passed' = passed /\ laps' = laps /\ hpc' = hpc
        /\ dpc[d] = "read" /\ dpc' = [dpc EXCEPT ![d] = "write"]
        /\ d - 1 \in Pipe /\ p[d - 1] > 0
        /\ p' = [p EXCEPT ![d - 1] = @ - 1]
    BY <1>19, RingAssumption DEF DaemonRead, headVars, Daemon, Pipe
  <2>2. /\ p[d - 1] = 1 /\ PassedBy(d - 1)
        /\ \A r \in Pipe : p[r] > 0 => r = d - 1
        /\ \A e \in Daemon : dpc[e] # "write"
    BY <2>1 DEF MessageInv, InPipe
  <2>3. \A q \in Pipe : p[q] \in Nat
    BY DEF TypeInv, TypeOK
  <2>4. \A q \in Pipe : p'[q] = 0
    BY <2>1, <2>2, <2>3 DEF TypeInv, TypeOK
  <2>5. \A e \in Daemon : dpc'[e] = IF e = d THEN "write" ELSE dpc[e]
    BY <2>1 DEF TypeInv, TypeOK
  <2>6. PassedBy(d - 1)'
    BY <2>1, <2>2 DEF PassedBy
  <2>7. InPipe'
    BY <2>4 DEF InPipe
  <2>8. InHand'
    BY <2>2, <2>5, <2>6 DEF InHand
  <2>9. ~Idle /\ ~Idle'
    BY <2>1, <2>5 DEF Idle
  <2>10. WithHead'
    BY <2>1, <2>9 DEF MessageInv, WithHead
  <2>11. InOrder'
    BY <2>1 DEF MessageInv, InOrder
  <2> QED BY <2>7, <2>8, <2>10, <2>11 DEF MessageInv
<1>20. ASSUME NEW d \in Daemon, DaemonEof(d) PROVE MessageInv'
  <2>1. /\ Dead' # {}
        /\ \A e \in Daemon : dpc'[e] = "write" => dpc[e] = "write"
    BY <1>20 DEF DaemonEof, Dead, TypeInv, TypeOK
  <2> QED BY <1>20, <2>1, MessageLost DEF DaemonEof, headVars
<1>21. ASSUME NEW d \in Daemon, DaemonWrite(d) PROVE MessageInv'
  <2>1. /\ laps' = laps /\ hpc' = hpc
        /\ dpc[d] = "write" /\ dpc' = [dpc EXCEPT ![d] = "read"]
        /\ d \in Pipe
        /\ p' = [p EXCEPT ![d] = @ + 1]
        /\ passed' = [passed EXCEPT ![d] = @ + 1]
    BY <1>21, RingAssumption DEF DaemonWrite, headVars, Daemon, Pipe
  <2>2. PassedBy(d - 1) /\ \A e \in Daemon : dpc[e] = "write" => e = d
    BY <2>1 DEF MessageInv, InHand
  <2>3. \A q \in Pipe : p[q] \in Nat /\ ~(p[q] > 0)
    BY <2>1 DEF MessageInv, InPipe, TypeInv, TypeOK
  <2>4. \A q \in Pipe : p'[q] = IF q = d THEN 1 ELSE 0
    BY <2>1, <2>3 DEF TypeInv, TypeOK
  <2>5. \A e \in Daemon : dpc'[e] # "write"
    BY <2>1, <2>2 DEF TypeInv, TypeOK
  <2>6. laps \in Nat /\ d \in Nat
    BY RingAssumption DEF TypeInv, TypeOK, Daemon
  <2>7. passed[d] = laps - 1
    BY <2>2, <2>6 DEF PassedBy
  <2>8. \A e \in Daemon : passed'[e] = IF e = d THEN laps ELSE passed[e]
    BY <2>1, <2>6, <2>7 DEF TypeInv, TypeOK
  <2>9. PassedBy(d)'
    <3> SUFFICES ASSUME NEW e \in Daemon
                 PROVE  passed'[e] = IF e <= d THEN laps ELSE laps - 1
      BY <2>1 DEF PassedBy
    <3>1. passed[e] = IF e <= d - 1 THEN laps ELSE laps - 1
      BY <2>2 DEF PassedBy
    <3>2. e \in Nat
      BY RingAssumption DEF Daemon
    <3> QED BY <2>6, <2>8, <3>1, <3>2
  <2>10. InPipe'
    BY <2>4, <2>5, <2>9 DEF InPipe
  <2>11. InHand'
    BY <2>5 DEF InHand
  <2>12. ~Idle /\ ~Idle'
    BY <2>1, <2>4 DEF Idle
  <2>13. WithHead'
    BY <2>1, <2>12 DEF MessageInv, WithHead
  <2>14. ASSUME NEW e \in Daemon \ {1} PROVE passed'[e] <= passed'[e - 1]
    <3>1. e - 1 \in Daemon /\ e \in Nat /\ e \in Daemon
      BY RingAssumption DEF Daemon
    <3>2. \A f \in Daemon : passed'[f] = IF f <= d THEN laps ELSE laps - 1
      BY <2>1, <2>9 DEF PassedBy
    <3>3. /\ passed'[e] = IF e <= d THEN laps ELSE laps - 1
          /\ passed'[e - 1] = IF e - 1 <= d THEN laps ELSE laps - 1
      BY <3>1, <3>2
    <3> QED BY <2>6, <3>1, <3>3
  <2> QED BY <2>10, <2>11, <2>13, <2>14 DEF MessageInv, InOrder
<1>22. ASSUME NEW d \in Daemon, DaemonPipe(d) PROVE MessageInv'
  <2>1. /\ Dead' # {}
        /\ \A e \in Daemon : dpc'[e] = "write" => dpc[e] = "write"
    BY <1>22 DEF DaemonPipe, Dead, TypeInv, TypeOK
  <2> QED BY <1>22, <2>1, MessageLost DEF DaemonPipe, headVars
<1>23. ASSUME NEW d \in Daemon, Crash(d) PROVE MessageInv'
  <2>1. /\ Dead' # {}
        /\ \A e \in Daemon : dpc'[e] = "write" => dpc[e] = "write"
    BY <1>23 DEF Crash, Dead, TypeInv, TypeOK
  <2> QED BY <1>23, <2>1, MessageLost DEF Crash, headVars
<1> QED
    BY ONLY [Next]_vars, Steps, <1>1, <1>2, <1>3, <1>4, <1>5, <1>6, <1>7,
       <1>8, <1>9, <1>10, <1>11, <1>12, <1>13, <1>14, <1>15, <1>16, <1>17,
       <1>18, <1>19, <1>20, <1>21, <1>22, <1>23

\* A set without two different members has at most one.
LEMMA AtMostOne ==
    ASSUME NEW S, \A a, b \in S : a = b
    PROVE  /\ Cardinality(S) = IF S = {} THEN 0 ELSE 1
           /\ Cardinality(S) \in Nat
<1>1. CASE S = {}
    BY <1>1, FS_EmptySet
<1>2. CASE S # {}
  <2>1. PICK a \in S : TRUE
    BY <1>2
  <2>2. S = {a}
    BY <2>1
  <2>3. Cardinality(S) = 1
    BY <2>2, FS_Singleton
  <2> QED BY <1>2, <2>3
<1> QED BY <1>1, <1>2

LEMMA MessageCounted ==
    ASSUME TypeInv, MessageInv
    PROVE  OneMessage
<1>1. (\A q, r \in Full : q = r) /\ \A d, e \in Holding : d = e
    BY DEF MessageInv, InPipe, InHand, Full, Holding
<1>2. Full = {} \/ Holding = {}
    BY DEF MessageInv, InPipe, Full, Holding
<1>3. /\ Cardinality(Full) = IF Full = {} THEN 0 ELSE 1
      /\ Cardinality(Holding) = IF Holding = {} THEN 0 ELSE 1
  <2> HIDE DEF Full, Holding
  <2> QED BY <1>1, AtMostOne
<1>4. \A q \in Pipe : p[q] \in Nat
    BY DEF TypeInv, TypeOK
<1>5. Idle <=> Full = {} /\ Holding = {}
    BY <1>4 DEF Idle, Full, Holding
<1>6. \A q \in Pipe : p[q] <= 1
    BY <1>4 DEF MessageInv, InPipe
<1>7. Cardinality(Full) + Cardinality(Holding) <= 1
    BY <1>2, <1>3
<1>8. hpc \in {"write", "interval"} => Full = {} /\ Holding = {}
    BY <1>5 DEF MessageInv, WithHead
<1>9. hpc = "read" /\ Dead = {} =>
          Cardinality(Full) + Cardinality(Holding) = 1
  <2>1. hpc = "read" /\ Dead = {} => Full # {} \/ Holding # {}
    BY <1>5 DEF MessageInv, WithHead
  <2> QED BY <1>2, <1>3, <2>1
<1> QED BY <1>6, <1>7, <1>8, <1>9 DEF OneMessage

LEMMA LapCounted ==
    ASSUME TypeInv, MessageInv
    PROVE  LapVisitsAll
<1>1. \A n : PassedBy(n) =>
          \A d \in Daemon : passed[d] \in {laps, laps - 1}
    BY DEF PassedBy
<1>2. Dead # {} \/ \E n : PassedBy(n)
  <2>1. \A q \in Pipe : p[q] \in Nat
    BY DEF TypeInv, TypeOK
  <2>2. CASE Idle
    BY <2>2 DEF MessageInv, WithHead
  <2>3. CASE ~Idle
    BY <2>1, <2>3 DEF MessageInv, Idle, InPipe, InHand
  <2> QED BY <2>2, <2>3
<1>3. \A d \in Daemon : passed[d] \in {laps, laps - 1} \/ Dead # {}
    BY <1>1, <1>2
<1>4. hpc \in {"write", "interval"} => \A d \in Daemon : passed[d] = laps
  <2>1. hpc \in {"write", "interval"} => PassedBy(Procs - 1)
    BY DEF MessageInv, WithHead
  <2>2. \A d \in Daemon : d <= Procs - 1
    BY RingAssumption DEF Daemon
  <2> QED BY <2>1, <2>2 DEF PassedBy
<1> QED BY <1>3, <1>4 DEF MessageInv, InOrder, LapVisitsAll

\* An iteration of lat_ctx is one message once around the ring: it is in one
\* place at a time, and each daemon passes it on once a lap, in order.
THEOREM OneMessageAround == Spec => []OneRound
<1>1. TypeInv /\ MessageInv => OneRound
    BY MessageCounted, LapCounted DEF OneRound
<1>2. Spec => []MessageInv
    BY MessageInit, MessageStep, TypeInvariant, PTL DEF Spec
<1> QED BY <1>1, <1>2, TypeInvariant, PTL
=============================================================================
