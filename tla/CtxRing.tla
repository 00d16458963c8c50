------------------------------ MODULE CtxRing ------------------------------
(***************************************************************************)
(* The ring of processes lat_ctx times context switches with               *)
(* (src/lat_ctx.c), inside one child of benchmp().  The child is the head  *)
(* of the ring: it makes the pipes, forks the daemons, sends one message   *)
(* around to see that all are ready, times laps of that message, and in    *)
(* the end closes the pipes and kills the daemons.  Pipe p goes to daemon  *)
(* p + 1, the last one back to the head.                                   *)
(*                                                                         *)
(* Of benchmp_child() and benchmp_interval() (src/lib_timing.c) it keeps   *)
(* what the ring meets: the SIGCHLD handler, the batches of iterations and *)
(* the two calls of cleanup().  BenchMP models the rest of them.           *)
(***************************************************************************)
EXTENDS Integers, FiniteSets

CONSTANTS
    Procs,          \* processes in the ring, the head included
    Batches,        \* calls of benchmark() before the result is asked for
    Iterations,     \* laps of one of them
    Faults,         \* kinds of failure that may happen
    MaxFaults       \* how many of them

ASSUME RingAssumption ==
    /\ Procs \in Nat \ {0} /\ Batches \in Nat \ {0}
    /\ Iterations \in Nat \ {0} /\ MaxFaults \in Nat
    /\ Faults \subseteq {"pipe", "fork", "crash", "kill"}

Daemon == 1..(Procs - 1)
Pipe == 0..(Procs - 1)

VARIABLES
    hpc,            \* where the head is
    made,           \* pipes it has made
    i,              \* its loop counter over the daemons
    pids,           \* the daemons whose pid it has stored
    handler,        \* its SIGCHLD: "default", or benchmp_child_sigchld
    batch, left,    \* calls of benchmark(), laps left in this one
    laps,           \* laps it has begun
    status,         \* how it ended: "none", "ok", "failed"
    dpc,            \* where each daemon is
    p,              \* messages in each pipe
    passed,         \* messages each daemon has passed on
    faults          \* failures that have happened

headVars == <<hpc, made, i, pids, handler, batch, left, laps, status>>
ringVars == <<dpc, p, passed>>
vars == <<headVars, ringVars, faults>>

HeadPc == {"pipes", "fork", "write", "read", "interval", "close", "kill",
           "wait", "over", "exited"}

Up == {d \in Daemon : dpc[d] \in {"closing", "read", "write"}}

\* The head has the ends of the pipes open.
Open == hpc \notin {"kill", "wait", "over", "exited"}

\* Mutant: the others' write ends stay open.
WritersUnclosed(q) == Up

\* A child keeps the read end before it and the write end after it; until
\* it has closed the others it has all of them.
Readers(q) == {d \in Up : d = q + 1 \/ dpc[d] = "closing"}
Writers(q) == {d \in Up : d = q \/ dpc[d] = "closing"}

\* SIGCHLD is pending.  No statement of the head runs before its handler.
Interrupted ==
    /\ handler = "benchmp_child_sigchld" /\ hpc # "exited"
    /\ \E d \in Daemon : dpc[d] = "zombie"

Fault(kind) == kind \in Faults /\ faults < MaxFaults /\ faults' = faults + 1

\* The head is between two statements, with nothing pending.
At(pc) == hpc = pc /\ ~Interrupted

Init ==
    /\ hpc = "pipes" /\ made = 0 /\ i = 1 /\ pids = {}
    /\ handler = "benchmp_child_sigchld"
    /\ batch = 0 /\ left = 1 /\ laps = 0 /\ status = "none"
    /\ dpc = [d \in Daemon |-> "unborn"]
    /\ p = [q \in Pipe |-> 0]
    /\ passed = [d \in Daemon |-> 0]
    /\ faults = 0

HeadExits(how) == hpc' = "exited" /\ status' = how

-----------------------------------------------------------------------------
(* The head: initialize(0, cookie).                                        *)

MakePipe ==
    /\ At("pipes") /\ made < Procs
    /\ made' = made + 1
    /\ UNCHANGED <<hpc, i, pids, handler, batch, left, laps, status,
                   ringVars, faults>>

\* "if (procs < pState->procs)": close what there is and exit(1).
PipeFails ==
    /\ At("pipes") /\ made < Procs /\ Fault("pipe")
    /\ HeadExits("failed")
    /\ UNCHANGED <<made, i, pids, handler, batch, left, laps, ringVars>>

MadeAll ==
    /\ At("pipes") /\ made = Procs
    /\ hpc' = "fork"
    /\ UNCHANGED <<made, i, pids, handler, batch, left, laps, status,
                   ringVars, faults>>

Fork ==
    /\ At("fork") /\ i < Procs
    /\ dpc' = [dpc EXCEPT ![i] = "closing"]
    /\ pids' = pids \cup {i} /\ i' = i + 1
    /\ UNCHANGED <<hpc, made, handler, batch, left, laps, status,
                   p, passed, faults>>

\* pids[i] is -1: clean up and exit(1).
ForkFails ==
    /\ At("fork") /\ i < Procs /\ Fault("fork")
    /\ hpc' = "close" /\ status' = "failed"
    /\ UNCHANGED <<made, i, pids, handler, batch, left, laps, ringVars>>

\* Mutant: take the daemons to be ready.
ForkedAllReady ==
    /\ At("fork") /\ i = Procs
    /\ hpc' = "interval" /\ left' = 0
    /\ UNCHANGED <<made, i, pids, handler, batch, laps, status,
                   ringVars, faults>>

\* "Go once around the loop to make sure that everyone is ready".
ForkedAll ==
    /\ At("fork") /\ i = Procs
    /\ hpc' = "write"
    /\ UNCHANGED <<made, i, pids, handler, batch, left, laps, status,
                   ringVars, faults>>

-----------------------------------------------------------------------------
(* The head: benchmark(), and benchmp_interval() between two calls of it.  *)

\* Mutant: the first message is sent, and not waited for.
WriteOnly ==
    /\ At("write")
    /\ p' = [p EXCEPT ![0] = @ + 1]
    /\ laps' = laps + 1
    /\ IF batch = 0 THEN hpc' = "interval" /\ left' = 0
                    ELSE hpc' = "read" /\ UNCHANGED left
    /\ UNCHANGED <<made, i, pids, handler, batch, status,
                   dpc, passed, faults>>

Write ==
    /\ At("write")
    /\ p' = [p EXCEPT ![0] = @ + 1]
    /\ hpc' = "read" /\ laps' = laps + 1
    /\ UNCHANGED <<made, i, pids, handler, batch, left, status,
                   dpc, passed, faults>>

\* Mutant: the count of iterations is looked at before it is lowered.
ReadOneMore ==
    /\ At("read") /\ p[Procs - 1] > 0
    /\ p' = [p EXCEPT ![Procs - 1] = @ - 1]
    /\ left' = left - 1
    /\ hpc' = IF left > 0 THEN "write" ELSE "interval"
    /\ UNCHANGED <<made, i, pids, handler, batch, laps, status,
                   dpc, passed, faults>>

\* Until the message is back the head blocks here.  It holds write ends of
\* all pipes itself, and so never reads end of file.
Read ==
    /\ At("read") /\ p[Procs - 1] > 0
    /\ p' = [p EXCEPT ![Procs - 1] = @ - 1]
    /\ left' = left - 1
    /\ hpc' = IF left > 1 THEN "write" ELSE "interval"
    /\ UNCHANGED <<made, i, pids, handler, batch, laps, status,
                   dpc, passed, faults>>

\* Mutant: the handler stays.
IntervalHandled ==
    /\ At("interval")
    /\ UNCHANGED handler
    /\ IF batch < Batches
       THEN hpc' = "write" /\ batch' = batch + 1 /\ left' = Iterations
       ELSE hpc' = "close" /\ UNCHANGED <<batch, left>>
    /\ UNCHANGED <<made, i, pids, laps, status, ringVars, faults>>

\* Every call but the first sets SIGCHLD to SIG_DFL; cleanup(iterations)
\* does nothing.  Then another batch, or the result is asked for.
Interval ==
    /\ At("interval")
    /\ handler' = IF batch > 0 THEN "default" ELSE handler
    /\ IF batch < Batches
       THEN hpc' = "write" /\ batch' = batch + 1 /\ left' = Iterations
       ELSE hpc' = "close" /\ UNCHANGED <<batch, left>>
    /\ UNCHANGED <<made, i, pids, laps, status, ringVars, faults>>

-----------------------------------------------------------------------------
(* The head: cleanup(0, cookie), its exit, its handler, its death.         *)

\* cleanup_overhead(): close both ends of every pipe.
Close ==
    /\ At("close")
    /\ hpc' = "kill" /\ i' = 1
    /\ UNCHANGED <<made, pids, handler, batch, left, laps, status,
                   ringVars, faults>>

\* Mutant: kill without waiting.
KillOnly ==
    /\ At("kill") /\ i < Procs
    /\ dpc' = [dpc EXCEPT ![i] = IF i \in Up THEN "zombie" ELSE @]
    /\ hpc' = "kill" /\ i' = i + 1
    /\ UNCHANGED <<made, pids, handler, batch, left, laps, status,
                   p, passed, faults>>

\* kill(pState->pids[i], SIGKILL); it may have exited already.
Kill ==
    /\ At("kill") /\ i < Procs
    /\ IF i \in pids
       THEN /\ hpc' = "wait" /\ UNCHANGED i
            /\ dpc' = [dpc EXCEPT ![i] = IF i \in Up THEN "zombie" ELSE @]
       ELSE /\ i' = i + 1 /\ UNCHANGED <<hpc, dpc>>
    /\ UNCHANGED <<made, pids, handler, batch, left, laps, status,
                   p, passed, faults>>

\* waitpid(pState->pids[i], NULL, 0)
Wait ==
    /\ At("wait") /\ dpc[i] = "zombie"
    /\ dpc' = [dpc EXCEPT ![i] = "reaped"]
    /\ hpc' = "kill" /\ i' = i + 1
    /\ UNCHANGED <<made, pids, handler, batch, left, laps, status,
                   p, passed, faults>>

\* cleanup() returns: initialize() goes on to exit(1), benchmp_interval()
\* to wait for the parent's permission to exit.
CleanedUp ==
    /\ At("kill") /\ i = Procs
    /\ pids' = {}
    /\ hpc' = IF status = "failed" THEN "exited" ELSE "over"
    /\ UNCHANGED <<made, i, handler, batch, left, laps, status,
                   ringVars, faults>>

Exit ==
    /\ At("over")
    /\ HeadExits("ok")
    /\ UNCHANGED <<made, i, pids, handler, batch, left, laps, ringVars, faults>>

\* Mutant: sigchld_wait_handler() in its place.
SigchldWaits ==
    /\ Interrupted
    /\ \E d \in Daemon :
         dpc[d] = "zombie" /\ dpc' = [dpc EXCEPT ![d] = "reaped"]
    /\ UNCHANGED <<headVars, p, passed, faults>>

\* benchmp_child_sigchld() calls cleanup() with its own state for a cookie:
\* pids and pipes are read from fields that hold something else, and the
\* head dies of that before it kills a daemon.
Sigchld ==
    /\ Interrupted
    /\ HeadExits("failed")
    /\ UNCHANGED <<made, i, pids, handler, batch, left, laps, ringVars, faults>>

HeadKilled ==
    /\ hpc # "exited" /\ Fault("kill")
    /\ HeadExits("failed")
    /\ UNCHANGED <<made, i, pids, handler, batch, left, laps, ringVars>>

Head ==
    \/ MakePipe \/ MadeAll \/ Fork \/ ForkedAll
    \/ Write \/ Read \/ Interval
    \/ Close \/ Kill \/ Wait \/ CleanedUp \/ Exit \/ Sigchld

-----------------------------------------------------------------------------
(* A daemon: its part of create_daemons(), and doit().                     *)

CloseOthers(d) ==
    /\ dpc[d] = "closing"
    /\ dpc' = [dpc EXCEPT ![d] = "read"]
    /\ UNCHANGED <<headVars, p, passed, faults>>

DaemonRead(d) ==
    /\ dpc[d] = "read" /\ p[d - 1] > 0
    /\ p' = [p EXCEPT ![d - 1] = @ - 1]
    /\ dpc' = [dpc EXCEPT ![d] = "write"]
    /\ UNCHANGED <<headVars, passed, faults>>

\* End of file: nobody can write to the pipe any more.
DaemonEof(d) ==
    /\ dpc[d] = "read" /\ p[d - 1] = 0
    /\ ~Open /\ Writers(d - 1) = {}
    /\ dpc' = [dpc EXCEPT ![d] = "zombie"]
    /\ UNCHANGED <<headVars, p, passed, faults>>

DaemonWrite(d) ==
    /\ dpc[d] = "write" /\ (Open \/ Readers(d) # {})
    /\ p' = [p EXCEPT ![d] = @ + 1]
    /\ passed' = [passed EXCEPT ![d] = @ + 1]
    /\ dpc' = [dpc EXCEPT ![d] = "read"]
    /\ UNCHANGED <<headVars, faults>>

\* SIGPIPE: nobody can read from the pipe any more.
DaemonPipe(d) ==
    /\ dpc[d] = "write" /\ ~Open /\ Readers(d) = {}
    /\ dpc' = [dpc EXCEPT ![d] = "zombie"]
    /\ UNCHANGED <<headVars, p, passed, faults>>

\* malloc() fails in doit(), or the daemon is killed.
Crash(d) ==
    /\ d \in Up /\ Fault("crash")
    /\ dpc' = [dpc EXCEPT ![d] = "zombie"]
    /\ UNCHANGED <<headVars, p, passed>>

DaemonStep(d) ==
    \/ CloseOthers(d) \/ DaemonRead(d) \/ DaemonEof(d)
    \/ DaemonWrite(d) \/ DaemonPipe(d)

-----------------------------------------------------------------------------

Next ==
    \/ Head \/ PipeFails \/ ForkFails \/ HeadKilled
    \/ \E d \in Daemon : DaemonStep(d) \/ Crash(d)

Spec == Init /\ [][Next]_vars

\* The kernel runs every process that can run; nothing else is assumed.
FairSpec ==
    /\ Spec
    /\ WF_vars(Head)
    /\ \A d \in Daemon : WF_vars(DaemonStep(d))

-----------------------------------------------------------------------------
(* Safety.                                                                 *)

TypeOK ==
    /\ hpc \in HeadPc /\ made \in 0..Procs /\ i \in 1..Procs
    /\ pids \subseteq Daemon
    /\ handler \in {"default", "benchmp_child_sigchld"}
    /\ batch \in 0..Batches /\ left \in 0..Iterations /\ laps \in Nat
    /\ status \in {"none", "ok", "failed"}
    /\ dpc \in [Daemon -> {"unborn", "closing", "read", "write", "zombie",
                           "reaped"}]
    /\ p \in [Pipe -> Nat] /\ passed \in [Daemon -> Nat]
    /\ faults \in 0..MaxFaults

Dead == {d \in Daemon : dpc[d] \in {"zombie", "reaped"}}
Full == {q \in Pipe : p[q] > 0}
Holding == {d \in Daemon : dpc[d] = "write"}

\* There is one message and it is nowhere twice: in one pipe or with one
\* daemon while the head waits for it, else with the head.  No more than
\* one process of the ring has anything to do, and every hand-over is the
\* context switch lat_ctx counts.
OneMessage ==
    /\ \A q \in Pipe : p[q] <= 1
    /\ Cardinality(Full) + Cardinality(Holding) <= 1
    /\ hpc \in {"write", "interval"} => Full = {} /\ Holding = {}
    /\ hpc = "read" /\ Dead = {} =>
           Cardinality(Full) + Cardinality(Holding) = 1

\* A lap is one pass of every daemon, in order: main() divides the time of
\* an iteration by procs.
LapVisitsAll ==
    /\ \A d \in Daemon : passed[d] \in {laps, laps - 1} \/ Dead # {}
    /\ \A d \in Daemon \ {1} : passed[d] <= passed[d - 1]
    /\ hpc \in {"write", "interval"} => \A d \in Daemon : passed[d] = laps

\* An iteration of lat_ctx is one message once around the ring.
OneRound == OneMessage /\ LapVisitsAll

\* When the timing starts every daemon has closed its pipe ends and blocks
\* in read(): none of its start-up is timed.
ReadyWhenTimed ==
    hpc \in {"write", "read"} /\ batch > 0 =>
        \A d \in Daemon : dpc[d] \notin {"unborn", "closing"}

\* The head gets past cleanup(0) with no daemon left, not even a zombie.
NoneLeftBehind ==
    hpc = "over" => \A d \in Daemon : dpc[d] = "reaped"

\* The head does not take the deaths of daemons it kills itself for a
\* failure: only a failure makes it fail.
FailsForAReason == status = "failed" => faults > 0

-----------------------------------------------------------------------------
(* Liveness.                                                               *)

\* However the head ends, no daemon stays: each reads end of file, gets
\* SIGPIPE or is killed.
DaemonsFollow == hpc = "exited" ~> Up = {}

\* Until the second call of benchmp_interval() a daemon's death ends the
\* head; later the head waits for a message that does not come.
DeathNoticed ==
    handler = "benchmp_child_sigchld" /\ (\E d \in Daemon : dpc[d] = "zombie")
        ~> hpc = "exited"

\* If nothing fails the head gets through and every lap is run.
Completes ==
    [](faults = 0) =>
        <>(status = "ok" /\ laps = Batches * Iterations + 1)

\* The head ends: with all its laps, or because a daemon has died.
HeadEnds == DeathNoticed /\ Completes
=============================================================================
