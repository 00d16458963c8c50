---------------------------- MODULE HooksProofs ----------------------------
(***************************************************************************)
(* Proofs about initialize(), benchmark() and cleanup() of the benchmarks, *)
(* for any number of intervals, laps and faults: whom cleanup() kills,     *)
(* what it leaves behind, and one hand-over at a time.                     *)
(***************************************************************************)
EXTENDS Hooks, FiniteSetTheorems, TLAPS

-----------------------------------------------------------------------------
(* What the proofs need to know of the programs.                           *)

\* A call that removes r is in the list.
Drops(steps, r) ==
    \E m \in 1..Len(steps) : steps[m].do = "drop" /\ steps[m].what = r

\* It is at k or after, and no failing call before it ends the hook.
DropsFrom(steps, r, k) ==
    \E m \in k..Len(steps) :
        /\ steps[m].do = "drop" /\ steps[m].what = r
        /\ \A n \in k..m : steps[n].fails # "return"

Has(steps, what) == \E n \in 1..Len(steps) : steps[n].do = what

SetupRegular(b) ==
    /\ Len(b.setup) \in Nat
    /\ \A n \in 1..Len(b.setup) :
          /\ b.setup[n].fails \in {"exit", "on", "return"}
          /\ b.setup[n].do = "hello" => b.talk = "ask" /\ b.units = 1
          /\ b.setup[n].do = "make" =>
                /\ b.hook /\ b.cookie = "state"
                /\ \/ Drops(b.teardown, b.setup[n].what)
                   \/ DropsFrom(b.setup, b.setup[n].what, n + 1)
          /\ b.setup[n].do = "pair" => b.name \in {"lat_unix", "bw_unix"}
          /\ b.setup[n].do = "fork" =>
                /\ b.hook /\ ~b.each /\ b.cookie = "state"
                /\ Has(b.teardown, "reap")
                /\ b.setup[n].fails # "exit" => b.talk \in {"ask", "turns"}
                /\ \A m \in 1..Len(b.setup) : b.setup[m].do = "fork" => m = n

TeardownRegular(b) ==
    /\ Len(b.teardown) \in Nat
    /\ \A n \in 1..Len(b.teardown) :
          b.teardown[n].do = "kill" =>
              /\ n < Len(b.teardown) /\ b.teardown[n + 1].do = "reap"
              /\ b.talk \in {"ask", "turns"} /\ b.teardown[n].what # "positive"
                 => b.name \in {"lat_pipe", "lat_unix", "lat_sem"}

\* Programs with jobs, or copies, are these.
JobsRegular(b) ==
    /\ b.njobs \in Nat /\ (b.talk # "jobs" => b.njobs = 0)
    /\ b.talk = "jobs" => ~b.each /\ ~Has(b.setup, "fork")
    /\ b.talk = "jobs" /\ b.name # "lat_proc" =>
          ~b.hook /\ Len(b.teardown) = 0
    /\ b.talk = "copies" =>
          /\ b.name = "lat_cmd" /\ ~b.hook /\ ~b.each /\ Len(b.setup) = 0
          /\ b.cookie = "state" /\ ~Has(b.setup, "fork")
    /\ b.cookie = "global" <=> b.name = "lat_proc"
    /\ b.name = "lat_proc" =>
          /\ b.talk = "jobs" /\ b.njobs = 1 /\ b.dfl /\ b.hook
          /\ Len(b.setup) = 0 /\ Len(b.teardown) = 2
          /\ b.teardown[1].do = "kill" /\ b.teardown[2].do = "reap"

Regular(b) ==
    /\ b.each \in BOOLEAN /\ b.hook \in BOOLEAN /\ b.dfl \in BOOLEAN
    /\ b.units \in {1, 2} /\ (b.talk = "turns" => b.units = 1)
    /\ b.each => b.hook /\ b.talk = "none"
    /\ b.name \in {"lat_unix", "bw_unix"} => b.talk = "ask"
    /\ b.name = "lat_unix" => b.hook
    /\ SetupRegular(b) /\ TeardownRegular(b) /\ JobsRegular(b)

LEMMA ProgramsRegular == \A b \in Benchmarks : Regular(b)
<1> USE DEF Local, Try, Pair, Make, Drop, Fork, Hello, Kill, Reap, Drops, DropsFrom,
            Has, Regular, SetupRegular, TeardownRegular, JobsRegular
<1>1. Regular(LatPipe)   BY DEF LatPipe
<1>2. Regular(LatUnix)   BY DEF LatUnix
<1>3. Regular(LatFifo)   BY DEF LatFifo
<1>4. Regular(LatSem)    BY DEF LatSem
<1>5. Regular(LatFcntl)  BY DEF LatFcntl
<1>6. Regular(BwPipe)    BY DEF BwPipe
<1>7. Regular(BwUnix)    BY DEF BwUnix
<1>8. Regular(LatProc)   BY DEF LatProc
<1>9. Regular(LatCmd)    BY DEF LatCmd
<1>10. Regular(LatPmake) BY DEF LatPmake
<1>11. Regular(LatFs)    BY DEF LatFs
<1>12. Regular(BwFileRd) BY DEF BwFileRd
<1>13. Regular(BwMmapRd) BY DEF BwMmapRd
<1>14. Regular(LatMmap)  BY DEF LatMmap
<1>15. Regular(LatPagefault) BY DEF LatPagefault
<1>16. Regular(LatSelect) BY DEF LatSelect
<1>17. Regular(LatSig)   BY DEF LatSig
<1> HIDE DEF Regular
<1> QED
    BY <1>1, <1>2, <1>3, <1>4, <1>5, <1>6, <1>7, <1>8, <1>9, <1>10, <1>11,
       <1>12, <1>13, <1>14, <1>15, <1>16, <1>17, BenchmarkAssumption
-----------------------------------------------------------------------------
(* The invariant.                                                          *)

Pc == {"setup", "hello", "enter", "entered", "bench", "answer", "A2", "A3",
       "A4", "assign", "failed", "blocked", "teardown", "torn", "wait",
       "exited"}
InHook == {"setup", "hello"}
Torn == {"torn", "wait"}
Orderly == ending \in {"orderly", "gave up"}
Owned == Living \cup {"dead"}

ChildTypes ==
    /\ bench \in Benchmarks
    /\ apc \in Pc
    /\ goal \in {"enter", "entered", "exit", "wait", "term"}
    /\ sigchld \in {"handler", "default"} /\ handled \in BOOLEAN
    /\ ending \in {"none", "error", "orderly", "gave up", "term", "killed"}

OtherTypes ==
    /\ pid \in {"none", "own", "failed"}
    /\ partner \in {"none", "reaped"} \cup Owned
    /\ jobs \in [Job -> {"none", "running", "zombie", "reaped"}]
    /\ known \in [Job -> {"none", "own", "failed"}]
    /\ orphan \in BOOLEAN

Counters ==
    /\ ip \in Nat /\ ip > 0
    /\ interval \in Nat /\ laps \in 0..Laps /\ got \in Nat
    /\ owe \in Nat /\ a2b \in Nat /\ b2a \in Nat

\* Where the steps of the hooks are, and what comes after cleanup().
Phases ==
    /\ apc = "exited" <=> ending # "none"
    /\ apc = "hello" => ip \in 1..Len(Setup) /\ Setup[ip].do = "hello"
    /\ apc \in {"teardown", "torn"} => goal # "enter"
    /\ apc \in {"teardown", "torn"} /\ goal = "entered" => bench.each
    /\ goal = "term" =>
          apc \in {"teardown", "torn", "exited"} /\ bench.cookie = "global"
    /\ apc \notin InHook \cup {"teardown", "torn", "wait", "exited"} => handled
    /\ bench.each => handled
    /\ apc = "answer" => laps > 0 /\ bench.talk = "ask"
    /\ apc = "assign" => laps > 0 /\ bench.talk = "jobs"
    /\ apc = "failed" => bench.name = "lat_proc"
    /\ apc = "blocked" => bench.talk = "ask"
    /\ apc \in InHook /\ ~bench.each => interval = 0

\* Why signals come, and whom cleanup() kills.
Reasons ==
    /\ orphan => "orphan" \in faults
    /\ pending # {} /\ bench.talk # "jobs" =>
          Broken \/ faults \cap {"term", "early", "gap", "partner"} # {}
    /\ OnlyOwnChildren

\* Without a socket pair, lat_unix calls cleanup() itself.
Unpaired ==
    /\ "pair" \in faults => bench.name \in {"lat_unix", "bw_unix"}
    /\ apc = "teardown" /\ goal # "term" =>
          sigchld = "default" \/ "pair" \in faults

\* Originals that wait for their copies are lat_cmd's.
Originals ==
    /\ waiting \in Seq([interval : Nat, laps : 1..Laps])
    /\ waiting # <<>> => handled /\ bench.talk = "copies"

\* A child whose fork() failed waits for an answer that does not come; only
\* if its parent dies before that, or it has no socket to wait at, does it
\* call cleanup().
ForkFailed ==
    pid = "failed" =>
        /\ "fork" \in faults /\ partner = "none"
        /\ apc # "exited" => bench.talk \in {"ask", "turns"}
        /\ apc # "exited" => interval = 0 \/ "pair" \in faults
        /\ apc = "bench" => laps > 0 \/ "pair" \in faults
        /\ apc = "teardown" => orphan \/ "pair" \in faults

\* It has one partner, from its fork() to its waitpid().
OnePartner ==
    /\ apc \in InHook /\ (\E n \in ip..Len(Setup) : Setup[n].do = "fork") =>
          pid = "none" /\ partner = "none"
    /\ pid = "own" <=> partner \in Owned
    /\ partner = "none" => owe = 0 /\ b2a = 0
    /\ partner # "none" \/ pid # "none" => Has(Setup, "fork")
    /\ apc = "teardown" /\ partner \in Owned =>
          \E m \in ip..Len(Teardown) : Teardown[m].do = "reap"
    /\ apc \in Torn \/ Orderly => partner \in {"none", "reaped"}

\* What it has made is removed by a step still to come.
Resources ==
    /\ bench.cookie = "global" \/ ~bench.hook => res = {}
    /\ apc \in InHook =>
          \A r \in res : Drops(Teardown, r) \/ DropsFrom(Setup, r, ip)
    /\ apc \notin InHook \cup {"exited"} => \A r \in res : Drops(Teardown, r)
    /\ apc = "teardown" =>
          \A r \in res : \E m \in ip..Len(Teardown) :
              Teardown[m].do = "drop" /\ Teardown[m].what = r
    /\ apc \in Torn \/ Orderly => res = {}
    /\ bench.each /\ (apc = "entered" \/ (apc = "enter" /\ interval = 0)) =>
          res = {}

\* Its jobs are those of an iteration, and are all waited for.
Idle == \A j \in Job : jobs[j] = "none" /\ known[j] = "none"
JobsIdle ==
    /\ apc \notin {"bench", "assign", "failed", "exited"} /\ goal # "term"
          => Idle
    /\ apc = "bench" /\ laps = 0 => Idle
    /\ Orderly => Idle
    /\ bench.talk = "jobs" /\ apc \in {"bench", "assign"} =>
          /\ ip \in 1..bench.njobs + 1
          /\ \A j \in Job : j < ip => jobs[j] \in {"none", "reaped"}
          /\ ip > 1 => Started
    /\ apc = "assign" => ip = 1

\* The pid of lat_proc is forgotten after waitpid(), and known, but for the
\* moment after fork(), while the job runs.
JobKnown ==
    bench.name = "lat_proc" =>
        /\ known[1] = "failed" =>
               /\ "fork" \in faults /\ jobs[1] = "none"
               /\ apc \in {"failed", "teardown", "torn", "exited"}
        /\ jobs[1] = "running" \/ apc \in {"bench", "assign", "failed"} =>
               sigchld = "default"
        /\ \/ known[1] = "none"
           \/ (apc \in {"bench", "failed"} /\ pending = {})
           \/ "term" \in faults \/ apc = "exited"
        /\ \/ jobs[1] # "running" \/ known[1] = "own" \/ "gap" \in faults
           \/ (apc = "assign" /\ pending = {}) \/ apc = "exited"
        /\ \/ (apc = "teardown" /\ ip > 1) \/ apc = "torn"
           \/ (apc = "exited" /\ ending = "term")
           => jobs[1] # "running" \/ "gap" \in faults

\* One request or its answer is under way, or what the child has read of it.
Under == a2b * bench.units + owe + b2a
Asking ==
    bench.talk = "ask" =>
        /\ a2b \in {0, 1} /\ Under <= bench.units
        /\ apc = "answer" => got < bench.units /\ Under + got = bench.units
        /\ apc = "hello" => Under = 1
        /\ apc \notin {"answer", "hello", "exited"} => Under = 0
        /\ apc = "bench" => got = 0
TurnsTaken ==
    bench.talk = "turns" =>
        /\ a2b \in {0, 1} /\ Under <= 1
        /\ partner \in {"none", "fresh"} => Under = 0

HookInv ==
    /\ ChildTypes /\ OtherTypes /\ Counters /\ Phases /\ Reasons /\ Unpaired
    /\ Originals /\ ForkFailed /\ OnePartner /\ Resources /\ JobsIdle
    /\ JobKnown /\ Asking /\ TurnsTaken


\* Definitions that are always expanded below.
USE DEF Awake, Living, Fault, Exit,
        Goto, Setup, InSetup, Teardown, InTeardown, StartTeardown, Struck,
        Target, Lap, Free, Unlock, Job, NextJob, Started, Pc, InHook, Torn,
        Orderly, Owned

\* What the groups of variables stand for.
LEMMA Frames ==
    /\ UNCHANGED loopVars => interval' = interval /\ laps' = laps /\ got' = got
    /\ UNCHANGED partnerVars =>
          /\ partner' = partner /\ owe' = owe /\ a2b' = a2b /\ b2a' = b2a
          /\ locks' = locks
    /\ UNCHANGED jobVars => jobs' = jobs /\ known' = known /\ waiting' = waiting
    /\ UNCHANGED worldVars =>
          res' = res /\ kills' = kills /\ orphan' = orphan /\ faults' = faults
BY DEF loopVars, partnerVars, jobVars, worldVars

-----------------------------------------------------------------------------
(* What the actions with alternatives do, one alternative at a time.       *)

EnterDoes ==
    /\ apc = "enter" /\ pending = {} /\ ending' = ending
    /\ \/ /\ bench.each /\ interval > 0
          /\ goal' = "entered" /\ ip' = 1
          /\ apc' = IF bench.hook THEN "teardown" ELSE "torn"
       \/ /\ ~(bench.each /\ interval > 0)
          /\ goal' = goal /\ ip' = ip /\ apc' = "entered"
    /\ sigchld' = sigchld \/ sigchld' = "default"
    /\ UNCHANGED <<bench, handled, pending, interval, laps, got, pid,
                   partner, owe, a2b, b2a, locks, jobs, known, waiting,
                   res, kills, orphan, faults>>
LEMMA EnterEffect == Enter => EnterDoes
BY Frames DEF Enter, EnterDoes

OrphanedDoes ==
    /\ apc = "entered" /\ pending = {} /\ orphan /\ bench.hook
    /\ ending' = ending /\ goal' = "exit" /\ sigchld' = "default"
    /\ \/ bench.each /\ ip' = ip /\ apc' = "torn"
       \/ ~bench.each /\ ip' = 1 /\ apc' = "teardown"
    /\ UNCHANGED <<bench, handled, pending, interval, laps, got, pid,
                   partner, owe, a2b, b2a, locks, jobs, known, waiting,
                   res, kills, orphan, faults>>
LEMMA OrphanedEffect == Orphaned => OrphanedDoes
BY Frames DEF Orphaned, OrphanedDoes

ReportDoes ==
    /\ apc = "entered" /\ pending = {} /\ interval = Intervals
    /\ ending' = ending /\ goal' = "wait"
    /\ sigchld' = sigchld \/ sigchld' = "default"
    /\ \/ bench.each /\ ip' = ip /\ apc' = "torn"
       \/ /\ ~bench.each /\ ip' = 1
          /\ apc' = IF bench.hook THEN "teardown" ELSE "torn"
    /\ UNCHANGED <<bench, handled, pending, interval, laps, got, pid,
                   partner, owe, a2b, b2a, locks, jobs, known, waiting,
                   res, kills, orphan, faults>>
LEMMA ReportEffect == Report => ReportDoes
BY Frames DEF Report, ReportDoes

TakeDoes ==
    /\ pending = {}
    /\ apc = "answer" \/ (apc = "bench" /\ bench.talk = "push")
    /\ b2a > 0 /\ b2a' = b2a - 1 /\ ending' = ending
    /\ \/ /\ got + 1 = bench.units /\ got' = 0
          /\ laps' = laps - 1 /\ apc' = "bench"
       \/ /\ got + 1 # bench.units /\ got' = got + 1
          /\ laps' = laps /\ apc' = apc
    /\ apc = "bench" => laps > 0
    /\ UNCHANGED <<bench, ip, goal, sigchld, handled, pending,
                   interval, pid, partner, owe, a2b, locks, jobs, known,
                   waiting, res, kills, orphan, faults>>
LEMMA TakeEffect == Take => TakeDoes
BY Frames DEF Take, TakeDoes

ProcADoes ==
    /\ pending = {} /\ bench.talk = "locks" /\ laps > 0
    /\ apc \in {"bench", "A2", "A3", "A4"} /\ ending' = ending
    /\ \/ laps' = laps /\ got' = got /\ apc' \in {"A2", "A3", "A4"}
       \/ laps' = laps - 1 /\ got' = 0 /\ apc' = "bench"
    /\ UNCHANGED <<bench, ip, goal, sigchld, handled, pending,
                   interval, pid, partner, owe, a2b, b2a, jobs, known,
                   waiting, res, kills, orphan, faults>>
LEMMA ProcAEffect == ProcA => ProcADoes
BY Frames DEF ProcA, ProcADoes

HandleDoes ==
    /\ apc # "exited" /\ pending # {} /\ pending' = {}
    /\ \/ /\ bench.hook /\ bench.cookie = "global"
          /\ goal' = "term" /\ ip' = 1 /\ apc' = "teardown"
          /\ kills' = kills /\ ending' = ending
       \/ /\ ~(bench.hook /\ bench.cookie = "global")
          /\ goal' = goal /\ ip' = ip /\ apc' = "exited"
          /\ ending' = "term"
          /\ \/ bench.hook /\ kills' = kills \cup {"stray"}
             \/ kills' = kills
    /\ UNCHANGED <<bench, sigchld, handled, interval, laps, got, pid,
                   partner, owe, a2b, b2a, locks, jobs, known, waiting,
                   res, orphan, faults>>
LEMMA HandleEffect == Handle => HandleDoes
BY Frames DEF Handle, HandleDoes

SetupFailsDoes ==
    /\ apc = "setup" /\ pending = {} /\ ip <= Len(Setup)
    /\ Setup[ip].do \in {"try", "pair", "make", "fork"}
    /\ faults' = faults \cup {Setup[ip].do}
    /\ \/ Setup[ip].do = "fork" /\ pid' = "failed"
       \/ Setup[ip].do # "fork" /\ pid' = pid
    /\ \/ /\ Setup[ip].fails = "exit" /\ apc' = "exited"
          /\ ending' = "error" /\ ip' = ip
       \/ /\ Setup[ip].fails = "on" /\ ip' = ip + 1
          /\ apc' = apc /\ ending' = ending
       \/ /\ Setup[ip].fails \notin {"exit", "on"}
          /\ ip' = Len(Setup) + 1 /\ apc' = apc /\ ending' = ending
    /\ UNCHANGED <<bench, goal, sigchld, handled, pending, interval,
                   laps, got, partner, owe, a2b, b2a, locks, jobs,
                   known, waiting, res, kills, orphan>>
LEMMA SetupFailsEffect == SetupFails => SetupFailsDoes
BY Frames DEF SetupFails, SetupFailsDoes

SetupStepDoes ==
    /\ apc = "setup" /\ pending = {} /\ ip <= Len(Setup)
    /\ Setup[ip].do \in {"try", "pair", "make", "drop", "fork"}
    /\ ip' = ip + 1
    /\ \/ Setup[ip].do = "make" /\ res' = res \cup {Setup[ip].what}
       \/ Setup[ip].do = "drop" /\ res' = res \ {Setup[ip].what}
       \/ Setup[ip].do \in {"try", "pair", "fork"} /\ res' = res
    /\ \/ Setup[ip].do = "fork" /\ partner' = "fresh" /\ pid' = "own"
       \/ Setup[ip].do # "fork" /\ partner' = partner /\ pid' = pid
    /\ UNCHANGED <<bench, apc, goal, sigchld, handled, pending,
                   interval, laps, got, owe, a2b, b2a, locks, jobs,
                   known, waiting, kills, orphan, faults, ending>>
LEMMA SetupStepEffect == SetupStep => SetupStepDoes
BY Frames DEF SetupStep, SetupStepDoes

KillStepDoes ==
    /\ apc = "teardown" /\ pending = {} /\ ip <= Len(Teardown)
    /\ Teardown[ip].do = "kill"
    /\ \/ /\ \/ Target = "none"
             \/ Target = "everyone" /\ Teardown[ip].what = "positive"
          /\ kills' = kills /\ partner' = partner /\ jobs' = jobs
          /\ pending' = pending /\ ip' = ip + 2
       \/ /\ Target # "none"
          /\ Target # "everyone" \/ Teardown[ip].what # "positive"
          /\ kills' = kills \cup {Target} /\ ip' = ip + 1
          /\ \/ partner' = partner /\ pending' = pending
             \/ /\ partner \in Living /\ partner' = "dead"
                /\ bench.talk # "jobs"
                /\ pending' = IF sigchld = "handler"
                              THEN pending \cup {"CHLD"} ELSE pending
          /\ \/ /\ bench.talk = "jobs" /\ jobs[1] = "running"
                /\ jobs' = [jobs EXCEPT ![1] = "zombie"]
             \/ /\ ~(bench.talk = "jobs" /\ jobs[1] = "running")
                /\ jobs' = jobs
    /\ UNCHANGED <<bench, apc, goal, sigchld, handled,
                   interval, laps, got, pid, owe, a2b, b2a, locks,
                   known, waiting, res, orphan, faults, ending>>
LEMMA KillStepEffect == KillStep => KillStepDoes
<1> SUFFICES ASSUME KillStep PROVE KillStepDoes
    OBVIOUS
<1>1. /\ apc = "teardown" /\ pending = {} /\ ip <= Len(Teardown)
      /\ Teardown[ip].do = "kill"
      /\ UNCHANGED <<bench, apc, goal, sigchld, handled,
                     interval, laps, got, pid, owe, a2b, b2a, locks,
                     known, waiting, res, orphan, faults, ending>>
    BY Frames DEF KillStep
<1> DEFINE skips == \/ Target = "none"
                    \/ Target = "everyone" /\ Teardown[ip].what = "positive"
<1>2. /\ kills' = IF skips THEN kills ELSE kills \cup {Target}
      /\ partner' = IF ~skips /\ Target = "own" /\ bench.talk # "jobs"
                    THEN Struck(bench.sig) ELSE partner
      /\ jobs' = IF ~skips /\ bench.talk = "jobs" /\ jobs[1] = "running"
                 THEN [jobs EXCEPT ![1] = "zombie"] ELSE jobs
      /\ pending' = IF partner' # partner /\ sigchld = "handler"
                    THEN pending \cup {"CHLD"} ELSE pending
      /\ ip' = IF skips THEN ip + 2 ELSE ip + 1
    BY DEF KillStep
<1> HIDE DEF Target
<1>3. CASE skips
    BY <1>1, <1>2, <1>3 DEF KillStepDoes
<1>4. CASE ~skips
    BY <1>1, <1>2, <1>4 DEF KillStepDoes
<1> QED BY <1>3, <1>4

ReapStepDoes ==
    /\ apc = "teardown" /\ pending = {} /\ ip <= Len(Teardown)
    /\ Teardown[ip].do = "reap" /\ ip' = ip + 1
    /\ \/ /\ bench.talk = "jobs" /\ jobs[1] # "running"
          /\ jobs' = [jobs EXCEPT ![1] =
                         IF @ = "zombie" THEN "reaped" ELSE @]
          /\ known' = [known EXCEPT ![1] = "none"]
          /\ partner' = partner /\ pid' = pid
       \/ /\ bench.talk # "jobs" /\ partner \notin Living
          /\ partner' = IF partner = "dead" THEN "reaped" ELSE partner
          /\ pid' = "none" /\ jobs' = jobs /\ known' = known
    /\ UNCHANGED <<bench, apc, goal, sigchld, handled, pending,
                   interval, laps, got, owe, a2b, b2a, locks, waiting,
                   res, kills, orphan, faults, ending>>
LEMMA ReapStepEffect == ReapStep => ReapStepDoes
BY Frames DEF ReapStep, ReapStepDoes

WaitJobDoes ==
    /\ apc = "bench" /\ pending = {} /\ bench.talk = "jobs" /\ Started
    /\ laps > 0 /\ ip <= bench.njobs /\ ip' = ip + 1
    /\ \/ /\ known[ip] = "own" /\ jobs[ip] # "running"
          /\ jobs' = [jobs EXCEPT ![ip] = "reaped"]
       \/ /\ \A j \in Job : jobs[j] \notin {"running", "zombie"}
          /\ jobs' = jobs
    /\ UNCHANGED <<bench, apc, goal, sigchld, handled, pending,
                   interval, laps, got, pid, partner, owe, a2b, b2a,
                   locks, known, waiting, res, kills, orphan, faults,
                   ending>>
LEMMA WaitJobEffect == WaitJob => WaitJobDoes
BY Frames DEF WaitJob, WaitJobDoes

ForkJobFailsDoes ==
    /\ apc = "bench" /\ pending = {} /\ bench.talk = "jobs"
    /\ laps > 0 /\ NextJob # {} /\ faults' = faults \cup {"fork"}
    /\ apc' = IF bench.name = "lat_proc" THEN "failed" ELSE "bench"
    /\ \E j \in NextJob : known' = [known EXCEPT ![j] = "failed"]
    /\ UNCHANGED <<bench, ending, ip, goal, sigchld, handled, pending,
                   interval, laps, got, pid, partner, owe, a2b, b2a,
                   locks, jobs, waiting, res, kills, orphan>>
LEMMA ForkJobFailsEffect == ForkJobFails => ForkJobFailsDoes
BY Frames DEF ForkJobFails, ForkJobFailsDoes

AfterTeardownDoes ==
    /\ apc = "torn" /\ pending = {}
    /\ \/ goal = "exit" /\ apc' = "exited" /\ ending' = "gave up"
       \/ goal = "term" /\ apc' = "exited" /\ ending' = "term"
       \/ goal \notin {"exit", "term"} /\ apc' = goal /\ ending' = ending
    /\ UNCHANGED <<bench, ip, goal, sigchld, handled, pending,
                   interval, laps, got, pid, partner, owe, a2b, b2a,
                   locks, jobs, known, waiting, res, kills, orphan,
                   faults>>
LEMMA AfterTeardownEffect == AfterTeardown => AfterTeardownDoes
BY Frames DEF AfterTeardown, AfterTeardownDoes

ObeyDoes ==
    /\ partner \in {"fresh", "serving"} /\ owe = 0
    /\ partner' = "serving" /\ owe' = bench.units
    /\ \/ bench.talk \in {"ask", "turns"} /\ a2b > 0 /\ a2b' = a2b - 1
       \/ bench.talk = "turns" /\ partner = "fresh" /\ a2b' = a2b
       \/ bench.talk = "push" /\ a2b' = a2b
    /\ UNCHANGED <<bench, apc, ip, goal, sigchld, handled, pending, interval,
                   laps, got, pid, b2a, locks, jobs, known, waiting, res,
                   kills, orphan, faults, ending>>
LEMMA ObeyEffect == Obey => ObeyDoes
BY Frames DEF Obey, ObeyDoes

AnswerDoes ==
    /\ partner = "serving" /\ bench.talk # "locks" /\ owe > 0
    /\ owe' = owe - 1 /\ b2a' = b2a + 1
    /\ UNCHANGED <<bench, apc, ip, goal, sigchld, handled, pending, interval,
                   laps, got, pid, partner, a2b, locks, jobs, known, waiting,
                   res, kills, orphan, faults, ending>>
LEMMA AnswerEffect == Answer => AnswerDoes
BY Frames DEF Answer, AnswerDoes

NoChannelDoes ==
    /\ apc = "bench" /\ pending = {} /\ laps > 0 /\ Broken
    /\ \/ /\ apc' = "exited" /\ ending' = "error" /\ goal' = goal
          /\ ip' = ip /\ laps' = laps /\ got' = got
       \/ /\ bench.name = "lat_unix" /\ ending' = ending /\ goal' = "exit"
          /\ ip' = 1 /\ laps' = laps /\ got' = got
          /\ apc' = IF bench.hook THEN "teardown" ELSE "torn"
       \/ /\ bench.talk = "ask" /\ apc' = apc /\ ending' = ending
          /\ goal' = goal /\ ip' = ip /\ laps' = laps - 1 /\ got' = 0
       \/ /\ bench.talk = "ask" /\ apc' = "blocked" /\ ending' = ending
          /\ goal' = goal /\ ip' = ip /\ laps' = laps /\ got' = got
    /\ UNCHANGED <<bench, sigchld, handled, pending, interval, pid, partner,
                   owe, a2b, b2a, locks, jobs, known, waiting, res, kills,
                   orphan, faults>>
LEMMA NoChannelEffect == NoChannel => NoChannelDoes
BY Frames DEF NoChannel, NoChannelDoes

PartnerFailsDoes ==
    /\ partner = "fresh" /\ Broken
    /\ \/ /\ partner' = "dead"
          /\ pending' = IF sigchld = "handler" /\ apc # "exited"
                        THEN pending \cup {"CHLD"} ELSE pending
       \/ /\ bench.talk = "ask" /\ partner' = "spinning"
          /\ pending' = pending
    /\ UNCHANGED <<bench, apc, ip, goal, sigchld, handled, interval, laps,
                   got, pid, owe, a2b, b2a, locks, jobs, known, waiting, res,
                   kills, orphan, faults, ending>>
LEMMA PartnerFailsEffect == PartnerFails => PartnerFailsDoes
BY Frames DEF PartnerFails, PartnerFailsDoes

GiveUpDoes ==
    /\ apc = "failed" /\ pending = {} /\ apc' = "exited" /\ ending' = "error"
    /\ UNCHANGED <<bench, ip, goal, sigchld, handled, pending, interval, laps,
                   got, pid, partner, owe, a2b, b2a, locks, jobs, known,
                   waiting, res, kills, orphan, faults>>
LEMMA GiveUpEffect == GiveUp => GiveUpDoes
BY Frames DEF GiveUp, GiveUpDoes

ForkCopyFailsDoes ==
    /\ apc = "bench" /\ pending = {} /\ laps > 0 /\ bench.talk = "copies"
    /\ faults' = faults \cup {"fork"} /\ laps' = laps - 1 /\ got' = 0
    /\ UNCHANGED <<bench, apc, ip, goal, sigchld, handled, pending, interval,
                   pid, partner, owe, a2b, b2a, locks, jobs, known, waiting,
                   res, kills, orphan, ending>>
LEMMA ForkCopyFailsEffect == ForkCopyFails => ForkCopyFailsDoes
BY Frames DEF ForkCopyFails, ForkCopyFailsDoes

WakeDoes ==
    /\ apc = "exited" /\ bench.talk = "copies" /\ handled
    /\ interval' \in Nat /\ laps' \in 0..Laps /\ got' = 0
    /\ waiting' \in Seq([interval : Nat, laps : 1..Laps])
    /\ apc' = "bench" /\ ip' = 1 /\ goal' = "enter" /\ ending' = "none"
    /\ UNCHANGED <<bench, sigchld, handled, pending, pid, partner, owe, a2b,
                   b2a, locks, jobs, known, res, kills, orphan, faults>>
LEMMA WakeEffect == Originals /\ Wake => WakeDoes
<1> SUFFICES ASSUME Originals, Wake PROVE WakeDoes
    OBVIOUS
<1>1. /\ waiting \in Seq([interval : Nat, laps : 1..Laps])
      /\ waiting # <<>> /\ handled /\ bench.talk = "copies"
  BY DEF Originals, Wake
<1>2. /\ Head(waiting) \in [interval : Nat, laps : 1..Laps]
      /\ Tail(waiting) \in Seq([interval : Nat, laps : 1..Laps])
  <2> DEFINE S == [interval : Nat, laps : 1..Laps]
  <2>1. waiting \in Seq(S) /\ waiting # <<>>
    BY <1>1
  <2> HIDE DEF S
  <2>2. Head(waiting) \in S /\ Tail(waiting) \in Seq(S)
    BY <2>1
  <2> QED BY <2>2 DEF S
<1>3. /\ interval' = Head(waiting).interval
      /\ laps' = Head(waiting).laps - 1 /\ waiting' = Tail(waiting)
  BY DEF Wake
<1>4. interval' \in Nat /\ laps' \in 0..Laps
  BY <1>2, <1>3, HooksAssumption
<1> QED BY <1>1, <1>2, <1>3, <1>4, Frames DEF Wake, WakeDoes

OriginalDiesDoes ==
    /\ bench.talk = "copies" /\ handled
    /\ waiting' \in Seq([interval : Nat, laps : 1..Laps])
    /\ faults' = faults \cup {"kill"}
    /\ UNCHANGED <<bench, apc, ip, goal, sigchld, handled, pending, interval,
                   laps, got, pid, partner, owe, a2b, b2a, locks, jobs, known,
                   res, kills, orphan, ending>>
LEMMA OriginalDiesEffect == Originals /\ OriginalDies => OriginalDiesDoes
<1> SUFFICES ASSUME Originals, OriginalDies PROVE OriginalDiesDoes
    OBVIOUS
<1>1. /\ waiting \in Seq([interval : Nat, laps : 1..Laps])
      /\ waiting # <<>> /\ handled /\ bench.talk = "copies"
      /\ waiting' = SubSeq(waiting, 1, Len(waiting) - 1)
  BY DEF Originals, OriginalDies
<1>2. waiting' \in Seq([interval : Nat, laps : 1..Laps])
  <2> DEFINE S == [interval : Nat, laps : 1..Laps]
  <2>1. waiting \in Seq(S) /\ Len(waiting) \in Nat /\ Len(waiting) > 0
    BY <1>1
  <2> HIDE DEF S
  <2>2. SubSeq(waiting, 1, Len(waiting) - 1) \in Seq(S)
    BY <2>1
  <2> QED BY <1>1, <2>2 DEF S
<1> QED BY <1>1, <1>2, Frames DEF OriginalDies, OriginalDiesDoes

\* A program that forks a partner also reaps it, once.
LEMMA ForkingProgram ==
    Regular(bench) /\ Has(Setup, "fork") =>
        /\ bench.hook /\ ~bench.each /\ bench.cookie = "state"
        /\ bench.talk # "jobs" /\ Has(Teardown, "reap")
BY DEF Regular, SetupRegular, JobsRegular, Has

\* What is still to be removed after step k, if step k does not remove it.
LEMMA DropsLater ==
    ASSUME NEW steps, NEW r, NEW k \in Nat, Len(steps) \in Nat,
           DropsFrom(steps, r, k),
           steps[k].do # "drop" \/ steps[k].what # r
    PROVE  DropsFrom(steps, r, k + 1) /\ k <= Len(steps)
           /\ steps[k].fails # "return"
<1>1. PICK m \in k..Len(steps) :
          /\ steps[m].do = "drop" /\ steps[m].what = r
          /\ \A n \in k..m : steps[n].fails # "return"
    BY DEF DropsFrom
<1>2. m # k /\ k \in k..m
    BY <1>1
<1>3. m \in k + 1..Len(steps) /\ \A n \in k + 1..m : n \in k..m
    BY <1>2
<1> QED BY <1>1, <1>2, <1>3 DEF DropsFrom

\* Only programs of a kind have jobs, or become several.
LEMMA NoJobs ==
    Regular(bench) /\ bench.talk # "jobs" => Job = {}
BY DEF Regular, JobsRegular

LEMMA CopyProgram ==
    Regular(bench) /\ bench.talk = "copies" =>
        /\ bench.name = "lat_cmd" /\ ~bench.hook /\ ~bench.each
        /\ Job = {} /\ bench.cookie = "state" /\ Len(Setup) = 0
        /\ ~Has(Setup, "fork")
BY NoJobs DEF Regular, JobsRegular

LEMMA LatProcProgram ==
    Regular(bench) /\ bench.name = "lat_proc" =>
        /\ bench.talk = "jobs" /\ bench.njobs = 1 /\ Job = {1}
        /\ bench.dfl /\ bench.hook /\ ~bench.each
        /\ bench.cookie = "global" /\ Len(Setup) = 0 /\ Len(Teardown) = 2
        /\ Teardown[1].do = "kill" /\ Teardown[2].do = "reap"
BY DEF Regular, JobsRegular

\* What is under way, of one request at most.
LEMMA UnderIs ==
    Counters /\ bench.units \in {1, 2} =>
        /\ Under \in Nat
        /\ a2b = 0 => Under = owe + b2a
        /\ a2b = 1 => Under = bench.units + owe + b2a
BY DEF Counters, Under

\* A child runs one program.
LEMMA BenchStays == HooksNext => bench' = bench
BY DEF HooksNext, ChildStep, PartnerStep, SetupStep, SayHello, HearHello,
       SetupDone, Enter, Orphaned, NextInterval, Report, WaitExit,
       IntervalOver, DropStep, KillStep, ReapStep, TeardownDone,
       AfterTeardown, Ask, Take, TakeTurn, Lost, ProcA, Alone, ForkJob,
       Assign, WaitJob, ForgetJobs, ForkCopy, Handle, ProcB, Obey, Answer,
       Orphan, JobEnds, SetupFails, ForkJobFails, Term, Killed, ParentDies,
       PartnerDies, NoChannel, PartnerFails, GiveUp, ForkCopyFails, Wake,
       OriginalDies

LEMMA ChildTypesStep ==
    ASSUME ChildTypes, Phases, Originals, HooksNext
    PROVE  ChildTypes'
<1>1. Regular(bench) /\ bench' = bench
  BY ProgramsRegular, BenchStays DEF ChildTypes
<1>2. ASSUME bench' = bench, apc' = apc, goal' = goal, sigchld' = sigchld,
             handled' = handled, ending' = ending
      PROVE  ChildTypes'
  BY <1>2 DEF ChildTypes
<1>3. CASE \/ SetupStep \/ DropStep \/ KillStep \/ ReapStep
          \/ TakeTurn \/ Alone \/ WaitJob \/ ForgetJobs
          \/ ForkCopy \/ ProcB \/ Obey \/ Answer \/ Orphan
          \/ Term \/ ParentDies \/ PartnerDies
  <2>1. /\ bench' = bench /\ apc' = apc /\ goal' = goal
        /\ sigchld' = sigchld /\ handled' = handled /\ ending' = ending
    BY <1>3, Frames, SetupStepEffect, KillStepEffect, ReapStepEffect,
       WaitJobEffect, ObeyEffect, AnswerEffect
    DEF DropStep, TakeTurn, Alone, ForgetJobs, ForkCopy, ProcB, Orphan, Term,
        ParentDies, PartnerDies, SetupStepDoes, KillStepDoes, ReapStepDoes,
        WaitJobDoes, ObeyDoes, AnswerDoes
  <2> QED BY <2>1, <1>2
<1>4. CASE SayHello
  BY <1>4
  DEF SayHello, ChildTypes
<1>5. CASE HearHello
  BY <1>5
  DEF HearHello, ChildTypes
<1>6. CASE SetupDone
  BY <1>6
  DEF SetupDone, ChildTypes
<1>7. CASE Enter
  BY <1>7, EnterEffect
  DEF EnterDoes, ChildTypes
<1>8. CASE Orphaned
  BY <1>8, OrphanedEffect
  DEF OrphanedDoes, ChildTypes
<1>9. CASE NextInterval
  BY <1>9
  DEF NextInterval, ChildTypes
<1>10. CASE Report
  BY <1>10, ReportEffect
  DEF ReportDoes, ChildTypes
<1>11. CASE WaitExit
  BY <1>11
  DEF WaitExit, ChildTypes
<1>12. CASE IntervalOver
  BY <1>12
  DEF IntervalOver, ChildTypes
<1>13. CASE TeardownDone
  BY <1>13
  DEF TeardownDone, ChildTypes
<1>14. CASE AfterTeardown
  BY <1>14, AfterTeardownEffect
  DEF AfterTeardownDoes, ChildTypes
<1>15. CASE Ask
  BY <1>15
  DEF Ask, ChildTypes
<1>16. CASE Take
  BY <1>16, TakeEffect
  DEF TakeDoes, ChildTypes
<1>17. CASE Lost
  BY <1>17
  DEF Lost, ChildTypes
<1>18. CASE ProcA
  BY <1>18, ProcAEffect
  DEF ProcADoes, ChildTypes
<1>19. CASE ForkJob
  BY <1>19
  DEF ForkJob, ChildTypes
<1>20. CASE Assign
  BY <1>20
  DEF Assign, ChildTypes
<1>21. CASE Handle
  BY <1>21, HandleEffect
  DEF HandleDoes, ChildTypes
<1>22. ASSUME NEW j \in Job, JobEnds(j)
      PROVE  ChildTypes'
  <2>1. /\ bench' = bench /\ apc' = apc /\ goal' = goal
        /\ sigchld' = sigchld /\ handled' = handled /\ ending' = ending
    BY <1>22, Frames DEF JobEnds
  <2> QED BY <2>1, <1>2
<1>23. CASE SetupFails
  BY <1>23, SetupFailsEffect
  DEF SetupFailsDoes, ChildTypes
<1>24. CASE ForkJobFails
  BY <1>24, ForkJobFailsEffect
  DEF ForkJobFailsDoes, ChildTypes
<1>25. CASE Killed
  BY <1>25
  DEF Killed, ChildTypes
<1>51. CASE NoChannel
  BY <1>51, <1>1, NoChannelEffect, CopyProgram
  DEF NoChannelDoes, ChildTypes
<1>52. CASE PartnerFails
  BY <1>52, <1>1, PartnerFailsEffect, CopyProgram
  DEF PartnerFailsDoes, ChildTypes
<1>53. CASE GiveUp
  BY <1>53, <1>1, GiveUpEffect, CopyProgram
  DEF GiveUpDoes, ChildTypes
<1>54. CASE ForkCopyFails
  BY <1>54, <1>1, ForkCopyFailsEffect, CopyProgram
  DEF ForkCopyFailsDoes, ChildTypes
<1>55. CASE Wake
  BY <1>55, <1>1, WakeEffect, CopyProgram
  DEF WakeDoes, ChildTypes
<1>56. CASE OriginalDies
  BY <1>56, <1>1, OriginalDiesEffect, CopyProgram
  DEF OriginalDiesDoes, ChildTypes
<1> QED
  BY <1>3, <1>4, <1>5, <1>6, <1>7, <1>8, <1>9, <1>10, <1>11, <1>12, <1>13,
     <1>14, <1>15, <1>16, <1>17, <1>18, <1>19, <1>20, <1>21, <1>22, <1>23,
     <1>24, <1>25,
     <1>51, <1>52, <1>53, <1>54, <1>55, <1>56
  DEF HooksNext, ChildStep, PartnerStep

\* What every other step leaves as it is, or can only set.
LEMMA SteadyStep ==
    ASSUME HooksNext, Regular(bench)
    PROVE  /\ \/ waiting' = waiting \/ ForkCopy \/ Wake \/ OriginalDies
           /\ handled => handled'
           /\ sigchld = "default" => sigchld' = "default"
           /\ faults \subseteq faults'
           /\ "pair" \in faults' => "pair" \in faults \/ SetupFails
<1>1. CASE ChildStep
  <2>1. (waiting' = waiting \/ ForkCopy \/ Wake) /\ faults' = faults
    BY <1>1, Frames, SetupStepEffect, EnterEffect, OrphanedEffect,
       ReportEffect, KillStepEffect, ReapStepEffect, AfterTeardownEffect,
       TakeEffect, ProcAEffect, WaitJobEffect, HandleEffect, NoChannelEffect,
       GiveUpEffect
    DEF ChildStep, SayHello, HearHello, SetupDone, NextInterval, WaitExit,
        IntervalOver, DropStep, TeardownDone, Ask, TakeTurn, Lost, Alone,
        ForkJob, Assign, ForgetJobs, ForkCopy, Wake, SetupStepDoes, EnterDoes,
        OrphanedDoes, ReportDoes, KillStepDoes, ReapStepDoes,
        AfterTeardownDoes, TakeDoes, ProcADoes, WaitJobDoes, HandleDoes,
        NoChannelDoes, GiveUpDoes
  <2>2. handled' = handled \/ handled' = TRUE
    BY <1>1, Frames, SetupStepEffect, EnterEffect, OrphanedEffect,
       ReportEffect, KillStepEffect, ReapStepEffect, AfterTeardownEffect,
       TakeEffect, ProcAEffect, WaitJobEffect, HandleEffect, NoChannelEffect,
       GiveUpEffect
    DEF ChildStep, SayHello, HearHello, SetupDone, NextInterval, WaitExit,
        IntervalOver, DropStep, TeardownDone, Ask, TakeTurn, Lost, Alone,
        ForkJob, Assign, ForgetJobs, ForkCopy, Wake, SetupStepDoes, EnterDoes,
        OrphanedDoes, ReportDoes, KillStepDoes, ReapStepDoes,
        AfterTeardownDoes, TakeDoes, ProcADoes, WaitJobDoes, HandleDoes,
        NoChannelDoes, GiveUpDoes
  <2>3. sigchld' = sigchld \/ sigchld' = "default"
    BY <1>1, Frames, SetupStepEffect, EnterEffect, OrphanedEffect,
       ReportEffect, KillStepEffect, ReapStepEffect, AfterTeardownEffect,
       TakeEffect, ProcAEffect, WaitJobEffect, HandleEffect, NoChannelEffect,
       GiveUpEffect
    DEF ChildStep, SayHello, HearHello, SetupDone, NextInterval, WaitExit,
        IntervalOver, DropStep, TeardownDone, Ask, TakeTurn, Lost, Alone,
        ForkJob, Assign, ForgetJobs, ForkCopy, Wake, SetupStepDoes, EnterDoes,
        OrphanedDoes, ReportDoes, KillStepDoes, ReapStepDoes,
        AfterTeardownDoes, TakeDoes, ProcADoes, WaitJobDoes, HandleDoes,
        NoChannelDoes, GiveUpDoes
  <2> QED BY <2>1, <2>2, <2>3
<1>2. CASE PartnerStep \/ \E j \in Job : JobEnds(j)
  <2>1. UNCHANGED <<waiting, faults, handled, sigchld>>
    BY <1>2, Frames, ObeyEffect, AnswerEffect, PartnerFailsEffect
    DEF PartnerStep, ProcB, Orphan, JobEnds, ObeyDoes, AnswerDoes,
        PartnerFailsDoes
  <2> QED BY <2>1
<1>3. CASE \/ SetupFails \/ ForkJobFails \/ ForkCopyFails
          \/ Term \/ Killed \/ OriginalDies \/ ParentDies \/ PartnerDies
  <2>1. /\ UNCHANGED <<handled, sigchld>>
        /\ waiting' = waiting \/ OriginalDies
    BY <1>3, Frames, SetupFailsEffect, ForkJobFailsEffect, ForkCopyFailsEffect
    DEF Term, Killed, OriginalDies, ParentDies, PartnerDies, SetupFailsDoes,
        ForkJobFailsDoes, ForkCopyFailsDoes
  <2>2. \/ SetupFails /\ faults' = faults \cup {Setup[ip].do}
        \/ \E x \in {"fork", "term", "gap", "early", "kill", "orphan",
                     "partner"} : faults' = faults \cup {x}
    BY <1>3, Frames, SetupFailsEffect, ForkJobFailsEffect, ForkCopyFailsEffect
    DEF Term, Killed, OriginalDies, ParentDies, PartnerDies, SetupFailsDoes,
        ForkJobFailsDoes, ForkCopyFailsDoes
  <2> QED BY <2>1, <2>2
<1> QED BY <1>1, <1>2, <1>3 DEF HooksNext

LEMMA OriginalsStep ==
    ASSUME Originals, ChildTypes, Counters, Phases, HooksNext
    PROVE  Originals'
<1>1. Regular(bench) /\ bench' = bench
  BY ProgramsRegular, BenchStays DEF ChildTypes
<1>2. handled => handled'
  BY <1>1, SteadyStep
<1>3. CASE waiting' = waiting
  BY <1>1, <1>2, <1>3 DEF Originals
<1>4. CASE ForkCopy
  <2>1. /\ bench.talk = "copies" /\ apc = "bench" /\ laps > 0
        /\ waiting' = <<[interval |-> interval, laps |-> laps]>> \o waiting
    BY <1>4 DEF ForkCopy
  <2>2. handled
    BY <2>1 DEF Phases
  <2>3. [interval |-> interval, laps |-> laps]
            \in [interval : Nat, laps : 1..Laps]
    BY <2>1, HooksAssumption DEF Counters
  <2>4. waiting' \in Seq([interval : Nat, laps : 1..Laps])
    <3> DEFINE S == [interval : Nat, laps : 1..Laps]
               e == [interval |-> interval, laps |-> laps]
    <3>1. e \in S /\ waiting \in Seq(S) /\ waiting' = <<e>> \o waiting
      BY <2>1, <2>3 DEF Originals
    <3> HIDE DEF S, e
    <3>2. <<e>> \in Seq(S)
      BY <3>1
    <3>3. waiting' \in Seq(S)
      BY <3>1, <3>2
    <3> QED BY <3>3 DEF S
  <2> QED BY <2>1, <2>2, <2>4, <1>1, <1>2 DEF Originals
<1>5. CASE Wake
  BY <1>5, <1>1, <1>2, WakeEffect DEF WakeDoes, Originals
<1>6. CASE OriginalDies
  BY <1>6, <1>1, <1>2, OriginalDiesEffect DEF OriginalDiesDoes, Originals
<1> QED BY <1>1, <1>3, <1>4, <1>5, <1>6, SteadyStep

LEMMA UnpairedStep ==
    ASSUME Unpaired, ChildTypes, Counters, Phases, Originals, HooksNext
    PROVE  Unpaired'
<1>1. Regular(bench) /\ bench' = bench
  BY ProgramsRegular, BenchStays DEF ChildTypes
<1>2. "pair" \in faults' => bench.name \in {"lat_unix", "bw_unix"}
  <2>1. CASE SetupFails
    <3>1. /\ ip \in 1..Len(Setup) /\ faults' = faults \cup {Setup[ip].do}
      BY <2>1, <1>1, SetupFailsEffect
      DEF SetupFailsDoes, Counters, Regular, SetupRegular
    <3> QED BY <3>1, <1>1 DEF Unpaired, Regular, SetupRegular
  <2>2. CASE ~SetupFails
    BY <2>2, <1>1, SteadyStep DEF Unpaired
  <2> QED BY <2>1, <2>2
<1>3. ASSUME apc = "teardown", goal # "term"
      PROVE  sigchld' = "default" \/ "pair" \in faults'
  BY <1>3, <1>1, SteadyStep DEF Unpaired
<1>4. ASSUME apc' = "teardown", goal' # "term"
      PROVE  sigchld' = "default" \/ "pair" \in faults'
  <2>1. CASE apc = "teardown" /\ goal # "term"
    BY <2>1, <1>3
  <2>2. CASE NoChannel
    <3>1. CASE bench.name = "lat_unix"
      BY <3>1, <2>2, <1>1, NoChannelEffect
      DEF NoChannelDoes, Broken, Regular
    <3>2. CASE bench.name # "lat_unix"
      BY <3>2, <2>2, <1>4, NoChannelEffect DEF NoChannelDoes
    <3> QED BY <3>1, <3>2
  <2>3. CASE Enter \/ Orphaned \/ Report
    BY <2>3, <1>4, <1>1 DEF Enter, Orphaned, Report, Regular
  <2>4. CASE Handle \/ AfterTeardown
    BY <2>4, <1>4, HandleEffect, AfterTeardownEffect
    DEF HandleDoes, AfterTeardownDoes, ChildTypes
  <2>5. CASE ~(NoChannel \/ Enter \/ Orphaned \/ Report \/ Handle
               \/ AfterTeardown)
    <3>1. apc = "teardown" /\ goal = goal'
      <4>1. CASE ChildStep
        BY <4>1, <2>5, <1>4, Frames, SetupStepEffect, KillStepEffect,
           ReapStepEffect, TakeEffect, ProcAEffect, WaitJobEffect,
           GiveUpEffect
        DEF ChildStep, SayHello, HearHello, SetupDone, NextInterval, WaitExit,
            IntervalOver, DropStep, TeardownDone, Ask, TakeTurn, Lost, Alone,
            ForkJob, Assign, ForgetJobs, ForkCopy, Wake, SetupStepDoes,
            KillStepDoes, ReapStepDoes, TakeDoes, ProcADoes, WaitJobDoes,
            GiveUpDoes
      <4>2. CASE PartnerStep \/ \E j \in Job : JobEnds(j)
        BY <4>2, <1>4, Frames, ObeyEffect, AnswerEffect, PartnerFailsEffect
        DEF PartnerStep, ProcB, Orphan, JobEnds, ObeyDoes, AnswerDoes,
            PartnerFailsDoes
      <4>3. CASE \/ SetupFails \/ ForkJobFails \/ ForkCopyFails \/ Term
                \/ Killed \/ OriginalDies \/ ParentDies \/ PartnerDies
        BY <4>3, <1>4, Frames, SetupFailsEffect, ForkJobFailsEffect,
           ForkCopyFailsEffect
        DEF Term, Killed, OriginalDies, ParentDies, PartnerDies,
            SetupFailsDoes, ForkJobFailsDoes, ForkCopyFailsDoes
      <4> QED BY <4>1, <4>2, <4>3 DEF HooksNext
    <3> QED BY <3>1, <1>3, <1>4
  <2> QED BY <2>1, <2>2, <2>3, <2>4, <2>5
<1> QED BY <1>1, <1>2, <1>4 DEF Unpaired

LEMMA OtherTypesStep ==
    ASSUME OtherTypes, ChildTypes, Originals, HooksNext
    PROVE  OtherTypes'
<1>1. Regular(bench) /\ bench' = bench
  BY ProgramsRegular, BenchStays DEF ChildTypes
<1>2. ASSUME bench' = bench, pid' = pid, partner' = partner, jobs' = jobs,
             known' = known, orphan' = orphan
      PROVE  OtherTypes'
  BY <1>2 DEF OtherTypes
<1>3. CASE \/ SayHello \/ HearHello \/ SetupDone \/ Enter
          \/ Orphaned \/ NextInterval \/ Report \/ WaitExit
          \/ IntervalOver \/ DropStep \/ TeardownDone
          \/ AfterTeardown \/ Ask \/ Take \/ TakeTurn \/ Lost
          \/ ProcA \/ Alone \/ ForkCopy \/ Handle \/ Answer
          \/ Term \/ Killed
  <2>1. /\ bench' = bench /\ pid' = pid /\ partner' = partner
        /\ jobs' = jobs /\ known' = known /\ orphan' = orphan
    BY <1>3, Frames, EnterEffect, OrphanedEffect, ReportEffect,
       AfterTeardownEffect, TakeEffect, ProcAEffect, HandleEffect,
       AnswerEffect
    DEF SayHello, HearHello, SetupDone, NextInterval, WaitExit, IntervalOver,
        DropStep, TeardownDone, Ask, TakeTurn, Lost, Alone, ForkCopy, Term,
        Killed, EnterDoes, OrphanedDoes, ReportDoes, AfterTeardownDoes,
        TakeDoes, ProcADoes, HandleDoes, AnswerDoes
  <2> QED BY <2>1, <1>2
<1>4. CASE SetupStep
  BY <1>4, SetupStepEffect
  DEF SetupStepDoes, OtherTypes
<1>5. CASE KillStep
  BY <1>5, KillStepEffect
  DEF KillStepDoes, OtherTypes
<1>6. CASE ReapStep
  BY <1>6, ReapStepEffect
  DEF ReapStepDoes, OtherTypes
<1>7. CASE ForkJob
  BY <1>7, Frames
  DEF ForkJob, OtherTypes
<1>8. CASE Assign
  BY <1>8, Frames
  DEF Assign, OtherTypes
<1>9. CASE WaitJob
  BY <1>9, WaitJobEffect
  DEF WaitJobDoes, OtherTypes
<1>10. CASE ForgetJobs
  BY <1>10, Frames
  DEF ForgetJobs, OtherTypes
<1>11. CASE ProcB
  BY <1>11, Frames
  DEF ProcB, OtherTypes
<1>12. CASE Obey
  BY <1>12, ObeyEffect
  DEF ObeyDoes, OtherTypes
<1>13. CASE Orphan
  BY <1>13, Frames
  DEF Orphan, OtherTypes
<1>14. ASSUME NEW j \in Job, JobEnds(j)
      PROVE  OtherTypes'
  BY <1>14, Frames
  DEF JobEnds, OtherTypes
<1>15. CASE SetupFails
  BY <1>15, SetupFailsEffect
  DEF SetupFailsDoes, OtherTypes
<1>16. CASE ForkJobFails
  BY <1>16, ForkJobFailsEffect
  DEF ForkJobFailsDoes, OtherTypes
<1>17. CASE ParentDies
  BY <1>17, Frames
  DEF ParentDies, OtherTypes
<1>18. CASE PartnerDies
  BY <1>18, Frames
  DEF PartnerDies, OtherTypes
<1>51. CASE NoChannel
  BY <1>51, <1>1, NoChannelEffect, CopyProgram
  DEF NoChannelDoes, OtherTypes
<1>52. CASE PartnerFails
  BY <1>52, <1>1, PartnerFailsEffect, CopyProgram
  DEF PartnerFailsDoes, OtherTypes
<1>53. CASE GiveUp
  BY <1>53, <1>1, GiveUpEffect, CopyProgram
  DEF GiveUpDoes, OtherTypes
<1>54. CASE ForkCopyFails
  BY <1>54, <1>1, ForkCopyFailsEffect, CopyProgram
  DEF ForkCopyFailsDoes, OtherTypes
<1>55. CASE Wake
  BY <1>55, <1>1, WakeEffect, CopyProgram
  DEF WakeDoes, OtherTypes
<1>56. CASE OriginalDies
  BY <1>56, <1>1, OriginalDiesEffect, CopyProgram
  DEF OriginalDiesDoes, OtherTypes
<1> QED
  BY <1>3, <1>4, <1>5, <1>6, <1>7, <1>8, <1>9, <1>10, <1>11, <1>12, <1>13,
     <1>14, <1>15, <1>16, <1>17, <1>18,
     <1>51, <1>52, <1>53, <1>54, <1>55, <1>56
  DEF HooksNext, ChildStep, PartnerStep

LEMMA CountersStep ==
    ASSUME Counters, ChildTypes, Phases, Originals, HooksNext
    PROVE  Counters'
<1>1. Regular(bench) /\ bench' = bench
  BY ProgramsRegular, BenchStays DEF ChildTypes
<1>2. ASSUME ip' = ip, interval' = interval, laps' = laps, got' = got,
             owe' = owe, a2b' = a2b, b2a' = b2a
      PROVE  Counters'
  BY <1>2 DEF Counters
<1>3. CASE \/ WaitExit \/ TeardownDone \/ AfterTeardown \/ Lost
          \/ ForkJob \/ Assign \/ Orphan \/ ForkJobFails
          \/ Term \/ Killed \/ ParentDies \/ PartnerDies
  <2>1. /\ ip' = ip /\ interval' = interval /\ laps' = laps /\ got' = got
        /\ owe' = owe /\ a2b' = a2b /\ b2a' = b2a
    BY <1>3, Frames, AfterTeardownEffect, ForkJobFailsEffect
    DEF WaitExit, TeardownDone, Lost, ForkJob, Assign, Orphan, Term, Killed,
        ParentDies, PartnerDies, AfterTeardownDoes, ForkJobFailsDoes
  <2> QED BY <2>1, <1>2
<1>4. CASE SetupStep
  BY <1>4, SetupStepEffect
  DEF SetupStepDoes, Counters
<1>5. CASE SayHello
  BY <1>5, Frames
  DEF SayHello, Counters
<1>6. CASE HearHello
  BY <1>6, Frames
  DEF HearHello, Counters
<1>7. CASE SetupDone
  BY <1>7, Frames
  DEF SetupDone, Counters
<1>8. CASE Enter
  BY <1>8, EnterEffect
  DEF EnterDoes, Counters
<1>9. CASE Orphaned
  BY <1>9, OrphanedEffect
  DEF OrphanedDoes, Counters
<1>10. CASE NextInterval
  BY <1>10, Frames, HooksAssumption
  DEF NextInterval, Counters
<1>11. CASE Report
  BY <1>11, ReportEffect
  DEF ReportDoes, Counters
<1>12. CASE IntervalOver
  BY <1>12, Frames
  DEF IntervalOver, Counters
<1>13. CASE DropStep
  BY <1>13, Frames
  DEF DropStep, Counters
<1>14. CASE KillStep
  BY <1>14, KillStepEffect
  DEF KillStepDoes, Counters
<1>15. CASE ReapStep
  BY <1>15, ReapStepEffect
  DEF ReapStepDoes, Counters
<1>16. CASE Ask
  BY <1>16, Frames
  DEF Ask, Counters
<1>17. CASE Take
  <2>1. TakeDoes
    BY <1>17, TakeEffect
  <2>2. \/ laps' = laps - 1 /\ got' = 0
        \/ laps' = laps /\ got' = got + 1
    BY <2>1 DEF TakeDoes
  <2>3. laps > 0 /\ b2a > 0 /\ b2a' = b2a - 1
    BY <2>1 DEF TakeDoes, Phases
  <2>4. ip' = ip /\ interval' = interval /\ owe' = owe /\ a2b' = a2b
    BY <2>1 DEF TakeDoes
  <2> QED BY <2>2, <2>3, <2>4, HooksAssumption DEF Counters
<1>18. CASE TakeTurn
  BY <1>18, HooksAssumption
  DEF TakeTurn, Counters
<1>19. CASE ProcA
  <2>1. ProcADoes
    BY <1>19, ProcAEffect
  <2>2. (laps' = laps /\ got' = got) \/ (laps' = laps - 1 /\ got' = 0)
    BY <2>1 DEF ProcADoes
  <2>3. /\ laps > 0 /\ ip' = ip /\ interval' = interval /\ owe' = owe
        /\ a2b' = a2b /\ b2a' = b2a
    BY <2>1 DEF ProcADoes
  <2> QED BY <2>2, <2>3, HooksAssumption DEF Counters
<1>20. CASE Alone
  BY <1>20, Frames, HooksAssumption
  DEF Alone, Counters
<1>21. CASE WaitJob
  BY <1>21, WaitJobEffect
  DEF WaitJobDoes, Counters
<1>22. CASE ForgetJobs
  BY <1>22, Frames, HooksAssumption
  DEF ForgetJobs, Counters
<1>23. CASE ForkCopy
  BY <1>23, Frames, HooksAssumption
  DEF ForkCopy, Counters
<1>24. CASE Handle
  <2>1. HandleDoes
    BY <1>24, HandleEffect
  <2>2. ip' = 1 \/ ip' = ip
    BY <2>1 DEF HandleDoes
  <2>3. UNCHANGED <<interval, laps, got, owe, a2b, b2a>>
    BY <2>1 DEF HandleDoes
  <2> QED BY <2>2, <2>3 DEF Counters
<1>25. CASE ProcB
  <2>1. /\ owe' = (owe + 1) % 4 /\ ip' = ip /\ interval' = interval
        /\ laps' = laps /\ got' = got /\ a2b' = a2b /\ b2a' = b2a
    BY <1>25, Frames DEF ProcB
  <2> QED BY <2>1 DEF Counters
<1>26. CASE Obey
  <2>1. ObeyDoes
    BY <1>26, ObeyEffect
  <2>2. (a2b > 0 /\ a2b' = a2b - 1) \/ a2b' = a2b
    BY <2>1 DEF ObeyDoes
  <2>3. owe' \in Nat
    BY <2>1, <1>1 DEF ObeyDoes, Regular
  <2>4. UNCHANGED <<ip, interval, laps, got, b2a>>
    BY <2>1 DEF ObeyDoes
  <2> QED BY <2>2, <2>3, <2>4 DEF Counters
<1>27. CASE Answer
  <2>1. AnswerDoes
    BY <1>27, AnswerEffect
  <2>2. /\ owe > 0 /\ owe' = owe - 1 /\ b2a' = b2a + 1 /\ a2b' = a2b
        /\ UNCHANGED <<ip, interval, laps, got>>
    BY <2>1 DEF AnswerDoes
  <2> QED BY <2>2 DEF Counters
<1>28. ASSUME NEW j \in Job, JobEnds(j)
      PROVE  Counters'
  <2>1. /\ ip' = ip /\ interval' = interval /\ laps' = laps /\ got' = got
        /\ owe' = owe /\ a2b' = a2b /\ b2a' = b2a
    BY <1>28, Frames DEF JobEnds
  <2> QED BY <2>1, <1>2
<1>29. CASE SetupFails
  BY <1>29, SetupFailsEffect
  DEF SetupFailsDoes, Counters
<1>51. CASE NoChannel
  <2>1. NoChannelDoes
    BY <1>51, NoChannelEffect
  <2>2. /\ ip' = 1 \/ ip' = ip
        /\ (laps' = laps /\ got' = got) \/ (laps' = laps - 1 /\ got' = 0)
    BY <2>1 DEF NoChannelDoes
  <2>3. laps > 0 /\ UNCHANGED <<interval, owe, a2b, b2a>>
    BY <2>1 DEF NoChannelDoes
  <2> QED BY <2>2, <2>3, HooksAssumption DEF Counters
<1>52. CASE PartnerFails
  BY <1>52, <1>1, PartnerFailsEffect, CopyProgram
  DEF PartnerFailsDoes, Counters
<1>53. CASE GiveUp
  BY <1>53, <1>1, GiveUpEffect, CopyProgram
  DEF GiveUpDoes, Counters
<1>54. CASE ForkCopyFails
  BY <1>54, <1>1, ForkCopyFailsEffect, HooksAssumption
  DEF ForkCopyFailsDoes, Counters
<1>55. CASE Wake
  BY <1>55, <1>1, WakeEffect, CopyProgram
  DEF WakeDoes, Counters
<1>56. CASE OriginalDies
  BY <1>56, <1>1, OriginalDiesEffect, CopyProgram
  DEF OriginalDiesDoes, Counters
<1> QED
  BY <1>3, <1>4, <1>5, <1>6, <1>7, <1>8, <1>9, <1>10, <1>11, <1>12, <1>13,
     <1>14, <1>15, <1>16, <1>17, <1>18, <1>19, <1>20, <1>21, <1>22, <1>23,
     <1>24, <1>25, <1>26, <1>27, <1>28, <1>29,
     <1>51, <1>52, <1>53, <1>54, <1>55, <1>56
  DEF HooksNext, ChildStep, PartnerStep

LEMMA PhasesStep ==
    ASSUME ChildTypes, Counters, Phases, Originals, HooksNext
    PROVE  Phases'
<1>1. Regular(bench) /\ bench' = bench
  BY ProgramsRegular, BenchStays DEF ChildTypes
<1>2. ASSUME bench' = bench, apc' = apc, ip' = ip, goal' = goal,
             ending' = ending, handled' = handled, interval' = interval,
             laps' = laps
      PROVE  Phases'
  BY <1>2 DEF Phases
<1>3. CASE \/ ProcB \/ Obey \/ Answer \/ Orphan \/ Term
          \/ ParentDies \/ PartnerDies
  <2>1. /\ bench' = bench /\ apc' = apc /\ ip' = ip /\ goal' = goal
        /\ ending' = ending /\ handled' = handled /\ interval' = interval
        /\ laps' = laps
    BY <1>3, Frames, ObeyEffect, AnswerEffect
    DEF ProcB, Orphan, Term, ParentDies, PartnerDies, ObeyDoes, AnswerDoes
  <2> QED BY <2>1, <1>2
<1>4. CASE SetupStep
  BY <1>4, SetupStepEffect
  DEF SetupStepDoes, Phases
<1>5. CASE SayHello
  BY <1>5, Frames
  DEF SayHello, Counters, Phases
<1>6. CASE HearHello
  BY <1>6, Frames
  DEF HearHello, Phases
<1>7. CASE SetupDone
  BY <1>7
  DEF SetupDone, Phases
<1>8. CASE Enter
  BY <1>8, EnterEffect
  DEF EnterDoes, Phases
<1>9. CASE Orphaned
  BY <1>9, OrphanedEffect
  DEF OrphanedDoes, Phases
<1>10. CASE NextInterval
  BY <1>10
  DEF NextInterval, Phases
<1>11. CASE Report
  BY <1>11, ReportEffect
  DEF ReportDoes, Phases
<1>12. CASE WaitExit
  BY <1>12
  DEF WaitExit, Phases
<1>13. CASE IntervalOver
  BY <1>13
  DEF IntervalOver, Phases
<1>14. CASE DropStep
  BY <1>14
  DEF DropStep, Phases
<1>15. CASE KillStep
  BY <1>15, KillStepEffect
  DEF KillStepDoes, Phases
<1>16. CASE ReapStep
  BY <1>16, ReapStepEffect
  DEF ReapStepDoes, Phases
<1>17. CASE TeardownDone
  BY <1>17
  DEF TeardownDone, Phases
<1>18. CASE AfterTeardown
  BY <1>18, AfterTeardownEffect
  DEF AfterTeardownDoes, ChildTypes, Phases
<1>19. CASE Ask
  BY <1>19, Frames
  DEF Ask, Phases
<1>20. CASE Take
  BY <1>20, TakeEffect
  DEF TakeDoes, Phases
<1>21. CASE TakeTurn
  BY <1>21
  DEF TakeTurn, Phases
<1>22. CASE Lost
  BY <1>22
  DEF Lost, Phases
<1>23. CASE ProcA
  BY <1>23, ProcAEffect
  DEF ProcADoes, Phases
<1>24. CASE Alone
  BY <1>24
  DEF Alone, Phases
<1>25. CASE ForkJob
  BY <1>25, Frames
  DEF ForkJob, Phases
<1>26. CASE Assign
  BY <1>26
  DEF Assign, Phases
<1>27. CASE WaitJob
  BY <1>27, WaitJobEffect
  DEF WaitJobDoes, Phases
<1>28. CASE ForgetJobs
  BY <1>28
  DEF ForgetJobs, Phases
<1>29. CASE ForkCopy
  BY <1>29
  DEF ForkCopy, Phases
<1>30. CASE Handle
  BY <1>30, HandleEffect
  DEF HandleDoes, Phases
<1>31. ASSUME NEW j \in Job, JobEnds(j)
      PROVE  Phases'
  <2>1. /\ bench' = bench /\ apc' = apc /\ ip' = ip /\ goal' = goal
        /\ ending' = ending /\ handled' = handled /\ interval' = interval
        /\ laps' = laps
    BY <1>31, Frames DEF JobEnds
  <2> QED BY <2>1, <1>2
<1>32. CASE SetupFails
  BY <1>32, SetupFailsEffect
  DEF SetupFailsDoes, Phases
<1>33. CASE ForkJobFails
  BY <1>33, ForkJobFailsEffect
  DEF ForkJobFailsDoes, Phases
<1>34. CASE Killed
  BY <1>34
  DEF Killed, Phases
<1>51. CASE NoChannel
  BY <1>51, <1>1, NoChannelEffect, CopyProgram
  DEF NoChannelDoes, Phases
<1>52. CASE PartnerFails
  BY <1>52, <1>1, PartnerFailsEffect, CopyProgram
  DEF PartnerFailsDoes, Phases
<1>53. CASE GiveUp
  BY <1>53, <1>1, GiveUpEffect, CopyProgram
  DEF GiveUpDoes, Phases
<1>54. CASE ForkCopyFails
  BY <1>54, <1>1, ForkCopyFailsEffect, CopyProgram
  DEF ForkCopyFailsDoes, Phases
<1>55. CASE Wake
  BY <1>55, <1>1, WakeEffect, CopyProgram
  DEF WakeDoes, Phases
<1>56. CASE OriginalDies
  BY <1>56, <1>1, OriginalDiesEffect, CopyProgram
  DEF OriginalDiesDoes, Phases
<1> QED
  BY <1>3, <1>4, <1>5, <1>6, <1>7, <1>8, <1>9, <1>10, <1>11, <1>12, <1>13,
     <1>14, <1>15, <1>16, <1>17, <1>18, <1>19, <1>20, <1>21, <1>22, <1>23,
     <1>24, <1>25, <1>26, <1>27, <1>28, <1>29, <1>30, <1>31, <1>32, <1>33,
     <1>34,
     <1>51, <1>52, <1>53, <1>54, <1>55, <1>56
  DEF HooksNext, ChildStep, PartnerStep

LEMMA ReasonsStep ==
    ASSUME ChildTypes, OtherTypes, Phases, Reasons, Unpaired, ForkFailed,
           JobKnown, Counters, Originals, HooksNext
    PROVE  Reasons'
<1>1. Regular(bench) /\ bench' = bench
  BY ProgramsRegular, BenchStays DEF ChildTypes
<1>2. ASSUME bench' = bench, orphan' = orphan, faults' = faults,
             pending' = pending, kills' = kills
      PROVE  Reasons'
  BY <1>2 DEF Reasons, OnlyOwnChildren, Broken
<1>3. CASE \/ SetupStep \/ SayHello \/ HearHello \/ Enter
          \/ Orphaned \/ NextInterval \/ Report \/ WaitExit
          \/ IntervalOver \/ DropStep \/ ReapStep
          \/ TeardownDone \/ AfterTeardown \/ Ask \/ Take
          \/ TakeTurn \/ Lost \/ ProcA \/ Alone \/ ForkJob
          \/ Assign \/ WaitJob \/ ForgetJobs \/ ForkCopy
          \/ ProcB \/ Obey \/ Answer \/ Orphan
  <2>1. /\ bench' = bench /\ orphan' = orphan /\ faults' = faults
        /\ pending' = pending /\ kills' = kills
    BY <1>3, Frames, SetupStepEffect, EnterEffect, OrphanedEffect, ReportEffect,
       ReapStepEffect, AfterTeardownEffect, TakeEffect, ProcAEffect,
       WaitJobEffect, ObeyEffect, AnswerEffect
    DEF SayHello, HearHello, NextInterval, WaitExit, IntervalOver, DropStep,
        TeardownDone, Ask, TakeTurn, Lost, Alone, ForkJob, Assign,
        ForgetJobs, ForkCopy, ProcB, Orphan, SetupStepDoes, EnterDoes,
        OrphanedDoes, ReportDoes, ReapStepDoes, AfterTeardownDoes, TakeDoes,
        ProcADoes, WaitJobDoes, ObeyDoes, AnswerDoes
  <2> QED BY <2>1, <1>2
<1>4. CASE SetupDone
  BY <1>4, Frames
  DEF SetupDone, Reasons, OnlyOwnChildren, Broken
<1>5. CASE KillStep
  <2>1. KillStepDoes
    BY <1>5, KillStepEffect
  <2>2. /\ apc = "teardown" /\ ip \in 1..Len(Teardown)
        /\ Teardown[ip].do = "kill"
    BY <2>1, <1>1 DEF KillStepDoes, Counters, Regular, TeardownRegular
  <2>3. UNCHANGED <<orphan, faults>>
        /\ (pending' # {} /\ bench.talk # "jobs" =>
               "pair" \in faults)
    <3>1. goal = "term" => bench.talk = "jobs"
      BY <1>1 DEF Phases, Regular, JobsRegular
    <3>2. pending = {} /\ UNCHANGED <<orphan, faults>>
          /\ (pending' = pending
              \/ (sigchld = "handler" /\ bench.talk # "jobs"))
      <4> HIDE DEF Target
      <4> QED BY <2>1 DEF KillStepDoes
    <3> QED BY <3>1, <3>2, <2>2 DEF Unpaired
  <2>4. CASE kills' = kills
    BY <2>3, <2>4, <1>1 DEF Reasons, OnlyOwnChildren, Broken
  <2>5. CASE kills' = kills \cup {Target} /\ Target # "none"
    <3>0. bench.talk = "jobs" =>
              bench.name = "lat_proc" /\ known[1] \in {"none", "own", "failed"}
      <4>1. bench.talk = "jobs" => bench.name = "lat_proc"
        BY <2>2, <1>1 DEF Regular, JobsRegular
      <4>2. bench.name = "lat_proc" => 1 \in Job
        BY <1>1, LatProcProgram
      <4> QED BY <4>1, <4>2 DEF OtherTypes
    <3>1. CASE Target = "everyone"
      <4>0. CASE bench.talk = "jobs"
        <5>1. known[1] = "failed"
          BY <4>0, <3>0, <3>1
        <5>2. bench.name = "lat_proc"
          BY <4>0, <3>0
        <5>3. {"fork", "term"} \subseteq faults
          BY <5>1, <5>2, <2>2 DEF JobKnown
        <5> HIDE DEF Target
        <5> QED
          BY <5>2, <5>3, <3>1, <2>3, <2>5, <1>1
          DEF Reasons, OnlyOwnChildren, Broken
      <4> SUFFICES ASSUME bench.talk # "jobs" PROVE Reasons'
        BY <4>0
      <4>1. pid = "failed"
        BY <3>1 DEF OtherTypes
      <4>2. Teardown[ip].what # "positive" \/ kills' = kills
        <5> HIDE DEF Target
        <5> QED BY <2>1, <3>1 DEF KillStepDoes
      <4>3. /\ "fork" \in faults /\ bench.talk \in {"ask", "turns"}
            /\ orphan \/ "pair" \in faults
        BY <4>1, <2>2 DEF ForkFailed
      <4>4. \/ bench.name \in {"lat_pipe", "lat_unix", "lat_sem"}
            \/ kills' = kills
        BY <4>2, <4>3, <2>2, <1>1 DEF Regular, TeardownRegular
      <4>5. "pair" \in faults => bench.name \in {"lat_unix", "bw_unix"}
        BY DEF Unpaired
      <4> HIDE DEF Target
      <4> QED
        BY <4>3, <4>4, <4>5, <2>4, <3>1, <2>3, <2>5, <1>1 DEF Reasons, OnlyOwnChildren, Broken
    <3>2. CASE Target = "stranger"
      <4>1. bench.talk = "jobs" /\ known[1] # "none" /\ jobs[1] = "reaped"
        BY <3>0, <3>2, <2>2 DEF OtherTypes
      <4>2. bench.name = "lat_proc"
        BY <4>1, <2>2, <1>1 DEF Regular, JobsRegular
      <4>3. "term" \in faults
        BY <4>1, <4>2, <2>2 DEF JobKnown
      <4> HIDE DEF Target
      <4> QED
        BY <4>2, <4>3, <3>2, <2>3, <2>5, <1>1 DEF Reasons, OnlyOwnChildren, Broken
    <3>3. CASE Target = "own"
      <4> HIDE DEF Target
      <4> QED BY <3>3, <2>3, <2>5, <1>1 DEF Reasons, OnlyOwnChildren, Broken
    <3> QED BY <3>0, <3>1, <3>2, <3>3, <2>5 DEF OtherTypes
  <2> QED
    <3> HIDE DEF Target
    <3> QED BY <2>1, <2>4, <2>5 DEF KillStepDoes
<1>6. CASE Handle
  <2>1. HandleDoes
    BY <1>6, HandleEffect
  <2>2. UNCHANGED <<orphan, faults>> /\ pending # {} /\ pending' = {}
    BY <2>1 DEF HandleDoes
  <2>3. CASE kills' = kills
    BY <2>2, <2>3, <1>1 DEF Reasons, OnlyOwnChildren, Broken
  <2>4. CASE bench.hook /\ bench.cookie # "global"
              /\ kills' = kills \cup {"stray"}
    <3>1. bench.talk # "jobs"
      BY <2>4, <1>1 DEF Regular, JobsRegular
    <3> QED BY <3>1, <2>2, <2>4, <1>1 DEF Reasons, OnlyOwnChildren, Broken
  <2> QED BY <2>1, <2>3, <2>4 DEF HandleDoes
<1>7. ASSUME NEW j \in Job, JobEnds(j)
      PROVE  Reasons'
  <2>1. /\ UNCHANGED <<orphan, faults, kills>>
        /\ pending' = pending \/ pending' = pending \cup {"CHLD"}
    BY <1>7, Frames DEF JobEnds
  <2>2. bench.talk = "jobs"
    BY <1>1 DEF Regular, JobsRegular
  <2> QED BY <2>1, <2>2, <1>1 DEF Reasons, OnlyOwnChildren, Broken
<1>8. CASE SetupFails
  BY <1>8, SetupFailsEffect
  DEF SetupFailsDoes, Reasons, OnlyOwnChildren, Broken
<1>9. CASE ForkJobFails
  BY <1>9, ForkJobFailsEffect
  DEF ForkJobFailsDoes, Reasons, OnlyOwnChildren, Broken
<1>10. CASE Term
  BY <1>10
  DEF Term, Reasons, OnlyOwnChildren, Broken
<1>11. CASE Killed
  BY <1>11
  DEF Killed, Reasons, OnlyOwnChildren, Broken
<1>12. CASE ParentDies
  BY <1>12
  DEF ParentDies, Reasons, OnlyOwnChildren, Broken
<1>13. CASE PartnerDies
  BY <1>13
  DEF PartnerDies, Reasons, OnlyOwnChildren, Broken
<1>51. CASE NoChannel
  BY <1>51, <1>1, NoChannelEffect, CopyProgram
  DEF NoChannelDoes, Reasons, OnlyOwnChildren, Broken
<1>52. CASE PartnerFails
  BY <1>52, <1>1, PartnerFailsEffect, CopyProgram
  DEF PartnerFailsDoes, Reasons, OnlyOwnChildren, Broken
<1>53. CASE GiveUp
  BY <1>53, <1>1, GiveUpEffect, CopyProgram
  DEF GiveUpDoes, Reasons, OnlyOwnChildren, Broken
<1>54. CASE ForkCopyFails
  BY <1>54, <1>1, ForkCopyFailsEffect, CopyProgram
  DEF ForkCopyFailsDoes, Reasons, OnlyOwnChildren, Broken
<1>55. CASE Wake
  BY <1>55, <1>1, WakeEffect, CopyProgram
  DEF WakeDoes, Reasons, OnlyOwnChildren, Broken
<1>56. CASE OriginalDies
  BY <1>56, <1>1, OriginalDiesEffect, CopyProgram
  DEF OriginalDiesDoes, Reasons, OnlyOwnChildren, Broken
<1> QED
  BY <1>3, <1>4, <1>5, <1>6, <1>7, <1>8, <1>9, <1>10, <1>11, <1>12, <1>13,
     <1>51, <1>52, <1>53, <1>54, <1>55, <1>56
  DEF HooksNext, ChildStep, PartnerStep

LEMMA ForkFailedStep ==
    ASSUME ChildTypes, OtherTypes, Counters, Phases, Reasons, ForkFailed,
           OnePartner, Originals, HooksNext
    PROVE  ForkFailed'
<1>1. Regular(bench) /\ bench' = bench
  BY ProgramsRegular, BenchStays DEF ChildTypes
<1>2. ASSUME bench' = bench, apc' = apc, pid' = pid, faults' = faults,
             partner' = partner, interval' = interval, laps' = laps,
             orphan' = orphan
      PROVE  ForkFailed'
  BY <1>2 DEF ForkFailed
<1>3. CASE \/ DropStep \/ WaitJob \/ Answer
  <2>1. /\ bench' = bench /\ apc' = apc /\ pid' = pid /\ faults' = faults
        /\ partner' = partner /\ interval' = interval /\ laps' = laps
        /\ orphan' = orphan
    BY <1>3, Frames, WaitJobEffect, AnswerEffect
    DEF DropStep, WaitJobDoes, AnswerDoes
  <2> QED BY <2>1, <1>2
<1>4. CASE SetupStep
  BY <1>4, SetupStepEffect
  DEF SetupStepDoes, ForkFailed
<1>5. CASE SayHello
  BY <1>5, Frames
  DEF SayHello, ForkFailed
<1>6. CASE HearHello
  BY <1>6
  DEF HearHello, ForkFailed, OnePartner
<1>7. CASE SetupDone
  <2>1. /\ UNCHANGED <<pid, faults, partner, interval, laps, orphan>>
        /\ apc = "setup"
        /\ apc' = IF bench.each THEN "bench" ELSE "enter"
    BY <1>7, Frames DEF SetupDone
  <2>2. pid = "failed" => ~bench.each
    BY <2>1, <1>1 DEF ForkFailed, Phases, Regular
  <2>3. pid = "failed" => apc' = "enter"
    BY <2>1, <2>2
  <2> QED BY <2>1, <2>3, <1>1 DEF ForkFailed
<1>8. CASE Enter
  BY <1>8, EnterEffect
  DEF EnterDoes, ForkFailed
<1>9. CASE Orphaned
  BY <1>9, OrphanedEffect
  DEF OrphanedDoes, ForkFailed
<1>10. CASE NextInterval
  BY <1>10, Frames, HooksAssumption
  DEF NextInterval, ForkFailed
<1>11. CASE Report
  BY <1>11, HooksAssumption, ReportEffect
  DEF ReportDoes, ForkFailed
<1>12. CASE WaitExit
  BY <1>12, Frames
  DEF WaitExit, ForkFailed
<1>13. CASE IntervalOver
  BY <1>13, Frames
  DEF IntervalOver, ForkFailed
<1>14. CASE KillStep
  BY <1>14, KillStepEffect
  DEF KillStepDoes, ForkFailed
<1>15. CASE ReapStep
  BY <1>15, ReapStepEffect
  DEF ReapStepDoes, ForkFailed
<1>16. CASE TeardownDone
  BY <1>16, Frames
  DEF TeardownDone, ForkFailed
<1>17. CASE AfterTeardown
  BY <1>17, AfterTeardownEffect
  DEF AfterTeardownDoes, ChildTypes, ForkFailed
<1>18. CASE Ask
  BY <1>18, Frames
  DEF Ask, ForkFailed
<1>19. CASE Take
  <2>1. pid' = pid /\ partner' = partner /\ b2a > 0
    BY <1>19, TakeEffect DEF TakeDoes
  <2> QED BY <2>1, <1>1 DEF ForkFailed, OnePartner
<1>20. CASE TakeTurn
  BY <1>20
  DEF TakeTurn, ForkFailed, OnePartner
<1>21. CASE Lost
  BY <1>21
  DEF Lost, ForkFailed
<1>22. CASE ProcA
  BY <1>22, ProcAEffect
  DEF ProcADoes, ForkFailed
<1>23. CASE Alone
  BY <1>23
  DEF Alone, ForkFailed
<1>24. CASE ForkJob
  BY <1>24
  DEF ForkJob, ForkFailed
<1>25. CASE Assign
  <2>1. /\ UNCHANGED <<pid, faults, partner, interval, laps, orphan>>
        /\ apc = "assign" /\ apc' = "bench"
    BY <1>25, Frames DEF Assign
  <2>2. pid # "failed"
    BY <2>1 DEF ForkFailed, Phases
  <2> QED BY <2>1, <2>2 DEF ForkFailed
<1>26. CASE ForgetJobs
  BY <1>26
  DEF ForgetJobs, ForkFailed
<1>27. CASE ForkCopy
  BY <1>27
  DEF ForkCopy, ForkFailed
<1>28. CASE Handle
  <2>1. HandleDoes
    BY <1>28, HandleEffect
  <2>2. UNCHANGED <<pid, faults, partner, interval, laps, orphan>>
    BY <2>1 DEF HandleDoes
  <2>3. pid = "failed" => apc' = "exited"
    BY <2>1, <1>1, ForkingProgram DEF HandleDoes, OnePartner
  <2> QED BY <2>2, <2>3 DEF ForkFailed
<1>29. CASE ProcB
  BY <1>29
  DEF ProcB, ForkFailed
<1>30. CASE Obey
  BY <1>30, ObeyEffect
  DEF ObeyDoes, ForkFailed
<1>31. CASE Orphan
  BY <1>31
  DEF Orphan, ForkFailed
<1>32. ASSUME NEW j \in Job, JobEnds(j)
      PROVE  ForkFailed'
  <2>1. /\ bench' = bench /\ apc' = apc /\ pid' = pid /\ faults' = faults
        /\ partner' = partner /\ interval' = interval /\ laps' = laps
        /\ orphan' = orphan
    BY <1>32, Frames DEF JobEnds
  <2> QED BY <2>1, <1>2
<1>33. CASE SetupFails
  <2>1. SetupFailsDoes
    BY <1>33, SetupFailsEffect
  <2>2. /\ UNCHANGED <<partner, interval, laps, orphan>>
        /\ faults' = faults \cup {Setup[ip].do}
        /\ apc = "setup" /\ ip \in 1..Len(Setup)
        /\ apc' = apc \/ (apc' = "exited")
    BY <2>1, <1>1 DEF SetupFailsDoes, Counters, Regular, SetupRegular
  <2>3. CASE Setup[ip].do = "fork"
    <3>1. partner = "none"
      <4>1. ip \in ip..Len(Setup)
        BY <2>2, <1>1 DEF Regular, SetupRegular
      <4> QED BY <4>1, <2>2, <2>3 DEF OnePartner
    <3>2. ~bench.each
      BY <2>2, <2>3, <1>1 DEF Regular, SetupRegular
    <3>3. interval = 0
      BY <3>2, <2>2 DEF Phases
    <3>4. apc' # "exited" => bench.talk \in {"ask", "turns"}
      <4>1. apc' # "exited" => Setup[ip].fails # "exit"
        BY <2>1 DEF SetupFailsDoes
      <4> QED BY <4>1, <2>2, <2>3, <1>1 DEF Regular, SetupRegular
    <3> QED BY <3>1, <3>3, <3>4, <2>2, <2>3, <1>1 DEF ForkFailed
  <2>4. CASE Setup[ip].do # "fork"
    <3>1. pid' = pid
      BY <2>1, <2>4 DEF SetupFailsDoes
    <3> QED BY <3>1, <2>2, <1>1 DEF ForkFailed
  <2> QED BY <2>3, <2>4
<1>34. CASE ForkJobFails
  BY <1>34, ForkJobFailsEffect
  DEF ForkJobFailsDoes, ForkFailed
<1>35. CASE Term
  BY <1>35, Frames
  DEF Term, ForkFailed
<1>36. CASE Killed
  BY <1>36, Frames
  DEF Killed, ForkFailed
<1>37. CASE ParentDies
  BY <1>37, Frames
  DEF ParentDies, ForkFailed
<1>38. CASE PartnerDies
  BY <1>38
  DEF PartnerDies, ForkFailed
<1>51. CASE NoChannel
  <2>1. NoChannelDoes
    BY <1>51, NoChannelEffect
  <2>2. /\ UNCHANGED <<pid, partner, interval, orphan, faults>>
        /\ apc = "bench"
        /\ \/ apc' = "exited"
           \/ bench.talk = "ask"
           \/ bench.name = "lat_unix"
    BY <2>1 DEF NoChannelDoes
  <2>3. bench.name = "lat_unix" => bench.talk = "ask"
    BY <1>1 DEF Regular
  <2>4. bench.talk = "ask" => "pair" \in faults
    BY <2>1 DEF NoChannelDoes, Broken
  <2> QED BY <2>2, <2>3, <2>4, <1>1 DEF ForkFailed
<1>52. CASE PartnerFails
  BY <1>52, <1>1, PartnerFailsEffect, CopyProgram
  DEF PartnerFailsDoes, ForkFailed
<1>53. CASE GiveUp
  BY <1>53, <1>1, GiveUpEffect, CopyProgram
  DEF GiveUpDoes, ForkFailed
<1>54. CASE ForkCopyFails
  BY <1>54, <1>1, ForkCopyFailsEffect, CopyProgram
  DEF ForkCopyFailsDoes, ForkFailed
<1>55. CASE Wake
  BY <1>55, <1>1, WakeEffect, CopyProgram
  DEF WakeDoes, ForkFailed, OnePartner
<1>56. CASE OriginalDies
  BY <1>56, <1>1, OriginalDiesEffect, CopyProgram
  DEF OriginalDiesDoes, ForkFailed
<1> QED
  BY <1>3, <1>4, <1>5, <1>6, <1>7, <1>8, <1>9, <1>10, <1>11, <1>12, <1>13,
     <1>14, <1>15, <1>16, <1>17, <1>18, <1>19, <1>20, <1>21, <1>22, <1>23,
     <1>24, <1>25, <1>26, <1>27, <1>28, <1>29, <1>30, <1>31, <1>32, <1>33,
     <1>34, <1>35, <1>36, <1>37, <1>38,
     <1>51, <1>52, <1>53, <1>54, <1>55, <1>56
  DEF HooksNext, ChildStep, PartnerStep

LEMMA OnePartnerStep ==
    ASSUME ChildTypes, OtherTypes, Counters, Phases, OnePartner, Originals, HooksNext
    PROVE  OnePartner'
<1>1. Regular(bench) /\ bench' = bench
  BY ProgramsRegular, BenchStays DEF ChildTypes
<1>2. ASSUME bench' = bench, apc' = apc, ip' = ip, pid' = pid,
             partner' = partner, owe' = owe, b2a' = b2a, ending' = ending
      PROVE  OnePartner'
  BY <1>2 DEF OnePartner
<1>3. CASE \/ Alone \/ ForkCopy \/ Term \/ ParentDies
  <2>1. /\ bench' = bench /\ apc' = apc /\ ip' = ip /\ pid' = pid
        /\ partner' = partner /\ owe' = owe /\ b2a' = b2a
        /\ ending' = ending
    BY <1>3, Frames
    DEF Alone, ForkCopy, Term, ParentDies
  <2> QED BY <2>1, <1>2
<1>4. CASE SetupStep
  <2>1. /\ apc = "setup" /\ apc' = "setup" /\ ip \in 1..Len(Setup)
        /\ Len(Setup) \in Nat /\ ip' = ip + 1
        /\ ending' = ending /\ owe' = owe /\ b2a' = b2a
    BY <1>4, <1>1, SetupStepEffect
    DEF SetupStepDoes, Counters, Regular, SetupRegular
  <2>2. ending' = "none"
    BY <2>1 DEF Phases
  <2>3. CASE Setup[ip].do = "fork"
    <3>1. partner' = "fresh" /\ pid' = "own"
      BY <1>4, <2>3, SetupStepEffect DEF SetupStepDoes
    <3>2. \A n \in 1..Len(Setup) : Setup[n].do = "fork" => n = ip
      BY <2>1, <2>3, <1>1 DEF Regular, SetupRegular
    <3>3. \A n \in ip'..Len(Setup) : Setup[n].do # "fork"
      BY <3>2, <2>1
    <3>4. Has(Setup, "fork")
      BY <2>1, <2>3 DEF Has
    <3> QED BY <3>1, <3>3, <3>4, <2>1, <2>2, <1>1 DEF OnePartner
  <2>4. CASE Setup[ip].do # "fork"
    <3>1. partner' = partner /\ pid' = pid
      BY <1>4, <2>4, SetupStepEffect DEF SetupStepDoes
    <3>2. \A n \in ip'..Len(Setup) : n \in ip..Len(Setup)
      BY <2>1
    <3> QED BY <3>1, <3>2, <2>1, <2>2, <1>1 DEF OnePartner
  <2> QED BY <2>3, <2>4
<1>5. CASE SayHello
  BY <1>5
  DEF SayHello, OnePartner
<1>6. CASE HearHello
  BY <1>6
  DEF HearHello, Phases, OnePartner
<1>7. CASE SetupDone
  BY <1>7, Frames
  DEF SetupDone, OnePartner
<1>8. CASE Enter
  <2>1. EnterDoes
    BY <1>8, EnterEffect
  <2>2. /\ UNCHANGED <<pid, partner, owe, b2a, ending>>
        /\ apc' = "entered" \/ (bench.each /\ apc' \in {"teardown", "torn"})
        /\ apc = "enter"
    BY <2>1 DEF EnterDoes
  <2>3. ending = "none"
    BY <2>2 DEF Phases
  <2>4. bench.each => partner = "none"
    BY <1>1, ForkingProgram DEF OnePartner
  <2> QED BY <2>2, <2>3, <2>4, <1>1 DEF OnePartner
<1>9. CASE Orphaned
  <2>1. OrphanedDoes
    BY <1>9, OrphanedEffect
  <2>2. /\ UNCHANGED <<pid, partner, owe, b2a, ending>> /\ apc = "entered"
        /\ \/ bench.each /\ apc' = "torn"
           \/ ip' = 1 /\ apc' = "teardown"
    BY <2>1 DEF OrphanedDoes
  <2>3. ending = "none"
    BY <2>2 DEF Phases
  <2>4. bench.each => partner = "none"
    BY <1>1, ForkingProgram DEF OnePartner
  <2>5. partner \in Owned => Has(Teardown, "reap")
    BY <1>1, ForkingProgram DEF OnePartner
  <2>6. ip' = 1 /\ partner \in Owned =>
           \E m \in ip'..Len(Teardown) : Teardown[m].do = "reap"
    BY <2>5 DEF Has
  <2> QED BY <2>2, <2>3, <2>4, <2>6, <1>1 DEF OnePartner
<1>10. CASE NextInterval
  <2>1. /\ UNCHANGED <<pid, partner, owe, b2a, ending>> /\ apc = "entered"
        /\ apc' = "bench" \/ (bench.each /\ apc' = "setup")
    BY <1>10, Frames DEF NextInterval
  <2>2. ending = "none"
    BY <2>1 DEF Phases
  <2>3. bench.each => partner = "none" /\ pid = "none"
    BY <1>1, ForkingProgram DEF OnePartner
  <2> QED BY <2>1, <2>2, <2>3, <1>1 DEF OnePartner
<1>11. CASE Report
  <2>1. ReportDoes
    BY <1>11, ReportEffect
  <2>2. /\ UNCHANGED <<pid, partner, owe, b2a, ending>> /\ apc = "entered"
        /\ \/ (bench.each \/ ~bench.hook) /\ apc' = "torn"
           \/ ip' = 1 /\ apc' = "teardown"
    BY <2>1 DEF ReportDoes
  <2>3. ending = "none"
    BY <2>2 DEF Phases
  <2>4. bench.each \/ ~bench.hook => partner = "none"
    BY <1>1, ForkingProgram DEF OnePartner
  <2>5. partner \in Owned => Has(Teardown, "reap")
    BY <1>1, ForkingProgram DEF OnePartner
  <2>6. ip' = 1 /\ partner \in Owned =>
           \E m \in ip'..Len(Teardown) : Teardown[m].do = "reap"
    BY <2>5 DEF Has
  <2> QED BY <2>2, <2>3, <2>4, <2>6, <1>1 DEF OnePartner
<1>12. CASE WaitExit
  BY <1>12, Frames
  DEF WaitExit, OnePartner
<1>13. CASE IntervalOver
  BY <1>13, Frames
  DEF IntervalOver, OnePartner
<1>14. CASE DropStep
  BY <1>14, Frames
  DEF DropStep, Counters, Phases, OnePartner
<1>15. CASE KillStep
  <2>1. KillStepDoes
    BY <1>15, KillStepEffect
  <2>2. /\ apc = "teardown" /\ apc' = "teardown" /\ ip \in Nat
        /\ Teardown[ip].do = "kill"
        /\ UNCHANGED <<pid, owe, b2a, ending>>
        /\ ip' = ip + 1 \/ (ip' = ip + 2 /\ Target # "own")
    <3> HIDE DEF Target
    <3> QED BY <2>1 DEF KillStepDoes, Counters
  <2>3. ending = "none"
    BY <2>2 DEF Phases
  <2>4. partner' = partner \/ (partner \in Living /\ partner' = "dead")
    <3> HIDE DEF Target, Living
    <3> QED BY <2>1 DEF KillStepDoes
  <2>5. partner' \in Owned <=> partner \in Owned
    BY <2>4
  <2>6. partner \in Owned => Target = "own"
    BY <1>1, ForkingProgram DEF OnePartner
  <2>7. ASSUME partner \in Owned
        PROVE  \E m \in ip'..Len(Teardown) : Teardown[m].do = "reap"
    <3>1. PICK m \in ip..Len(Teardown) : Teardown[m].do = "reap"
      BY <2>2, <2>7 DEF OnePartner
    <3>2. m # ip /\ ip' = ip + 1
      BY <3>1, <2>2, <2>6, <2>7
    <3> QED BY <3>1, <3>2, <2>2
  <2>8. partner' = "none" <=> partner = "none"
    BY <2>4
  <2> HIDE DEF Owned
  <2> QED BY <2>2, <2>3, <2>5, <2>7, <2>8, <1>1 DEF OnePartner
<1>16. CASE ReapStep
  <2>1. ReapStepDoes
    BY <1>16, ReapStepEffect
  <2>2. /\ apc = "teardown" /\ apc' = "teardown"
        /\ UNCHANGED <<owe, b2a, ending>>
    BY <2>1 DEF ReapStepDoes
  <2>3. ending = "none"
    BY <2>2 DEF Phases
  <2>4. bench.talk = "jobs" => partner = "none" /\ pid = "none"
    BY <1>1, ForkingProgram DEF OnePartner
  <2>5. /\ pid' = "none" /\ partner' \in {"none", "reaped"}
        /\ partner' = "none" <=> partner = "none"
    BY <2>1, <2>4 DEF ReapStepDoes, OtherTypes
  <2> QED BY <2>2, <2>3, <2>5, <1>1 DEF OnePartner
<1>17. CASE TeardownDone
  BY <1>17, Frames
  DEF TeardownDone, OtherTypes, Phases, OnePartner
<1>18. CASE AfterTeardown
  BY <1>18, AfterTeardownEffect
  DEF AfterTeardownDoes, ChildTypes, OnePartner
<1>19. CASE Ask
  BY <1>19
  DEF Ask, OnePartner
<1>20. CASE Take
  <2>1. TakeDoes
    BY <1>20, TakeEffect
  <2>2. /\ UNCHANGED <<pid, partner, owe, ending>> /\ b2a > 0
        /\ apc \in {"answer", "bench"} /\ apc' \in {"answer", "bench"}
    BY <2>1 DEF TakeDoes
  <2>3. ending = "none"
    BY <2>2 DEF Phases
  <2>4. partner # "none"
    <3>1. b2a # 0
      BY <2>2
    <3> QED BY <3>1 DEF OnePartner
  <2> QED BY <2>2, <2>3, <2>4, <1>1 DEF OnePartner
<1>21. CASE TakeTurn
  BY <1>21
  DEF TakeTurn, Phases, OnePartner
<1>22. CASE Lost
  BY <1>22, Frames
  DEF Lost, OnePartner
<1>23. CASE ProcA
  BY <1>23, ProcAEffect
  DEF ProcADoes, OnePartner
<1>24. CASE ForkJob
  BY <1>24, Frames
  DEF ForkJob, OnePartner
<1>25. CASE Assign
  BY <1>25, Frames
  DEF Assign, OnePartner
<1>26. CASE WaitJob
  BY <1>26, WaitJobEffect
  DEF WaitJobDoes, OnePartner
<1>27. CASE ForgetJobs
  BY <1>27, Frames
  DEF ForgetJobs, OnePartner
<1>28. CASE Handle
  <2>1. HandleDoes
    BY <1>28, HandleEffect
  <2>2. /\ UNCHANGED <<pid, partner, owe, b2a>>
        /\ \/ bench.cookie = "global" /\ ending' = ending /\ apc' = "teardown"
           \/ apc' = "exited" /\ ending' = "term"
        /\ apc # "exited"
    BY <2>1 DEF HandleDoes
  <2>3. ending = "none"
    BY <2>2 DEF Phases
  <2>4. bench.cookie = "global" => partner = "none"
    BY <1>1, ForkingProgram DEF OnePartner
  <2> QED BY <2>2, <2>3, <2>4, <1>1 DEF OnePartner
<1>29. CASE ProcB
  <2>1. /\ UNCHANGED <<apc, ip, pid, b2a, ending>> /\ partner' = "serving"
        /\ partner \in Owned
    BY <1>29, Frames DEF ProcB
  <2> QED BY <2>1, <1>1 DEF OnePartner
<1>30. CASE Obey
  BY <1>30, ObeyEffect
  DEF ObeyDoes, OnePartner
<1>31. CASE Answer
  BY <1>31, AnswerEffect
  DEF AnswerDoes, OnePartner
<1>32. CASE Orphan
  BY <1>32
  DEF Orphan, OnePartner
<1>33. ASSUME NEW j \in Job, JobEnds(j)
      PROVE  OnePartner'
  <2>1. /\ bench' = bench /\ apc' = apc /\ ip' = ip /\ pid' = pid
        /\ partner' = partner /\ owe' = owe /\ b2a' = b2a
        /\ ending' = ending
    BY <1>33, Frames DEF JobEnds
  <2> QED BY <2>1, <1>2
<1>34. CASE SetupFails
  <2>1. SetupFailsDoes
    BY <1>34, SetupFailsEffect
  <2>2. /\ apc = "setup" /\ ip \in 1..Len(Setup) /\ ip \in ip..Len(Setup)
        /\ Len(Setup) \in Nat
        /\ partner' = partner /\ owe' = owe /\ b2a' = b2a
    BY <2>1, <1>1 DEF SetupFailsDoes, Counters, Regular, SetupRegular
  <2>3. apc' = "exited" \/ (apc' = "setup" /\ ip' \in Nat /\ ip' > ip)
    BY <2>1, <2>2 DEF SetupFailsDoes
  <2>4. ending' \in {"none", "error"}
    BY <2>1 DEF SetupFailsDoes, Phases
  <2>5. apc' = "setup" => \A n \in ip'..Len(Setup) : n \in ip..Len(Setup)
    BY <2>2, <2>3
  <2>6. CASE Setup[ip].do = "fork"
    <3>1. partner = "none" /\ pid' = "failed"
      BY <2>1, <2>2, <2>6 DEF OnePartner, SetupFailsDoes
    <3>2. \A n \in 1..Len(Setup) : Setup[n].do = "fork" => n = ip
      BY <2>2, <2>6, <1>1 DEF Regular, SetupRegular
    <3>3. apc' = "setup" => \A n \in ip'..Len(Setup) : Setup[n].do # "fork"
      BY <3>2, <2>2, <2>3
    <3>4. Has(Setup, "fork")
      BY <2>2, <2>6 DEF Has
    <3> QED
      BY <3>1, <3>3, <3>4, <2>2, <2>3, <2>4, <1>1 DEF OnePartner
  <2>7. CASE Setup[ip].do # "fork"
    <3>1. pid' = pid
      BY <2>1, <2>7 DEF SetupFailsDoes
    <3> QED BY <3>1, <2>2, <2>3, <2>4, <2>5, <1>1 DEF OnePartner
  <2> QED BY <2>6, <2>7
<1>35. CASE ForkJobFails
  BY <1>35, ForkJobFailsEffect
  DEF ForkJobFailsDoes, OnePartner
<1>36. CASE Killed
  BY <1>36, Frames
  DEF Killed, OnePartner
<1>37. CASE PartnerDies
  BY <1>37
  DEF PartnerDies, OnePartner
<1>51. CASE NoChannel
  <2>1. NoChannelDoes
    BY <1>51, NoChannelEffect
  <2>2. /\ UNCHANGED <<pid, partner, owe, b2a>> /\ apc = "bench"
        /\ \/ apc' \in {"exited", "bench", "blocked"}
           \/ ip' = 1 /\ apc' = "teardown"
        /\ ending' \in {ending, "error"}
    BY <2>1, <1>1 DEF NoChannelDoes, Regular
  <2>3. ending = "none"
    BY <2>2 DEF Phases
  <2>5. partner \in Owned => Has(Teardown, "reap")
    BY <1>1, ForkingProgram DEF OnePartner
  <2>6. ip' = 1 /\ partner \in Owned =>
           \E m \in ip'..Len(Teardown) : Teardown[m].do = "reap"
    BY <2>5 DEF Has
  <2> QED BY <2>2, <2>3, <2>6, <1>1 DEF OnePartner
<1>52. CASE PartnerFails
  BY <1>52, <1>1, PartnerFailsEffect, CopyProgram
  DEF PartnerFailsDoes, OnePartner
<1>53. CASE GiveUp
  BY <1>53, <1>1, GiveUpEffect, CopyProgram
  DEF GiveUpDoes, OnePartner
<1>54. CASE ForkCopyFails
  BY <1>54, <1>1, ForkCopyFailsEffect, CopyProgram
  DEF ForkCopyFailsDoes, OnePartner
<1>55. CASE Wake
  BY <1>55, <1>1, WakeEffect, CopyProgram
  DEF WakeDoes, OnePartner
<1>56. CASE OriginalDies
  BY <1>56, <1>1, OriginalDiesEffect, CopyProgram
  DEF OriginalDiesDoes, OnePartner
<1> QED
  BY <1>3, <1>4, <1>5, <1>6, <1>7, <1>8, <1>9, <1>10, <1>11, <1>12, <1>13,
     <1>14, <1>15, <1>16, <1>17, <1>18, <1>19, <1>20, <1>21, <1>22, <1>23,
     <1>24, <1>25, <1>26, <1>27, <1>28, <1>29, <1>30, <1>31, <1>32, <1>33,
     <1>34, <1>35, <1>36, <1>37,
     <1>51, <1>52, <1>53, <1>54, <1>55, <1>56
  DEF HooksNext, ChildStep, PartnerStep

LEMMA ResourcesStep ==
    ASSUME ChildTypes, Counters, Phases, Resources, Originals, HooksNext
    PROVE  Resources'
<1>1. Regular(bench) /\ bench' = bench
  BY ProgramsRegular, BenchStays DEF ChildTypes
<1>2. ASSUME bench' = bench, apc' = apc, ip' = ip, res' = res,
             interval' = interval, ending' = ending
      PROVE  Resources'
  BY <1>2 DEF Resources
<1>3. CASE \/ TakeTurn \/ Alone \/ ForkCopy \/ ProcB \/ Obey
          \/ Answer \/ Orphan \/ Term \/ ParentDies
          \/ PartnerDies
  <2>1. /\ bench' = bench /\ apc' = apc /\ ip' = ip /\ res' = res
        /\ interval' = interval /\ ending' = ending
    BY <1>3, Frames, ObeyEffect, AnswerEffect
    DEF TakeTurn, Alone, ForkCopy, ProcB, Orphan, Term, ParentDies,
        PartnerDies, ObeyDoes, AnswerDoes
  <2> QED BY <2>1, <1>2
<1>4. CASE SetupStep
  <2>1. SetupStepDoes
    BY <1>4, SetupStepEffect
  <2>2. /\ apc = "setup" /\ apc' = "setup" /\ ip \in 1..Len(Setup)
        /\ ip \in Nat /\ Len(Setup) \in Nat /\ ip' = ip + 1
        /\ ending = "none" /\ ending' = "none"
    BY <2>1, <1>1 DEF SetupStepDoes, Counters, Phases, Regular, SetupRegular
  <2>3. ASSUME NEW r \in res, Setup[ip].do # "drop" \/ Setup[ip].what # r
        PROVE  Drops(Teardown, r) \/ DropsFrom(Setup, r, ip')
    <3>1. Drops(Teardown, r) \/ DropsFrom(Setup, r, ip)
      BY <2>2 DEF Resources
    <3> QED BY <3>1, <2>2, <2>3, DropsLater
  <2>4. CASE Setup[ip].do = "make"
    <3>1. res' = res \cup {Setup[ip].what}
      BY <2>1, <2>4 DEF SetupStepDoes
    <3>2. /\ bench.hook /\ bench.cookie = "state"
          /\ \/ Drops(Teardown, Setup[ip].what)
             \/ DropsFrom(Setup, Setup[ip].what, ip')
      BY <2>2, <2>4, <1>1 DEF Regular, SetupRegular
    <3> QED BY <3>1, <3>2, <2>2, <2>3, <2>4, <1>1 DEF Resources
  <2>5. CASE Setup[ip].do # "make"
    <3>1. \A r \in res' :
              r \in res /\ (Setup[ip].do # "drop" \/ Setup[ip].what # r)
      BY <2>1, <2>5 DEF SetupStepDoes
    <3> QED BY <3>1, <2>2, <2>3, <1>1 DEF Resources
  <2> QED BY <2>4, <2>5
<1>5. CASE SayHello
  BY <1>5, Frames
  DEF SayHello, Resources
<1>6. CASE HearHello
  BY <1>6, Frames
  DEF HearHello, Phases, Resources, DropsFrom
<1>7. CASE SetupDone
  BY <1>7, Frames
  DEF SetupDone, Phases, Resources, DropsFrom
<1>8. CASE Enter
  <2>1. EnterDoes
    BY <1>8, EnterEffect
  <2>2. /\ apc = "enter" /\ res' = res /\ ending' = ending
        /\ ending = "none" /\ interval' = interval
    BY <2>1 DEF EnterDoes, Phases
  <2>3. \A r \in res : Drops(Teardown, r)
    BY <2>2 DEF Resources
  <2>4. CASE apc' = "entered"
    <3>1. bench.each => interval = 0
      BY <2>1, <2>4 DEF EnterDoes, Counters
    <3>2. bench.each => res = {}
      BY <3>1, <2>2 DEF Resources
    <3> QED BY <3>2, <2>2, <2>3, <2>4, <1>1 DEF Resources
  <2>5. CASE apc' = "torn"
    <3>1. ~bench.hook
      BY <2>1, <2>5 DEF EnterDoes
    <3> QED BY <3>1, <2>2, <2>5, <1>1 DEF Resources
  <2>6. CASE apc' = "teardown"
    <3>1. ip' = 1
      BY <2>1, <2>6 DEF EnterDoes
    <3> QED BY <3>1, <2>2, <2>3, <2>6, <1>1 DEF Resources, Drops
  <2> QED BY <2>1, <2>4, <2>5, <2>6 DEF EnterDoes
<1>9. CASE Orphaned
  BY <1>9, OrphanedEffect
  DEF OrphanedDoes, Phases, Resources, Drops
<1>10. CASE NextInterval
  BY <1>10, Frames
  DEF NextInterval, Resources
<1>11. CASE Report
  BY <1>11, ReportEffect
  DEF ReportDoes, Phases, Resources, Drops
<1>12. CASE WaitExit
  BY <1>12, Frames
  DEF WaitExit, Resources
<1>13. CASE IntervalOver
  <2>1. /\ apc = "bench" /\ apc' = "enter" /\ interval' = interval + 1
        /\ res' = res /\ ending' = ending
    BY <1>13, Frames DEF IntervalOver
  <2>2. interval' # 0 /\ ending = "none"
    BY <2>1 DEF Counters, Phases
  <2> QED BY <2>1, <2>2, <1>1 DEF Resources
<1>14. CASE DropStep
  <2>1. /\ apc = "teardown" /\ apc' = "teardown" /\ ip' = ip + 1
        /\ res' = res \ {Teardown[ip].what} /\ ending' = ending
    BY <1>14 DEF DropStep
  <2>2. ending = "none" /\ ip \in Nat
    BY <2>1 DEF Phases, Counters
  <2>3. ASSUME NEW r \in res'
        PROVE  \E m \in ip'..Len(Teardown) :
                   Teardown[m].do = "drop" /\ Teardown[m].what = r
    <3>1. PICK m \in ip..Len(Teardown) :
              Teardown[m].do = "drop" /\ Teardown[m].what = r
      BY <2>1 DEF Resources
    <3>2. m # ip
      BY <3>1, <2>1
    <3> QED BY <3>1, <3>2, <2>1, <2>2
  <2> QED BY <2>1, <2>2, <2>3, <1>1 DEF Resources
<1>15. CASE KillStep
  <2>1. /\ apc = "teardown" /\ apc' = "teardown" /\ ip \in 1..Len(Teardown)
        /\ Len(Teardown) \in Nat /\ Teardown[ip].do = "kill"
        /\ res' = res /\ ending' = ending
        /\ ip' = ip + 1 \/ ip' = ip + 2
    <3> HIDE DEF Target
    <3> QED
      BY <1>15, <1>1, KillStepEffect
      DEF KillStepDoes, Counters, Regular, TeardownRegular
  <2>2. ending = "none" /\ Teardown[ip + 1].do = "reap"
    BY <2>1, <1>1 DEF Phases, Regular, TeardownRegular
  <2>3. ASSUME NEW r \in res
        PROVE  \E m \in ip'..Len(Teardown) :
                   Teardown[m].do = "drop" /\ Teardown[m].what = r
    <3>1. PICK m \in ip..Len(Teardown) :
              Teardown[m].do = "drop" /\ Teardown[m].what = r
      BY <2>1 DEF Resources
    <3>2. m # ip /\ m # ip + 1
      BY <3>1, <2>1, <2>2
    <3> QED BY <3>1, <3>2, <2>1
  <2> QED BY <2>1, <2>2, <2>3, <1>1 DEF Resources
<1>16. CASE ReapStep
  <2>1. /\ apc = "teardown" /\ apc' = "teardown" /\ ip \in Nat
        /\ ip' = ip + 1 /\ Teardown[ip].do = "reap"
        /\ res' = res /\ ending' = ending
    BY <1>16, ReapStepEffect DEF ReapStepDoes, Counters
  <2>2. ending = "none"
    BY <2>1 DEF Phases
  <2>3. ASSUME NEW r \in res
        PROVE  \E m \in ip'..Len(Teardown) :
                   Teardown[m].do = "drop" /\ Teardown[m].what = r
    <3>1. PICK m \in ip..Len(Teardown) :
              Teardown[m].do = "drop" /\ Teardown[m].what = r
      BY <2>1 DEF Resources
    <3>2. m # ip
      BY <3>1, <2>1
    <3> QED BY <3>1, <3>2, <2>1
  <2> QED BY <2>1, <2>2, <2>3, <1>1 DEF Resources
<1>17. CASE TeardownDone
  BY <1>17, Frames
  DEF TeardownDone, Phases, Resources
<1>18. CASE AfterTeardown
  BY <1>18, AfterTeardownEffect
  DEF AfterTeardownDoes, Resources
<1>19. CASE Ask
  BY <1>19, Frames
  DEF Ask, Resources
<1>20. CASE Take
  <2>1. /\ apc \in {"answer", "bench"} /\ apc' \in {"answer", "bench"}
        /\ res' = res /\ ending' = ending
    BY <1>20, TakeEffect DEF TakeDoes
  <2>2. ending = "none"
    BY <2>1 DEF Phases
  <2> QED BY <2>1, <2>2, <1>1 DEF Resources
<1>21. CASE Lost
  BY <1>21, Frames
  DEF Lost, Resources
<1>22. CASE ProcA
  <2>1. /\ apc \in {"bench", "A2", "A3", "A4"} /\ apc' \in {"bench", "A2", "A3", "A4"}
        /\ res' = res /\ ending' = ending
    BY <1>22, ProcAEffect DEF ProcADoes
  <2>2. ending = "none"
    BY <2>1 DEF Phases
  <2> QED BY <2>1, <2>2, <1>1 DEF Resources
<1>23. CASE ForkJob
  BY <1>23, Frames
  DEF ForkJob, Resources
<1>24. CASE Assign
  BY <1>24, Frames
  DEF Assign, Resources
<1>25. CASE WaitJob
  BY <1>25, WaitJobEffect
  DEF WaitJobDoes, Resources
<1>26. CASE ForgetJobs
  BY <1>26, Frames
  DEF ForgetJobs, Resources
<1>27. CASE Handle
  BY <1>27, HandleEffect
  DEF HandleDoes, Resources
<1>28. ASSUME NEW j \in Job, JobEnds(j)
      PROVE  Resources'
  <2>1. /\ bench' = bench /\ apc' = apc /\ ip' = ip /\ res' = res
        /\ interval' = interval /\ ending' = ending
    BY <1>28, Frames DEF JobEnds
  <2> QED BY <2>1, <1>2
<1>29. CASE SetupFails
  <2>1. SetupFailsDoes
    BY <1>29, SetupFailsEffect
  <2>2. /\ apc = "setup" /\ ip \in 1..Len(Setup) /\ ip \in Nat
        /\ Len(Setup) \in Nat /\ res' = res /\ Setup[ip].do # "drop"
        /\ Setup[ip].fails \in {"exit", "on", "return"}
    BY <2>1, <1>1 DEF SetupFailsDoes, Counters, Regular, SetupRegular
  <2>3. CASE Setup[ip].fails = "exit"
    <3>1. apc' = "exited" /\ ending' = "error"
      BY <2>1, <2>3 DEF SetupFailsDoes
    <3> QED BY <3>1, <2>2, <1>1 DEF Resources
  <2>4. CASE Setup[ip].fails # "exit"
    <3>1. apc' = "setup" /\ ending' = "none"
      BY <2>1, <2>2, <2>4 DEF SetupFailsDoes, Phases
    <3>2. ASSUME NEW r \in res
          PROVE  Drops(Teardown, r) \/ DropsFrom(Setup, r, ip')
      <4>1. Drops(Teardown, r) \/ DropsFrom(Setup, r, ip)
        BY <2>2 DEF Resources
      <4>2. CASE DropsFrom(Setup, r, ip)
        <5>1. DropsFrom(Setup, r, ip + 1) /\ Setup[ip].fails # "return"
          BY <4>2, <2>2, DropsLater
        <5>2. ip' = ip + 1
          BY <5>1, <2>1, <2>2, <2>4 DEF SetupFailsDoes
        <5> QED BY <5>1, <5>2
      <4> QED BY <4>1, <4>2
    <3> QED BY <3>1, <3>2, <2>2, <1>1 DEF Resources
  <2> QED BY <2>3, <2>4
<1>30. CASE ForkJobFails
  <2>1. /\ apc = "bench" /\ res' = res /\ apc' \in {"bench", "failed"}
        /\ ending' = ending
    BY <1>30, ForkJobFailsEffect DEF ForkJobFailsDoes
  <2>2. ending = "none"
    BY <2>1 DEF Phases
  <2> QED BY <2>1, <2>2, <1>1 DEF Resources
<1>31. CASE Killed
  BY <1>31
  DEF Killed, Resources
<1>51. CASE NoChannel
  <2>1. NoChannelDoes
    BY <1>51, NoChannelEffect
  <2>2. /\ res' = res /\ interval' = interval /\ apc = "bench"
        /\ \/ apc' \in {"exited", "bench", "blocked"}
           \/ ip' = 1 /\ apc' = "teardown"
        /\ ending' \in {ending, "error"}
    BY <2>1, <1>1 DEF NoChannelDoes, Regular
  <2>3. ending = "none"
    BY <2>2 DEF Phases
  <2>4. \A r \in res : Drops(Teardown, r)
    BY <2>2 DEF Resources
  <2>5. ip' = 1 => \A r \in res : \E m \in ip'..Len(Teardown) :
            Teardown[m].do = "drop" /\ Teardown[m].what = r
    BY <2>4 DEF Drops
  <2> QED BY <2>2, <2>3, <2>4, <2>5, <1>1 DEF Resources
<1>52. CASE PartnerFails
  BY <1>52, <1>1, PartnerFailsEffect, CopyProgram
  DEF PartnerFailsDoes, Resources
<1>53. CASE GiveUp
  BY <1>53, <1>1, GiveUpEffect, CopyProgram
  DEF GiveUpDoes, Resources
<1>54. CASE ForkCopyFails
  BY <1>54, <1>1, ForkCopyFailsEffect, CopyProgram
  DEF ForkCopyFailsDoes, Resources
<1>55. CASE Wake
  BY <1>55, <1>1, WakeEffect, CopyProgram
  DEF WakeDoes, Resources
<1>56. CASE OriginalDies
  BY <1>56, <1>1, OriginalDiesEffect, CopyProgram
  DEF OriginalDiesDoes, Resources
<1> QED
  BY <1>3, <1>4, <1>5, <1>6, <1>7, <1>8, <1>9, <1>10, <1>11, <1>12, <1>13,
     <1>14, <1>15, <1>16, <1>17, <1>18, <1>19, <1>20, <1>21, <1>22, <1>23,
     <1>24, <1>25, <1>26, <1>27, <1>28, <1>29, <1>30, <1>31,
     <1>51, <1>52, <1>53, <1>54, <1>55, <1>56
  DEF HooksNext, ChildStep, PartnerStep

LEMMA JobsIdleStep ==
    ASSUME ChildTypes, OtherTypes, Counters, Phases, JobsIdle, Originals, HooksNext
    PROVE  JobsIdle'
<1>1. Regular(bench) /\ bench' = bench
  BY ProgramsRegular, BenchStays DEF ChildTypes
<1>2. ASSUME bench' = bench, apc' = apc, ip' = ip, goal' = goal,
             jobs' = jobs, known' = known, laps' = laps, ending' = ending
      PROVE  JobsIdle'
  BY <1>2 DEF JobsIdle, Idle
<1>a. CASE bench.talk # "jobs"
  <2>1. Job = {} /\ apc' # "assign"
    BY <1>a, <1>1, NoJobs, PhasesStep DEF Phases
  <2>3. Idle' /\ bench'.talk # "jobs"
    BY <2>1, <1>1, <1>a DEF Idle
  <2> QED BY <2>1, <2>3, <1>1, <1>a DEF JobsIdle
<1> SUFFICES ASSUME bench.talk = "jobs" PROVE JobsIdle'
    BY <1>a
<1>b. ~bench.each /\ bench.njobs \in Nat
  BY <1>1 DEF Regular, JobsRegular
<1>3. CASE \/ ProcB \/ Obey \/ Answer \/ Orphan \/ Term
          \/ ParentDies \/ PartnerDies
  <2>1. /\ bench' = bench /\ apc' = apc /\ ip' = ip /\ goal' = goal
        /\ jobs' = jobs /\ known' = known
        /\ laps' = laps /\ ending' = ending
    BY <1>3, Frames, ObeyEffect, AnswerEffect
    DEF ProcB, Orphan, Term, ParentDies, PartnerDies, ObeyDoes, AnswerDoes
  <2> QED BY <2>1, <1>2
<1>4. CASE SetupStep
  BY <1>4, SetupStepEffect
  DEF SetupStepDoes, JobsIdle, Idle
<1>5. CASE SayHello
  BY <1>5, Frames
  DEF SayHello, JobsIdle, Idle
<1>6. CASE HearHello
  BY <1>6, Frames
  DEF HearHello, JobsIdle, Idle
<1>7. CASE SetupDone
  BY <1>7, <1>1, Frames
  DEF SetupDone, JobsIdle, Idle, Regular
<1>8. CASE Enter
  BY <1>8, EnterEffect
  DEF EnterDoes, Phases, JobsIdle, Idle
<1>9. CASE Orphaned
  BY <1>9, OrphanedEffect
  DEF OrphanedDoes, Phases, JobsIdle, Idle
<1>10. CASE NextInterval
  <2>1. /\ apc = "entered" /\ apc' = "bench" /\ ip' = 1 /\ laps' > 0
        /\ UNCHANGED <<jobs, known, ending>>
    BY <1>10, <1>b, Frames, HooksAssumption DEF NextInterval
  <2>2. Idle /\ ending = "none"
    BY <2>1 DEF JobsIdle, Phases
  <2>3. Idle'
    BY <2>1, <2>2, <1>1 DEF Idle
  <2>4. laps' # 0 /\ ending' = "none"
    BY <2>1, <2>2
  <2>5. ip' \in 1..bench.njobs + 1 /\ \A j \in Job : ~(j < ip')
    BY <2>1, <1>b
  <2> HIDE DEF Job, Started
  <2>6. Job' = Job
    BY <1>1 DEF Job
  <2> QED BY <2>1, <2>3, <2>4, <2>5, <2>6, <1>1, <1>b DEF JobsIdle
<1>11. CASE Report
  BY <1>11, ReportEffect
  DEF ReportDoes, Phases, JobsIdle, Idle
<1>12. CASE WaitExit
  BY <1>12, Frames
  DEF WaitExit, Phases, JobsIdle, Idle
<1>13. CASE IntervalOver
  BY <1>13, Frames
  DEF IntervalOver, JobsIdle, Idle
<1>14. CASE DropStep
  BY <1>14, Frames
  DEF DropStep, JobsIdle, Idle
<1>15. CASE KillStep
  BY <1>15, KillStepEffect
  DEF KillStepDoes, OtherTypes, JobsIdle, Idle
<1>16. CASE ReapStep
  <2>1. /\ apc = "teardown" /\ apc' = "teardown" /\ goal' = goal
        /\ jobs' = jobs \/ jobs' = [jobs EXCEPT ![1] =
                               IF @ = "zombie" THEN "reaped" ELSE @]
        /\ known' = known \/ known' = [known EXCEPT ![1] = "none"]
        /\ UNCHANGED ending
    BY <1>16, ReapStepEffect DEF ReapStepDoes
  <2>2. ending = "none" /\ (goal # "term" => Idle)
    BY <2>1 DEF JobsIdle, Phases
  <2>3. goal # "term" => Idle'
    BY <2>1, <2>2, <1>1 DEF Idle, OtherTypes
  <2> QED BY <2>1, <2>2, <2>3, <1>1, <1>b DEF JobsIdle
<1>17. CASE TeardownDone
  BY <1>17, Frames
  DEF TeardownDone, JobsIdle, Idle
<1>18. CASE AfterTeardown
  BY <1>18, AfterTeardownEffect
  DEF AfterTeardownDoes, ChildTypes, JobsIdle, Idle
<1>19. CASE Ask
  BY <1>19, <1>1, <1>b DEF Ask
<1>20. CASE Take
  BY <1>20, <1>1, <1>b, TakeEffect DEF TakeDoes, Phases
<1>21. CASE TakeTurn
  BY <1>21, <1>1, <1>b DEF TakeTurn
<1>22. CASE Lost
  BY <1>22, Frames
  DEF Lost, JobsIdle
<1>23. CASE ProcA
  BY <1>23, <1>1, <1>b, ProcAEffect DEF ProcADoes, Phases
<1>24. CASE Alone
  BY <1>24, <1>1, <1>b DEF Alone
<1>25. CASE ForkJob
  BY <1>25
  DEF ForkJob, Phases, JobsIdle
<1>26. CASE Assign
  <2>1. /\ apc = "assign" /\ apc' = "bench" /\ ip' = ip /\ laps' = laps
        /\ UNCHANGED <<jobs, ending>>
    BY <1>26, Frames DEF Assign
  <2>2. ip = 1 /\ laps > 0 /\ ending = "none"
    BY <2>1 DEF JobsIdle, Phases
  <2> QED BY <2>1, <2>2, <1>1, <1>b DEF JobsIdle, Counters
<1>27. CASE WaitJob
  <2>1. WaitJobDoes
    BY <1>27, WaitJobEffect
  <2>2. /\ apc = "bench" /\ apc' = "bench" /\ Started /\ laps > 0
        /\ ip \in 1..bench.njobs /\ ip' = ip + 1
        /\ UNCHANGED <<laps, known, ending>>
    BY <2>1, <1>b DEF WaitJobDoes, Counters
  <2>3. ending = "none" /\ Started'
    BY <2>2, <1>1 DEF Phases
  <2>4. \A j \in Job : j < ip => jobs[j] \in {"none", "reaped"}
    BY <2>2 DEF JobsIdle
  <2>5. \/ jobs' = [jobs EXCEPT ![ip] = "reaped"]
        \/ /\ \A j \in Job : jobs[j] \notin {"running", "zombie"}
           /\ jobs' = jobs
    BY <2>1 DEF WaitJobDoes
  <2>6. \A j \in Job : j < ip' => jobs'[j] \in {"none", "reaped"}
    <3>1. CASE jobs' = [jobs EXCEPT ![ip] = "reaped"]
      <4>1. \A j \in Job : j < ip' => j = ip \/ j < ip
        BY <2>2
      <4>2. \A j \in Job : jobs'[j] = IF j = ip THEN "reaped" ELSE jobs[j]
        BY <3>1 DEF OtherTypes
      <4> QED BY <4>1, <4>2, <2>4
    <3>2. CASE (\A j \in Job : jobs[j] \notin {"running", "zombie"})
               /\ jobs' = jobs
      BY <3>2 DEF OtherTypes
    <3> QED BY <3>1, <3>2, <2>5
  <2>7. ip' \in 1..bench.njobs + 1
    BY <2>2, <1>b
  <2> HIDE DEF Job, Started
  <2>8. Job' = Job
    BY <1>1 DEF Job
  <2> QED BY <2>2, <2>3, <2>6, <2>7, <2>8, <1>1, <1>b DEF JobsIdle
<1>28. CASE ForgetJobs
  <2>1. /\ apc = "bench" /\ apc' = "bench" /\ ip = bench.njobs + 1
        /\ ip' = 1
        /\ jobs' = [j \in Job |->
                       IF jobs[j] = "reaped" THEN "none" ELSE jobs[j]]
        /\ known' = [j \in Job |-> "none"]
        /\ UNCHANGED ending
    BY <1>28 DEF ForgetJobs
  <2>2. \A j \in Job : jobs[j] \in {"none", "reaped"}
    <3>1. \A j \in Job : j < ip
      BY <2>1, <1>b
    <3> QED BY <3>1, <2>1 DEF JobsIdle
  <2>3. Idle' /\ ending = "none"
    BY <2>1, <2>2, <1>1 DEF Idle, Phases
  <2> QED BY <2>1, <2>3, <1>1, <1>b DEF JobsIdle
<1>29. CASE ForkCopy
  BY <1>29, <1>1, <1>b DEF ForkCopy
<1>30. CASE Handle
  BY <1>30, HandleEffect
  DEF HandleDoes, Phases, JobsIdle
<1>31. ASSUME NEW j \in Job, JobEnds(j)
      PROVE  JobsIdle'
  BY <1>31, Frames
  DEF JobEnds, OtherTypes, JobsIdle, Idle
<1>32. CASE SetupFails
  BY <1>32, SetupFailsEffect
  DEF SetupFailsDoes, JobsIdle, Idle
<1>33. CASE ForkJobFails
  <2>1. /\ apc = "bench" /\ ip' = ip /\ laps > 0 /\ NextJob # {}
        /\ apc' \in {"bench", "failed"}
        /\ UNCHANGED <<laps, jobs, ending>>
    BY <1>33, ForkJobFailsEffect DEF ForkJobFailsDoes, Phases
  <2>2. ~Started
    BY <2>1
  <2>3. ip = 1 /\ ending = "none"
    BY <2>1, <2>2 DEF JobsIdle, Phases, Counters
  <2>4. ip' \in 1..bench.njobs + 1 /\ \A j \in Job : ~(j < ip')
    BY <2>1, <2>3, <1>b
  <2>5. laps' # 0
    BY <2>1 DEF Counters
  <2> HIDE DEF Job, Started
  <2>6. Job' = Job
    BY <1>1 DEF Job
  <2>7. ~(ip' > 1) /\ apc' # "assign"
    BY <2>1, <2>3
  <2>8. ~Orderly'
    BY <2>1, <2>3
  <2> HIDE DEF Orderly
  <2> QED BY <2>1, <2>4, <2>5, <2>6, <2>7, <2>8, <1>1, <1>b DEF JobsIdle
<1>34. CASE Killed
  BY <1>34, Frames
  DEF Killed, JobsIdle
<1>51. CASE NoChannel
  <2>1. NoChannelDoes
    BY <1>51, NoChannelEffect
  <2>2. /\ bench.name # "lat_unix" /\ bench.talk \notin {"ask", "turns"}
    BY <1>1 DEF Regular
  <2>3. apc' = "exited" /\ ending' = "error"
    BY <2>1, <2>2 DEF NoChannelDoes
  <2> QED BY <2>3, <1>1 DEF JobsIdle
<1>52. CASE PartnerFails
  BY <1>52, <1>1, PartnerFailsEffect, CopyProgram
  DEF PartnerFailsDoes, JobsIdle, Idle
<1>53. CASE GiveUp
  BY <1>53, <1>1, GiveUpEffect, CopyProgram
  DEF GiveUpDoes, JobsIdle, Idle
<1>54. CASE ForkCopyFails
  BY <1>54, <1>1, ForkCopyFailsEffect, CopyProgram
  DEF ForkCopyFailsDoes, JobsIdle, Idle
<1>55. CASE Wake
  BY <1>55, <1>1, WakeEffect, CopyProgram
  DEF WakeDoes, JobsIdle, Idle
<1>56. CASE OriginalDies
  BY <1>56, <1>1, OriginalDiesEffect, CopyProgram
  DEF OriginalDiesDoes, JobsIdle, Idle
<1> QED
  BY <1>3, <1>4, <1>5, <1>6, <1>7, <1>8, <1>9, <1>10, <1>11, <1>12, <1>13,
     <1>14, <1>15, <1>16, <1>17, <1>18, <1>19, <1>20, <1>21, <1>22, <1>23,
     <1>24, <1>25, <1>26, <1>27, <1>28, <1>29, <1>30, <1>31, <1>32, <1>33,
     <1>34,
     <1>51, <1>52, <1>53, <1>54, <1>55, <1>56
  DEF HooksNext, ChildStep, PartnerStep

LEMMA JobKnownStep ==
    ASSUME ChildTypes, OtherTypes, Counters, Phases, JobsIdle, JobKnown,
           Originals, HooksNext
    PROVE  JobKnown'
<1>1. Regular(bench) /\ bench' = bench
  BY ProgramsRegular, BenchStays DEF ChildTypes
<1>2. ASSUME bench' = bench, apc' = apc, ip' = ip, goal' = goal,
             jobs' = jobs, known' = known, sigchld' = sigchld,
             pending' = pending, faults' = faults, ending' = ending
      PROVE  JobKnown'
  BY <1>2 DEF JobKnown
<1> SUFFICES ASSUME bench.name = "lat_proc" PROVE JobKnown'
    BY <1>1 DEF JobKnown
<1>b. /\ bench.talk = "jobs" /\ bench.njobs = 1 /\ Job = {1}
      /\ bench.dfl /\ bench.hook /\ ~bench.each
      /\ bench.cookie = "global" /\ Len(Setup) = 0 /\ Len(Teardown) = 2
      /\ Teardown[1].do = "kill" /\ Teardown[2].do = "reap"
  BY <1>1, LatProcProgram
<1>c. ASSUME apc \notin {"bench", "assign", "failed", "exited"},
             goal # "term"
      PROVE  jobs[1] = "none" /\ known[1] = "none"
  BY <1>c, <1>b DEF JobsIdle, Idle
<1>d. bench'.name = "lat_proc"
  BY <1>1
<1>e. jobs[1] \in {"none", "running", "zombie", "reaped"}
  BY <1>b DEF OtherTypes
<1> HIDE DEF Job
<1>3. CASE \/ ProcB \/ Obey \/ Answer \/ Orphan
  <2>1. /\ bench' = bench /\ apc' = apc /\ ip' = ip /\ goal' = goal
        /\ jobs' = jobs /\ known' = known /\ sigchld' = sigchld
        /\ pending' = pending /\ faults' = faults /\ ending' = ending
    BY <1>3, Frames, ObeyEffect, AnswerEffect
    DEF ProcB, Orphan, ObeyDoes, AnswerDoes
  <2> QED BY <2>1, <1>2
<1>4. CASE SetupStep
  BY <1>4, SetupStepEffect
  DEF SetupStepDoes, JobKnown
<1>5. CASE SayHello
  BY <1>5, Frames
  DEF SayHello, JobKnown
<1>6. CASE HearHello
  BY <1>6, Frames
  DEF HearHello, JobKnown
<1>7. CASE SetupDone
  <2>1. /\ apc = "setup" /\ apc' = "enter"
        /\ UNCHANGED <<jobs, known, sigchld, faults>>
    BY <1>7, <1>b, Frames DEF SetupDone

  <2>2. goal # "term"
    BY <2>1 DEF Phases
  <2> QED BY <2>1, <2>2, <1>c DEF JobKnown
<1>8. CASE Enter
  BY <1>8, EnterEffect
  DEF EnterDoes, OtherTypes, Phases, JobsIdle, JobKnown, Idle
<1>9. CASE Orphaned
  <2>1. /\ apc = "entered" /\ apc' = "teardown" /\ ip' = 1
        /\ UNCHANGED <<jobs, known, faults>>
    BY <1>9, <1>b, OrphanedEffect DEF OrphanedDoes

  <2>2. goal # "term"
    BY <2>1 DEF Phases
  <2> QED BY <2>1, <2>2, <1>c DEF JobKnown
<1>10. CASE NextInterval
  <2>1. /\ apc = "entered" /\ apc' = "bench" /\ sigchld' = "default"
        /\ UNCHANGED <<jobs, known, pending, faults>> /\ pending = {}
    BY <1>10, <1>b, Frames DEF NextInterval

  <2>2. goal # "term"
    BY <2>1 DEF Phases
  <2> QED BY <2>1, <2>2, <1>c DEF JobKnown
<1>11. CASE Report
  <2>1. /\ apc = "entered" /\ apc' = "teardown" /\ ip' = 1
        /\ UNCHANGED <<jobs, known, faults>>
    BY <1>11, <1>b, ReportEffect DEF ReportDoes

  <2>2. goal # "term"
    BY <2>1 DEF Phases
  <2> QED BY <2>1, <2>2, <1>c DEF JobKnown
<1>12. CASE WaitExit
  BY <1>12, Frames
  DEF WaitExit, JobKnown
<1>13. CASE IntervalOver
  <2>1. /\ apc = "bench" /\ laps = 0 /\ apc' = "enter"
        /\ UNCHANGED <<jobs, known, faults>>
    BY <1>13, Frames DEF IntervalOver

  <2>2. jobs[1] = "none" /\ known[1] = "none"
    BY <2>1, <1>b DEF JobsIdle, Idle
  <2> QED BY <2>1, <2>2 DEF JobKnown
<1>14. CASE DropStep
  BY <1>14, <1>b DEF DropStep, Counters
<1>15. CASE KillStep
  <2>1. /\ apc = "teardown" /\ apc' = "teardown" /\ known' = known
        /\ UNCHANGED <<sigchld, pending, faults>>
    BY <1>15, <1>b, KillStepEffect DEF KillStepDoes, OtherTypes
  <2>2. /\ jobs'[1] = jobs[1] \/ jobs'[1] = "zombie"
        /\ jobs[1] = "none" => jobs'[1] = jobs[1]
    BY <1>15, <1>b, KillStepEffect DEF KillStepDoes, OtherTypes
  <2>3. known[1] \in {"none", "own", "failed"}
    BY <1>b DEF OtherTypes
  <2>4. known[1] = "failed" => jobs[1] = "none"
    BY DEF JobKnown
  <2>5. known[1] = "own" => Target \notin {"none", "everyone"}
    BY <1>b
  <2>6. known[1] = "own" => jobs'[1] # "running"
    <3>1. known[1] = "own" =>
             \/ jobs[1] = "running" /\ jobs' = [jobs EXCEPT ![1] = "zombie"]
             \/ jobs[1] # "running" /\ jobs' = jobs
      <4> HIDE DEF Target
      <4> QED BY <1>15, <2>5, <1>b, KillStepEffect DEF KillStepDoes
    <3> QED BY <3>1, <1>b DEF OtherTypes
  <2>7. known[1] = "none" \/ jobs'[1] # "running"
    BY <2>2, <2>3, <2>4, <2>6
  <2> HIDE DEF Target
  <2> QED BY <2>1, <2>2, <2>7, <1>d, <1>e DEF JobKnown
<1>16. CASE ReapStep
  <2>1. /\ apc = "teardown" /\ apc' = "teardown"
        /\ jobs'[1] # "running" /\ known'[1] = "none"
    BY <1>16, <1>b, <1>e, ReapStepEffect DEF ReapStepDoes, OtherTypes, Job

  <2> QED BY <2>1 DEF JobKnown
<1>17. CASE TeardownDone
  <2>1. /\ apc = "teardown" /\ ip > 1 /\ apc' = "torn"
        /\ UNCHANGED <<jobs, known, sigchld, faults>>
    BY <1>17, <1>b, Frames DEF TeardownDone

  <2> QED BY <2>1, <1>d DEF JobKnown
<1>18. CASE AfterTeardown
  <2>1. /\ apc = "torn" /\ UNCHANGED <<jobs, known, sigchld, faults>>
        /\ \/ apc' = "exited"
           \/ goal # "term" /\ apc' = goal
    BY <1>18, AfterTeardownEffect DEF AfterTeardownDoes
  <2>2. CASE apc' = "exited"
    BY <2>1, <2>2, <1>18, <1>d, AfterTeardownEffect
    DEF AfterTeardownDoes, JobKnown
  <2>3. CASE goal # "term" /\ apc' = goal
    <3>1. jobs[1] = "none" /\ known[1] = "none"
      BY <2>1, <2>3, <1>c
    <3> QED BY <3>1, <2>1, <2>3 DEF JobKnown, ChildTypes
  <2> QED BY <2>1, <2>2, <2>3
<1>19. CASE Ask
  BY <1>19, <1>1, <1>b DEF Ask
<1>20. CASE Take
  BY <1>20, <1>1, <1>b, TakeEffect DEF TakeDoes, Phases
<1>21. CASE TakeTurn
  BY <1>21, <1>1, <1>b DEF TakeTurn
<1>22. CASE Lost
  BY <1>22, Frames
  DEF Lost, JobKnown
<1>23. CASE ProcA
  BY <1>23, <1>1, <1>b, ProcAEffect DEF ProcADoes, Phases
<1>24. CASE Alone
  BY <1>24, <1>1, <1>b DEF Alone
<1>25. CASE ForkJob
  <2>1. /\ apc = "bench" /\ apc' = "assign" /\ pending' = {}
        /\ known' = known /\ sigchld' = sigchld /\ known[1] = "none"
    BY <1>25, <1>b, Frames DEF ForkJob, Job

  <2> QED BY <2>1, <1>d DEF JobKnown
<1>26. CASE Assign
  <2>1. /\ apc = "assign" /\ apc' = "bench" /\ pending' = {}
        /\ jobs' = jobs /\ sigchld' = sigchld /\ known'[1] = "own"
    BY <1>26, <1>b, Frames DEF Assign, OtherTypes

  <2> QED BY <2>1, <1>d DEF JobKnown
<1>27. CASE WaitJob
  <2>1. /\ apc = "bench" /\ apc' = "bench" /\ pending' = {} /\ ip = 1
        /\ known' = known /\ sigchld' = sigchld /\ jobs'[1] # "running"
    BY <1>27, <1>b, <1>e, WaitJobEffect DEF WaitJobDoes, OtherTypes, Counters

  <2> QED BY <2>1, <1>d DEF JobKnown
<1>28. CASE ForgetJobs
  <2>1. /\ apc = "bench" /\ apc' = "bench" /\ pending' = {} /\ ip = 2
        /\ known'[1] = "none" /\ sigchld' = sigchld
        /\ jobs'[1] = IF jobs[1] = "reaped" THEN "none" ELSE jobs[1]
    BY <1>28, <1>b DEF ForgetJobs

  <2>2. 1 \in Job /\ 1 < ip
    BY <2>1, <1>b
  <2>3. jobs[1] # "running"
    BY <2>1, <2>2, <1>b DEF JobsIdle
  <2> QED BY <2>1, <2>3, <1>d DEF JobKnown
<1>29. CASE ForkCopy
  BY <1>29, <1>1, <1>b DEF ForkCopy
<1>30. CASE Handle
  <2>1. /\ apc # "exited" /\ pending # {} /\ apc' = "teardown" /\ ip' = 1
        /\ UNCHANGED <<jobs, known, sigchld, faults>>
    BY <1>30, <1>b, HandleEffect DEF HandleDoes

  <2> QED BY <2>1, <1>d DEF JobKnown
<1>31. ASSUME NEW j \in Job, JobEnds(j)
      PROVE  JobKnown'
  <2>1. j = 1 /\ jobs[1] = "running" /\ jobs'[1] # "running"
    BY <1>31, <1>b DEF JobEnds, OtherTypes
  <2>2. pending' = pending /\ UNCHANGED <<apc, ip, known, sigchld, faults, ending>>
    BY <1>31, <2>1, Frames DEF JobEnds, JobKnown
  <2> QED BY <2>1, <2>2, <1>d DEF JobKnown
<1>32. CASE SetupFails
  BY <1>32, SetupFailsEffect
  DEF SetupFailsDoes, JobKnown
<1>33. CASE ForkJobFails
  <2>1. /\ apc = "bench" /\ apc' = "failed" /\ pending = {}
        /\ UNCHANGED <<jobs, sigchld, pending>>
        /\ faults' = faults \cup {"fork"}
        /\ \E j \in NextJob : known' = [known EXCEPT ![j] = "failed"]
    BY <1>33, ForkJobFailsEffect DEF ForkJobFailsDoes
  <2>2. jobs[1] = "none" /\ known'[1] = "failed"
    BY <2>1, <1>b DEF OtherTypes
  <2> QED BY <2>1, <2>2, <1>d DEF JobKnown
<1>34. CASE Term
  BY <1>34, Frames
  DEF Term, JobKnown
<1>35. CASE Killed
  BY <1>35, Frames
  DEF Killed, JobKnown
<1>36. CASE ParentDies
  BY <1>36, Frames
  DEF ParentDies, JobKnown
<1>37. CASE PartnerDies
  BY <1>37, Frames
  DEF PartnerDies, JobKnown
<1>51. CASE NoChannel
  <2>1. NoChannelDoes
    BY <1>51, NoChannelEffect
  <2>2. apc' = "exited" /\ ending' = "error" /\ UNCHANGED <<jobs, known, faults>>
        /\ apc = "bench" /\ UNCHANGED sigchld
    BY <2>1, <1>b DEF NoChannelDoes
  <2>3. known[1] # "failed"
    BY <2>2 DEF JobKnown
  <2> QED BY <2>2, <2>3, <1>d DEF JobKnown
<1>52. CASE PartnerFails
  BY <1>52, <1>1, PartnerFailsEffect, CopyProgram
  DEF PartnerFailsDoes, JobKnown
<1>53. CASE GiveUp
  BY <1>53, <1>1, GiveUpEffect, CopyProgram
  DEF GiveUpDoes, JobKnown
<1>54. CASE ForkCopyFails
  BY <1>54, <1>1, ForkCopyFailsEffect, CopyProgram
  DEF ForkCopyFailsDoes, JobKnown
<1>55. CASE Wake
  BY <1>55, <1>1, WakeEffect, CopyProgram
  DEF WakeDoes, JobKnown
<1>56. CASE OriginalDies
  BY <1>56, <1>1, OriginalDiesEffect, CopyProgram
  DEF OriginalDiesDoes, JobKnown
<1> QED
  BY <1>3, <1>4, <1>5, <1>6, <1>7, <1>8, <1>9, <1>10, <1>11, <1>12, <1>13,
     <1>14, <1>15, <1>16, <1>17, <1>18, <1>19, <1>20, <1>21, <1>22, <1>23,
     <1>24, <1>25, <1>26, <1>27, <1>28, <1>29, <1>30, <1>31, <1>32, <1>33,
     <1>34, <1>35, <1>36, <1>37,
     <1>51, <1>52, <1>53, <1>54, <1>55, <1>56
  DEF HooksNext, ChildStep, PartnerStep

LEMMA AskingStep ==
    ASSUME ChildTypes, Counters, Phases, Asking, Originals, HooksNext
    PROVE  Asking'
<1>1. Regular(bench) /\ bench' = bench
  BY ProgramsRegular, BenchStays DEF ChildTypes
<1>2. ASSUME bench' = bench, apc' = apc, a2b' = a2b, owe' = owe, b2a' = b2a,
             got' = got
      PROVE  Asking'
  BY <1>2 DEF Asking, Under
<1> SUFFICES ASSUME bench.talk = "ask" PROVE Asking'
    BY <1>1 DEF Asking
<1>a. bench.units \in {1, 2} /\ bench'.talk = "ask" /\ ~bench.each
  BY <1>1 DEF Regular
<1>b. /\ Under \in Nat /\ owe \in Nat /\ b2a \in Nat /\ got \in Nat
      /\ a2b = 0 => Under = owe + b2a
      /\ a2b = 1 => Under = bench.units + owe + b2a
      /\ a2b \in {0, 1} /\ Under <= bench.units
  BY <1>a, UnderIs DEF Counters, Asking
<1>c. Counters'
  BY CountersStep
<1>d. /\ Under' \in Nat
      /\ a2b' = 0 => Under' = owe' + b2a'
      /\ a2b' = 1 => Under' = bench.units + owe' + b2a'
  <2>1. (Counters /\ bench.units \in {1, 2} =>
            /\ Under \in Nat
            /\ a2b = 0 => Under = owe + b2a
            /\ a2b = 1 => Under = bench.units + owe + b2a)'
    BY UnderIs, PTL
  <2> QED BY <2>1, <1>1, <1>a, <1>c
<1>e. a2b' = a2b /\ owe' = owe /\ b2a' = b2a => Under' = Under
  BY <1>1 DEF Under
<1> HIDE DEF Under
<1>f. ASSUME a2b' = a2b, owe' = owe, b2a' = b2a,
             apc \notin {"answer", "hello", "exited"} \/ apc' = "exited",
             apc' \notin {"answer", "hello"}, apc' = "bench" => got' = 0
      PROVE  Asking'
  <2>1. Under' = Under /\ bench' = bench
    BY <1>e, <1>f, <1>1
  <2>2. apc' # "exited" => Under = 0
    BY <1>f DEF Asking
  <2> QED BY <2>1, <2>2, <1>a, <1>b, <1>f DEF Asking
<1>3. CASE \/ SetupStep \/ DropStep \/ KillStep \/ ReapStep
          \/ WaitJob \/ Orphan \/ Term \/ ParentDies
          \/ PartnerDies
  <2>1. /\ bench' = bench /\ apc' = apc /\ a2b' = a2b /\ owe' = owe
        /\ b2a' = b2a /\ got' = got
    BY <1>3, Frames, SetupStepEffect, KillStepEffect, ReapStepEffect,
       WaitJobEffect
    DEF DropStep, Orphan, Term, ParentDies, PartnerDies, SetupStepDoes,
        KillStepDoes, ReapStepDoes, WaitJobDoes
  <2> QED BY <2>1, <1>2
<1>4. CASE SayHello
  <2>1. /\ apc = "setup" /\ apc' = "hello" /\ a2b' = a2b + 1
        /\ UNCHANGED <<owe, b2a>> /\ bench.units = 1
    BY <1>4, <1>1, Frames DEF SayHello, Counters, Regular, SetupRegular

  <2>2. Under = 0
    BY <2>1 DEF Asking
  <2>3. a2b' = 1 /\ Under' = 1
    BY <2>1, <2>2, <1>b, <1>d
  <2> QED BY <2>1, <2>3, <1>1, <1>a DEF Asking
<1>5. CASE HearHello
  <2>1. /\ apc = "hello" /\ apc' = "setup" /\ b2a > 0 /\ b2a' = b2a - 1
        /\ UNCHANGED <<owe, a2b>>
    BY <1>5, Frames DEF HearHello

  <2>2. Under = 1
    BY <2>1 DEF Asking
  <2>3. Under' = 0
    BY <2>1, <2>2, <1>a, <1>b, <1>d
  <2> QED BY <2>1, <2>3, <1>1, <1>a, <1>b DEF Asking
<1>6. CASE SetupDone
  <2>1. /\ UNCHANGED <<a2b, owe, b2a>>
        /\ apc \notin {"answer", "hello", "exited"} \/ apc' = "exited"
        /\ apc' \notin {"answer", "hello"}
        /\ apc' = "bench" => got' = 0
    BY <1>6, <1>a, Frames DEF SetupDone
  <2> QED BY <2>1, <1>f
<1>7. CASE Enter
  <2>1. /\ UNCHANGED <<a2b, owe, b2a>>
        /\ apc \notin {"answer", "hello", "exited"} \/ apc' = "exited"
        /\ apc' \notin {"answer", "hello"}
        /\ apc' # "bench"
    BY <1>7, <1>a, EnterEffect DEF EnterDoes
  <2> QED BY <2>1, <1>f
<1>8. CASE Orphaned
  <2>1. /\ UNCHANGED <<a2b, owe, b2a>>
        /\ apc \notin {"answer", "hello", "exited"} \/ apc' = "exited"
        /\ apc' \notin {"answer", "hello"}
        /\ apc' # "bench"
    BY <1>8, <1>a, OrphanedEffect DEF OrphanedDoes
  <2> QED BY <2>1, <1>f
<1>9. CASE NextInterval
  <2>1. /\ UNCHANGED <<a2b, owe, b2a>>
        /\ apc \notin {"answer", "hello", "exited"} \/ apc' = "exited"
        /\ apc' \notin {"answer", "hello"}
        /\ apc' = "bench" => got' = 0
    BY <1>9, <1>a, Frames DEF NextInterval
  <2> QED BY <2>1, <1>f
<1>10. CASE Report
  <2>1. /\ UNCHANGED <<a2b, owe, b2a>>
        /\ apc \notin {"answer", "hello", "exited"} \/ apc' = "exited"
        /\ apc' \notin {"answer", "hello"}
        /\ apc' # "bench"
    BY <1>10, <1>a, ReportEffect DEF ReportDoes
  <2> QED BY <2>1, <1>f
<1>11. CASE WaitExit
  <2>1. /\ UNCHANGED <<a2b, owe, b2a>>
        /\ apc \notin {"answer", "hello", "exited"} \/ apc' = "exited"
        /\ apc' \notin {"answer", "hello"}
        /\ apc' # "bench"
    BY <1>11, <1>a, Frames DEF WaitExit
  <2> QED BY <2>1, <1>f
<1>12. CASE IntervalOver
  <2>1. /\ UNCHANGED <<a2b, owe, b2a>>
        /\ apc \notin {"answer", "hello", "exited"} \/ apc' = "exited"
        /\ apc' \notin {"answer", "hello"}
        /\ apc' # "bench"
    BY <1>12, <1>a, Frames DEF IntervalOver
  <2> QED BY <2>1, <1>f
<1>13. CASE TeardownDone
  <2>1. /\ UNCHANGED <<a2b, owe, b2a>>
        /\ apc \notin {"answer", "hello", "exited"} \/ apc' = "exited"
        /\ apc' \notin {"answer", "hello"}
        /\ apc' # "bench"
    BY <1>13, <1>a, Frames DEF TeardownDone
  <2> QED BY <2>1, <1>f
<1>14. CASE AfterTeardown
  <2>1. /\ UNCHANGED <<a2b, owe, b2a>>
        /\ apc \notin {"answer", "hello", "exited"} \/ apc' = "exited"
        /\ apc' \notin {"answer", "hello"}
        /\ apc' # "bench"
    BY <1>14, <1>a, AfterTeardownEffect DEF AfterTeardownDoes, Phases, ChildTypes
  <2> QED BY <2>1, <1>f
<1>15. CASE Ask
  <2>1. /\ apc = "bench" /\ apc' = "answer" /\ a2b' = a2b + 1
        /\ UNCHANGED <<owe, b2a, got>>
    BY <1>15, Frames DEF Ask

  <2>2. Under = 0 /\ got = 0
    BY <2>1 DEF Asking
  <2>3. a2b' = 1 /\ Under' = bench.units
    BY <2>1, <2>2, <1>a, <1>b, <1>d
  <2> QED BY <2>1, <2>2, <2>3, <1>1, <1>a DEF Asking
<1>16. CASE Take
  <2>1. /\ apc = "answer" /\ b2a > 0 /\ b2a' = b2a - 1
        /\ UNCHANGED <<owe, a2b>>
        /\ \/ got + 1 = bench.units /\ got' = 0 /\ apc' = "bench"
           \/ got + 1 # bench.units /\ got' = got + 1 /\ apc' = apc
    BY <1>16, TakeEffect DEF TakeDoes

  <2>2. got < bench.units /\ Under + got = bench.units
    BY <2>1 DEF Asking
  <2>3. Under' = Under - 1 /\ a2b' \in {0, 1}
    BY <2>1, <1>a, <1>b, <1>d
  <2>4. /\ Under' <= bench.units
        /\ apc' = "answer" => got' < bench.units /\ Under' + got' = bench.units
        /\ apc' = "bench" => Under' = 0 /\ got' = 0
    BY <2>1, <2>2, <2>3, <1>a, <1>b
  <2> QED BY <2>1, <2>3, <2>4, <1>1, <1>a DEF Asking
<1>17. CASE TakeTurn
  BY <1>17
  DEF TakeTurn
<1>18. CASE Lost
  <2>1. /\ UNCHANGED <<a2b, owe, b2a>>
        /\ apc \notin {"answer", "hello", "exited"} \/ apc' = "exited"
        /\ apc' \notin {"answer", "hello"}
        /\ apc' # "bench"
    BY <1>18, <1>a, Frames DEF Lost
  <2> QED BY <2>1, <1>f
<1>19. CASE ProcA
  BY <1>19, ProcAEffect
  DEF ProcADoes
<1>20. CASE Alone
  BY <1>20
  DEF Alone
<1>21. CASE ForkJob
  BY <1>21
  DEF ForkJob
<1>22. CASE Assign
  BY <1>22
  DEF Assign, Phases
<1>23. CASE ForgetJobs
  BY <1>23
  DEF ForgetJobs
<1>24. CASE ForkCopy
  BY <1>24
  DEF ForkCopy
<1>25. CASE Handle
  <2>1. apc' = "exited" /\ UNCHANGED <<a2b, owe, b2a>>
    BY <1>25, <1>1, HandleEffect DEF HandleDoes, Regular, JobsRegular

  <2>2. Under' = Under
    BY <2>1, <1>1 DEF Under
  <2> QED BY <2>1, <2>2, <1>1, <1>a, <1>b DEF Asking
<1>26. CASE ProcB
  BY <1>26
  DEF ProcB
<1>27. CASE Obey
  <2>1. /\ owe = 0 /\ owe' = bench.units /\ a2b > 0 /\ a2b' = a2b - 1
        /\ UNCHANGED <<apc, got, b2a>>
    BY <1>27, ObeyEffect DEF ObeyDoes

  <2>2. Under' = Under /\ a2b' \in {0, 1}
    BY <2>1, <1>a, <1>b, <1>d
  <2> QED BY <2>1, <2>2, <1>1, <1>a, <1>b DEF Asking
<1>28. CASE Answer
  <2>1. /\ owe' = owe - 1 /\ b2a' = b2a + 1 /\ owe > 0
        /\ UNCHANGED <<apc, got, a2b>>
    BY <1>28, AnswerEffect DEF AnswerDoes

  <2>2. Under' = Under /\ a2b' \in {0, 1}
    BY <2>1, <1>a, <1>b, <1>d
  <2> QED BY <2>1, <2>2, <1>1, <1>a, <1>b DEF Asking
<1>29. ASSUME NEW j \in Job, JobEnds(j)
      PROVE  Asking'
  <2>1. /\ bench' = bench /\ apc' = apc /\ a2b' = a2b /\ owe' = owe
        /\ b2a' = b2a /\ got' = got
    BY <1>29, Frames DEF JobEnds
  <2> QED BY <2>1, <1>2
<1>30. CASE SetupFails
  <2>1. /\ UNCHANGED <<a2b, owe, b2a>>
        /\ apc \notin {"answer", "hello", "exited"} \/ apc' = "exited"
        /\ apc' \notin {"answer", "hello"}
        /\ apc' # "bench"
    BY <1>30, <1>a, SetupFailsEffect DEF SetupFailsDoes
  <2> QED BY <2>1, <1>f
<1>31. CASE ForkJobFails
  BY <1>31, ForkJobFailsEffect
  DEF ForkJobFailsDoes
<1>32. CASE Killed
  <2>1. /\ UNCHANGED <<a2b, owe, b2a>>
        /\ apc \notin {"answer", "hello", "exited"} \/ apc' = "exited"
        /\ apc' \notin {"answer", "hello"}
        /\ apc' # "bench"
    BY <1>32, <1>a, Frames DEF Killed
  <2> QED BY <2>1, <1>f
<1>51. CASE NoChannel
  <2>1. /\ UNCHANGED <<a2b, owe, b2a>> /\ apc = "bench"
        /\ apc' \notin {"answer", "hello"}
        /\ apc' = "bench" => got' = 0
    BY <1>51, NoChannelEffect DEF NoChannelDoes
  <2> QED BY <2>1, <1>f
<1>52. CASE PartnerFails
  <2>1. UNCHANGED <<apc, a2b, owe, b2a, got>>
    BY <1>52, PartnerFailsEffect DEF PartnerFailsDoes
  <2> QED BY <2>1, <1>2, <1>1
<1>53. CASE GiveUp
  <2>1. /\ UNCHANGED <<a2b, owe, b2a>> /\ apc' = "exited"
    BY <1>53, GiveUpEffect DEF GiveUpDoes
  <2> QED BY <2>1, <1>f
<1>54. CASE ForkCopyFails
  BY <1>54, <1>1, ForkCopyFailsEffect, CopyProgram
  DEF ForkCopyFailsDoes, Asking
<1>55. CASE Wake
  BY <1>55, <1>1, WakeEffect, CopyProgram
  DEF WakeDoes, Asking
<1>56. CASE OriginalDies
  BY <1>56, <1>1, OriginalDiesEffect, CopyProgram
  DEF OriginalDiesDoes, Asking
<1> QED
  BY <1>3, <1>4, <1>5, <1>6, <1>7, <1>8, <1>9, <1>10, <1>11, <1>12, <1>13,
     <1>14, <1>15, <1>16, <1>17, <1>18, <1>19, <1>20, <1>21, <1>22, <1>23,
     <1>24, <1>25, <1>26, <1>27, <1>28, <1>29, <1>30, <1>31, <1>32,
     <1>51, <1>52, <1>53, <1>54, <1>55, <1>56
  DEF HooksNext, ChildStep, PartnerStep

LEMMA TurnsTakenStep ==
    ASSUME ChildTypes, Counters, Phases, OnePartner, TurnsTaken, Originals, HooksNext
    PROVE  TurnsTaken'
<1>1. Regular(bench) /\ bench' = bench
  BY ProgramsRegular, BenchStays DEF ChildTypes
<1>2. ASSUME bench' = bench, a2b' = a2b, owe' = owe, b2a' = b2a,
             partner' = partner
      PROVE  TurnsTaken'
  BY <1>2 DEF TurnsTaken, Under
<1> SUFFICES ASSUME bench.talk = "turns" PROVE TurnsTaken'
    BY <1>1 DEF TurnsTaken
<1>a. bench.units = 1 /\ bench'.talk = "turns" /\ ~bench.each
  BY <1>1 DEF Regular
<1>b. /\ Under \in Nat /\ owe \in Nat /\ b2a \in Nat
      /\ a2b = 0 => Under = owe + b2a
      /\ a2b = 1 => Under = 1 + owe + b2a
      /\ a2b \in {0, 1} /\ Under <= 1
  BY <1>a, UnderIs DEF Counters, TurnsTaken
<1>c. Counters'
  BY CountersStep
<1>d. /\ Under' \in Nat
      /\ a2b' = 0 => Under' = owe' + b2a'
      /\ a2b' = 1 => Under' = 1 + owe' + b2a'
  <2>1. (Counters /\ bench.units \in {1, 2} =>
            /\ Under \in Nat
            /\ a2b = 0 => Under = owe + b2a
            /\ a2b = 1 => Under = bench.units + owe + b2a)'
    BY UnderIs, PTL
  <2> QED BY <2>1, <1>1, <1>a, <1>c
<1>e. a2b' = a2b /\ owe' = owe /\ b2a' = b2a => Under' = Under
  BY <1>1 DEF Under
<1> HIDE DEF Under
<1>f. ASSUME a2b' = a2b, owe' = owe, b2a' = b2a,
             partner' = partner \/ partner' \notin {"none", "fresh"}
      PROVE  TurnsTaken'
  BY <1>a, <1>b, <1>e, <1>f DEF TurnsTaken
<1>3. CASE \/ SetupDone \/ Enter \/ Orphaned \/ NextInterval
          \/ Report \/ WaitExit \/ IntervalOver \/ DropStep
          \/ TeardownDone \/ AfterTeardown \/ Lost \/ ProcA
          \/ Alone \/ ForkJob \/ Assign \/ WaitJob
          \/ ForgetJobs \/ ForkCopy \/ Handle \/ SetupFails
          \/ ForkJobFails \/ Term \/ Killed \/ ParentDies
  <2>1. /\ bench' = bench /\ a2b' = a2b /\ owe' = owe /\ b2a' = b2a
        /\ partner' = partner
    BY <1>3, Frames, EnterEffect, OrphanedEffect, ReportEffect,
       AfterTeardownEffect, ProcAEffect, WaitJobEffect, HandleEffect,
       SetupFailsEffect, ForkJobFailsEffect
    DEF SetupDone, NextInterval, WaitExit, IntervalOver, DropStep,
        TeardownDone, Lost, Alone, ForkJob, Assign, ForgetJobs, ForkCopy,
        Term, Killed, ParentDies, EnterDoes, OrphanedDoes, ReportDoes,
        AfterTeardownDoes, ProcADoes, WaitJobDoes, HandleDoes,
        SetupFailsDoes, ForkJobFailsDoes
  <2> QED BY <2>1, <1>2
<1>4. CASE SetupStep
  <2>1. /\ ip \in ip..Len(Setup) /\ apc = "setup"
        /\ Setup[ip].do = "fork" \/ partner' = partner
        /\ UNCHANGED <<a2b, owe, b2a>>
    BY <1>4, <1>1, SetupStepEffect
    DEF SetupStepDoes, Counters, Regular, SetupRegular

  <2>2. Under' = Under
    BY <2>1, <1>1 DEF Under
  <2>3. Setup[ip].do = "fork" => partner = "none"
    BY <2>1 DEF OnePartner
  <2> QED BY <2>1, <2>2, <2>3, <1>1, <1>a DEF TurnsTaken
<1>5. CASE SayHello
  BY <1>5, <1>1 DEF SayHello, Counters, Regular, SetupRegular
<1>6. CASE HearHello
  BY <1>6, <1>1 DEF HearHello, Phases, Regular, SetupRegular
<1>7. CASE KillStep
  <2>1. /\ UNCHANGED <<a2b, owe, b2a>>
        /\ partner' = partner \/ partner' \notin {"none", "fresh"}
    <3> HIDE DEF Target
    <3> QED BY <1>7, KillStepEffect DEF KillStepDoes
  <2> QED BY <2>1, <1>f
<1>8. CASE ReapStep
  <2>1. /\ UNCHANGED <<a2b, owe, b2a>>
        /\ partner' = partner \/ partner' \notin {"none", "fresh"}
    BY <1>8, ReapStepEffect DEF ReapStepDoes
  <2> QED BY <2>1, <1>f
<1>9. CASE Ask
  BY <1>9
  DEF Ask
<1>10. CASE Take
  BY <1>10, TakeEffect DEF TakeDoes, Phases
<1>11. CASE TakeTurn
  <2>1. /\ b2a > 0 /\ b2a' = b2a - 1 /\ a2b' = a2b + 1
        /\ UNCHANGED <<owe, partner>>
    BY <1>11 DEF TakeTurn

  <2>2. Under = 1 /\ Under' = 1 /\ a2b' = 1
    BY <2>1, <1>b, <1>d
  <2>3. partner' \notin {"none", "fresh"}
    BY <2>1, <2>2 DEF TurnsTaken
  <2> QED BY <2>2, <2>3, <1>1, <1>a DEF TurnsTaken
<1>12. CASE ProcB
  BY <1>12
  DEF ProcB
<1>13. CASE Obey
  <2>1. /\ owe = 0 /\ owe' = 1 /\ partner' = "serving" /\ b2a' = b2a
        /\ \/ a2b > 0 /\ a2b' = a2b - 1
           \/ partner = "fresh" /\ a2b' = a2b
    BY <1>13, <1>a, ObeyEffect DEF ObeyDoes

  <2>2. partner = "fresh" => Under = 0
    BY DEF TurnsTaken
  <2>3. a2b' \in {0, 1} /\ Under' <= 1
    BY <2>1, <2>2, <1>b, <1>d
  <2> QED BY <2>1, <2>3, <1>1, <1>a DEF TurnsTaken
<1>14. CASE Answer
  <2>1. /\ owe' = owe - 1 /\ b2a' = b2a + 1 /\ owe > 0
        /\ UNCHANGED <<a2b, partner>>
    BY <1>14, AnswerEffect DEF AnswerDoes

  <2>2. Under' = Under /\ a2b' \in {0, 1}
    BY <2>1, <1>b, <1>d
  <2> QED BY <2>1, <2>2, <1>1, <1>a, <1>b DEF TurnsTaken
<1>15. CASE Orphan
  <2>1. /\ UNCHANGED <<a2b, owe, b2a>>
        /\ partner' = partner \/ partner' \notin {"none", "fresh"}
    BY <1>15, Frames DEF Orphan
  <2> QED BY <2>1, <1>f
<1>16. ASSUME NEW j \in Job, JobEnds(j)
      PROVE  TurnsTaken'
  <2>1. /\ bench' = bench /\ a2b' = a2b /\ owe' = owe /\ b2a' = b2a
        /\ partner' = partner
    BY <1>16, Frames DEF JobEnds
  <2> QED BY <2>1, <1>2
<1>17. CASE PartnerDies
  <2>1. /\ UNCHANGED <<a2b, owe, b2a>>
        /\ partner' = partner \/ partner' \notin {"none", "fresh"}
    BY <1>17, Frames DEF PartnerDies
  <2> QED BY <2>1, <1>f
<1>51. CASE NoChannel
  <2>1. UNCHANGED <<a2b, owe, b2a, partner>>
    BY <1>51, NoChannelEffect DEF NoChannelDoes
  <2> QED BY <2>1, <1>2, <1>1
<1>52. CASE PartnerFails
  <2>1. /\ UNCHANGED <<a2b, owe, b2a>>
        /\ partner' \notin {"none", "fresh"}
    BY <1>52, PartnerFailsEffect DEF PartnerFailsDoes
  <2> QED BY <2>1, <1>f
<1>53. CASE GiveUp
  <2>1. UNCHANGED <<a2b, owe, b2a, partner>>
    BY <1>53, GiveUpEffect DEF GiveUpDoes
  <2> QED BY <2>1, <1>2, <1>1
<1>54. CASE ForkCopyFails
  BY <1>54, <1>1, ForkCopyFailsEffect, CopyProgram
  DEF ForkCopyFailsDoes, TurnsTaken
<1>55. CASE Wake
  BY <1>55, <1>1, WakeEffect, CopyProgram
  DEF WakeDoes, TurnsTaken
<1>56. CASE OriginalDies
  BY <1>56, <1>1, OriginalDiesEffect, CopyProgram
  DEF OriginalDiesDoes, TurnsTaken
<1> QED
  BY <1>3, <1>4, <1>5, <1>6, <1>7, <1>8, <1>9, <1>10, <1>11, <1>12, <1>13,
     <1>14, <1>15, <1>16, <1>17,
     <1>51, <1>52, <1>53, <1>54, <1>55, <1>56
  DEF HooksNext, ChildStep, PartnerStep

-----------------------------------------------------------------------------
(* The whole.                                                              *)

LEMMA HookStart ==
    ASSUME NEW b \in Benchmarks, HooksStart(b)
    PROVE  HookInv
<1>1. /\ bench = b /\ Regular(bench) /\ bench.units \in {1, 2}
      /\ bench.each \in BOOLEAN /\ bench.njobs \in Nat
  BY ProgramsRegular DEF HooksStart, Regular, JobsRegular
<1>2. /\ apc \in {"enter", "setup"} /\ (bench.each => apc = "enter")
      /\ ip = 1 /\ goal = "enter" /\ sigchld = "handler"
      /\ handled = bench.each /\ pending = {}
      /\ (apc = "enter" => handled)
      /\ interval = 0 /\ laps = 0 /\ got = 0 /\ pid = "none"
      /\ partner = "none" /\ owe = 0 /\ a2b = 0 /\ b2a = 0
      /\ waiting = <<>> /\ res = {} /\ kills = {} /\ orphan = FALSE
      /\ faults = {} /\ ending = "none"
  BY <1>1 DEF HooksStart
<1>3. /\ jobs = [j \in Job |-> "none"] /\ known = [j \in Job |-> "none"]
      /\ Idle
  BY DEF HooksStart, Idle
<1>4. ChildTypes /\ OtherTypes
  BY <1>1, <1>2, <1>3 DEF ChildTypes, OtherTypes
<1>5. Counters /\ Phases
  BY <1>1, <1>2, HooksAssumption DEF Counters, Phases
<1>6. Reasons /\ Unpaired /\ Originals /\ ForkFailed
  BY <1>2 DEF Reasons, OnlyOwnChildren, Unpaired, Originals, ForkFailed
<1>7. OnePartner /\ Resources
  BY <1>2 DEF OnePartner, Resources
<1>8. JobsIdle
  <2> HIDE DEF Job
  <2> QED BY <1>2, <1>3 DEF JobsIdle
<1>9. JobKnown
  <2>1. bench.name = "lat_proc" => known[1] = "none" /\ jobs[1] = "none"
    BY <1>1, <1>3, LatProcProgram
  <2> QED BY <2>1, <1>2 DEF JobKnown
<1>10. Asking /\ TurnsTaken
  <2>1. Under = 0
    BY <1>1, <1>2 DEF Under
  <2> QED BY <2>1, <1>1, <1>2 DEF Asking, TurnsTaken
<1> QED
  BY <1>4, <1>5, <1>6, <1>7, <1>8, <1>9, <1>10 DEF HookInv

LEMMA HookInvFrame ==
    ASSUME HookInv, UNCHANGED hookVars
    PROVE  HookInv'
<1>1. UNCHANGED <<bench, apc, ip, goal, sigchld, handled, pending, interval,
                  laps, got, pid, partner, owe, a2b, b2a, locks, jobs, known,
                  waiting, res, kills, orphan, faults, ending>>
  BY DEF hookVars, loopVars, partnerVars, jobVars, worldVars
<1>2. ChildTypes' /\ OtherTypes' /\ Counters' /\ Phases'
  <2>1. ChildTypes'
    BY <1>1 DEF HookInv, ChildTypes
  <2>2. OtherTypes'
    BY <1>1 DEF HookInv, OtherTypes
  <2>3. Counters'
    BY <1>1 DEF HookInv, Counters
  <2>4. Phases'
    BY <1>1 DEF HookInv, Phases
  <2> QED BY <2>1, <2>2, <2>3, <2>4
<1>3. Reasons' /\ Unpaired' /\ Originals' /\ ForkFailed' /\ OnePartner'
  <2>1. Reasons'
    BY <1>1 DEF HookInv, Reasons, OnlyOwnChildren, Broken
  <2>2. Unpaired' /\ Originals'
    BY <1>1 DEF HookInv, Unpaired, Originals
  <2>3. ForkFailed' /\ OnePartner'
    BY <1>1 DEF HookInv, ForkFailed, OnePartner
  <2> QED BY <2>1, <2>2, <2>3
<1>4. Resources' /\ JobsIdle' /\ JobKnown'
  <2>1. Resources'
    BY <1>1 DEF HookInv, Resources
  <2>2. JobsIdle'
    BY <1>1 DEF HookInv, JobsIdle, Idle
  <2>3. JobKnown'
    BY <1>1 DEF HookInv, JobKnown
  <2> QED BY <2>1, <2>2, <2>3
<1>5. Asking' /\ TurnsTaken'
  BY <1>1 DEF HookInv, Asking, TurnsTaken, Under
<1> QED BY <1>2, <1>3, <1>4, <1>5 DEF HookInv

LEMMA HookInvStep == HookInv /\ [HooksNext]_hookVars => HookInv'
<1> SUFFICES ASSUME HookInv, [HooksNext]_hookVars PROVE HookInv'
    OBVIOUS
<1>1. /\ ChildTypes /\ OtherTypes /\ Counters /\ Phases /\ Reasons
      /\ Unpaired /\ Originals /\ ForkFailed /\ OnePartner /\ Resources /\ JobsIdle /\ JobKnown
      /\ Asking /\ TurnsTaken
  BY DEF HookInv
<1>2. CASE HooksNext
  <2>1. ChildTypes' /\ OtherTypes' /\ Counters' /\ Phases'
    BY <1>1, <1>2, ChildTypesStep, OtherTypesStep, CountersStep, PhasesStep
  <2>2. Reasons' /\ ForkFailed' /\ OnePartner' /\ Resources'
    BY <1>1, <1>2, ReasonsStep, ForkFailedStep, OnePartnerStep,
       ResourcesStep
  <2>3. JobsIdle' /\ JobKnown' /\ Asking' /\ TurnsTaken'
    BY <1>1, <1>2, JobsIdleStep, JobKnownStep, AskingStep, TurnsTakenStep
  <2>4. Unpaired' /\ Originals'
    BY <1>1, <1>2, UnpairedStep, OriginalsStep
  <2> QED BY <2>1, <2>2, <2>3, <2>4 DEF HookInv
<1>3. CASE UNCHANGED hookVars
  BY <1>3, HookInvFrame
<1> QED BY <1>2, <1>3

\* The kills of OnlyOwnChildren are the only ones.
LEMMA InvOwnChildren == HookInv => OnlyOwnChildren
BY DEF HookInv, Reasons

LEMMA InvNothingLeft == HookInv => NothingLeft
<1> SUFFICES ASSUME HookInv PROVE NothingLeft
    OBVIOUS
<1>1. Orderly => res = {} /\ partner \in {"none", "reaped"}
  BY DEF HookInv, OnePartner, Resources
<1>2. Orderly => \A j \in Job : jobs[j] \in {"none", "reaped"}
  BY DEF HookInv, JobsIdle, Idle
<1>3. waiting = <<>> \/ bench.name = "lat_cmd"
  BY ProgramsRegular, CopyProgram DEF HookInv, ChildTypes, Originals
<1>4. ASSUME ending = "term", bench.name = "lat_proc", "gap" \notin faults
      PROVE  \A j \in Job : jobs[j] # "running"
  <2>1. apc = "exited"
    BY <1>4 DEF HookInv, Phases
  <2>2. jobs[1] # "running"
    BY <2>1, <1>4 DEF HookInv, JobKnown
  <2>3. Job = {1}
    BY <1>4, ProgramsRegular, LatProcProgram DEF HookInv, ChildTypes
  <2> QED BY <2>2, <2>3
<1> QED BY <1>1, <1>2, <1>3, <1>4 DEF NothingLeft

LEMMA InvOneHandover == HookInv => OneHandover
<1> SUFFICES ASSUME HookInv PROVE OneHandover
    OBVIOUS
<1>1. /\ bench.units \in {1, 2}
      /\ bench.talk = "turns" => bench.units = 1
  BY ProgramsRegular DEF HookInv, ChildTypes, Regular
<1>2. bench.talk \in {"ask", "turns"} =>
          a2b * bench.units + owe + b2a <= bench.units
  <2>1. bench.talk \in {"ask", "turns"} => Under <= bench.units
    BY <1>1 DEF HookInv, Asking, TurnsTaken
  <2> QED BY <2>1 DEF Under
<1>3. apc = "entered" /\ bench.talk = "ask" => a2b + owe + b2a = 0
  <2>1. apc = "entered" /\ bench.talk = "ask" =>
            Under = 0 /\ a2b \in {0, 1}
    BY DEF HookInv, Asking
  <2>2. /\ owe \in Nat /\ b2a \in Nat
        /\ a2b = 0 => Under = owe + b2a
        /\ a2b = 1 => Under = bench.units + owe + b2a
    BY <1>1, UnderIs DEF HookInv, Counters
  <2> QED BY <2>1, <2>2, <1>1
<1> QED BY <1>2, <1>3 DEF OneHandover

\* The behaviours of one benchmark keep the invariant.
THEOREM HooksInvariant == HooksSpec => []HookInv
<1>1. HooksInit => HookInv
  BY HookStart DEF HooksInit
<1> QED BY <1>1, HookInvStep, PTL DEF HooksSpec

\* cleanup() kills the child's own partner or job, and others only after a
\* failed fork() (its parent gone, its socket missing, or SIGTERM before its
\* exit()), when a signal handler hands it the state of the harness, or when
\* SIGTERM meets a pid already waited for.
THEOREM HooksKillOwn == HooksSpec => []OnlyOwnChildren
BY HooksInvariant, InvOwnChildren, PTL

\* A child that ends in order, or because its parent or its socket is gone,
\* leaves no partner, job, file or semaphore behind, and no original that
\* waits for its copy but in lat_cmd.
THEOREM HooksLeaveNothing == HooksSpec => []NothingLeft
BY HooksInvariant, InvNothingLeft, PTL

\* At most one request or its answer is under way, and none between two
\* intervals.
THEOREM HooksOneHandover == HooksSpec => []OneHandover
BY HooksInvariant, InvOneHandover, PTL
=============================================================================
