------------------------------- MODULE Hooks -------------------------------
(***************************************************************************)
(* The benchmarks as their harness sees them: initialize(), benchmark()    *)
(* and cleanup() of one child of benchmp(), and what they create outside   *)
(* of it, a partner process, jobs, files or semaphores.  A record per      *)
(* program lists the steps of its hooks and what it does when one fails.   *)
(***************************************************************************)
EXTENDS Integers, Sequences, FiniteSets

CONSTANTS Benchmarks,    \* the programs examined, records as below
          Intervals,     \* timing intervals until the results are asked for
          Laps,          \* iterations of an interval
          MaxHookFaults  \* failing calls, deaths and signals in a behaviour

ASSUME HooksAssumption ==
    Intervals \in Nat \ {0} /\ Laps \in Nat \ {0} /\ MaxHookFaults \in Nat

VARIABLES bench,         \* the program
          apc, ip, goal, \* the child: where it is, step of a hook, what next
          sigchld, handled,     \* its SIGCHLD handler; is SIGTERM's installed
          pending,       \* signals it has still to act on
          interval, laps, got,
          pid,           \* what it knows of its partner: none, own, failed
          partner, owe,  \* the partner; units it has still to send
          a2b, b2a,      \* under way to and from the partner
          locks,         \* lat_fcntl: who holds which file
          jobs, known,   \* jobs of an iteration; is its pid recorded
          waiting,       \* lat_cmd: originals that wait for their copies
          res,           \* what would outlive the child
          kills,         \* whom it has killed
          orphan, faults, ending

loopVars == <<interval, laps, got>>
partnerVars == <<partner, owe, a2b, b2a, locks>>
jobVars == <<jobs, known, waiting>>
worldVars == <<res, kills, orphan, faults>>
hookVars == <<bench, apc, ip, goal, sigchld, handled, pending, loopVars, pid,
              partnerVars, jobVars, worldVars, ending>>

-----------------------------------------------------------------------------
(* Steps of a hook, with what the program does when the call fails: exit,  *)
(* return from the hook, or go on.                                         *)

Try(fails) == [do |-> "try", what |-> "none", fails |-> fails]
Pair(fails) == [do |-> "pair", what |-> "none", fails |-> fails]
Make(r, fails) == [do |-> "make", what |-> r, fails |-> fails]
Drop(r) == [do |-> "drop", what |-> r, fails |-> "on"]
Fork(fails) == [do |-> "fork", what |-> "none", fails |-> fails]
Hello == [do |-> "hello", what |-> "none", fails |-> "on"]
Kill(guard) == [do |-> "kill", what |-> guard, fails |-> "on"]
Reap == [do |-> "reap", what |-> "none", fails |-> "on"]

(* setup, teardown: initialize() and cleanup(); each: they act on every    *)
(* interval and not on the whole; hook: is cleanup() given to benchmp();   *)
(* cookie: do they work on their argument or on globals; talk: what an     *)
(* iteration is; units: answers to one request; sig: the signal cleanup()  *)
(* sends; term: what the partner does with SIGTERM; eof: what it does when *)
(* the child is gone; lost: what the child does when its partner is gone;  *)
(* njobs: jobs of an iteration; dfl: does it set SIGCHLD to SIG_DFL.       *)
Local(name, setup, teardown) ==
    [name |-> name, setup |-> setup, teardown |-> teardown, each |-> FALSE,
     hook |-> TRUE, cookie |-> "state", talk |-> "none", units |-> 1,
     sig |-> "KILL", term |-> "exit", eof |-> "ends", lost |-> "exit",
     njobs |-> 0, dfl |-> FALSE]

\* Two pipes.  A failed fork() is reported and no more.  The partner goes
\* round its loop for ever when its read fails.
LatPipe ==
    [Local("lat_pipe",
           <<Try("exit"), Try("exit"), Fork("return"), Hello>>,
           <<Kill("nonzero"), Reap>>)
     EXCEPT !.talk = "ask", !.eof = "spins"]

\* A socket pair, of which both sides keep both ends: neither ever sees end
\* of file.  A failed socketpair() is reported and no more.
LatUnix ==
    [Local("lat_unix", <<Pair("on"), Try("exit"), Fork("return")>>,
           <<Kill("nonzero"), Reap>>)
     EXCEPT !.talk = "ask", !.eof = "blocks", !.lost = "blocks"]

\* Two named pipes; cleanup() sends SIGTERM, for which the partner has the
\* handler of benchmp()'s parent, that sets a flag.
LatFifo ==
    [Local("lat_fifo",
           <<Drop("f1"), Drop("f2"), Make("f1", "exit"), Make("f2", "exit"),
             Fork("return"), Hello>>,
           <<Drop("f1"), Drop("f2"), Kill("positive"), Reap>>)
     EXCEPT !.talk = "ask", !.sig = "TERM", !.term = "flag", !.eof = "spins"]

\* Mutant: they are not removed.
LatSemKeeps ==
    [Local("lat_sem", <<Make("sem", "on"), Fork("return")>>,
           <<Kill("nonzero"), Reap>>)
     EXCEPT !.talk = "turns", !.eof = "blocks", !.lost = "blocks"]

\* Two semaphores, removed last.  The partner gives the first turn.  A
\* failed semget() goes unseen.
LatSem ==
    [Local("lat_sem", <<Make("sem", "on"), Fork("return")>>,
           <<Kill("nonzero"), Reap, Drop("sem")>>)
     EXCEPT !.talk = "turns", !.eof = "blocks", !.lost = "blocks"]

\* Mutant: a failed fork() is reported and no more.
LatFcntlGoesOn ==
    [Local("lat_fcntl", <<Fork("return")>>, <<Kill("nonzero"), Reap>>)
     EXCEPT !.talk = "locks", !.eof = "spins", !.lost = "unaware",
            !.term = "flag"]

\* Two locked files without names, both locks taken before the fork().
LatFcntl ==
    [Local("lat_fcntl",
           <<Make("file1", "exit"), Make("file2", "exit"), Drop("file1"),
             Drop("file2"), Try("exit"), Try("exit"), Fork("exit")>>,
           <<Kill("nonzero"), Reap>>)
     EXCEPT !.talk = "locks", !.eof = "spins", !.lost = "unaware",
            !.term = "flag"]

\* Mutant: cleanup() sends SIGTERM.
BwPipeTerm ==
    [Local("bw_pipe", <<Try("exit"), Fork("exit"), Try("exit")>>,
           <<Kill("positive"), Reap>>)
     EXCEPT !.talk = "push", !.units = 2, !.term = "flag", !.lost = "spins",
            !.sig = "TERM"]

\* The partner writes as long as it can; the reader takes end of file for
\* nothing read.
BwPipe ==
    [Local("bw_pipe", <<Try("exit"), Fork("exit"), Try("exit")>>,
           <<Kill("positive"), Reap>>)
     EXCEPT !.talk = "push", !.units = 2, !.term = "flag", !.lost = "spins"]

\* The partner is told how much to write, in units.  Errors of the set-up
\* are noted in a variable nobody reads.
BwUnix ==
    [Local("bw_unix", <<Pair("return"), Try("return"), Fork("return")>>,
           <<Kill("positive"), Reap>>)
     EXCEPT !.talk = "ask", !.units = 2, !.term = "flag",
            !.eof = "ends if asked"]

\* A job per iteration, its pid in a global.
LatProc ==
    [Local("lat_proc", <<>>, <<Kill("nonzero"), Reap>>)
     EXCEPT !.talk = "jobs", !.cookie = "global", !.njobs = 1, !.dfl = TRUE]

\* The child of fork() is not told apart ('0' for 0): it runs on as a copy,
\* while the original waits for it.
LatCmd ==
    [Local("lat_cmd", <<>>, <<>>)
     EXCEPT !.talk = "copies", !.hook = FALSE, !.dfl = TRUE]

\* Several jobs per iteration.  cleanup() is not given to benchmp(), and
\* SIGCHLD stays with the handler of the harness.
LatPmake ==
    [Local("lat_pmake", <<Try("exit")>>, <<>>)
     EXCEPT !.talk = "jobs", !.hook = FALSE, !.njobs = 2]

\* The names of an interval's files and their directories: made before it
\* and removed after it.
LatFs ==
    [Local("lat_fs", <<Try("exit"), Make("dir", "exit"), Make("names", "on")>>,
           <<Drop("names"), Drop("dir")>>)
     EXCEPT !.each = TRUE]

\* A private copy of the file (-C), under its name until cleanup().
BwFileRd ==
    Local("bw_file_rd", <<Make("clone", "exit"), Try("exit")>>,
          <<Drop("clone")>>)

BwMmapRd ==
    Local("bw_mmap_rd", <<Make("clone", "exit"), Try("exit"), Try("exit")>>,
          <<Drop("clone")>>)

\* The private copy loses its name as soon as it is open.
LatMmap ==
    Local("lat_mmap",
          <<Make("clone", "exit"), Try("exit"), Drop("clone"), Try("exit")>>,
          <<>>)

LatPagefault ==
    Local("lat_pagefault",
          <<Make("clone", "exit"), Try("exit"), Drop("clone"), Try("exit"),
            Try("exit")>>, <<>>)

\* Descriptors of a file that main() has made.
LatSelect == Local("lat_select", <<Try("exit"), Try("exit")>>, <<>>)

\* A mapping whose protection faults come back as calls of the harness.
LatSig == [Local("lat_sig", <<Try("exit")>>, <<>>) EXCEPT !.hook = FALSE]

ASSUME BenchmarkAssumption ==
    Benchmarks \subseteq
        {LatPipe, LatUnix, LatFifo, LatSem, LatFcntl, BwPipe, BwUnix, LatProc,
         LatCmd, LatPmake, LatFs, BwFileRd, BwMmapRd, LatMmap, LatPagefault,
         LatSelect, LatSig}

-----------------------------------------------------------------------------

HooksStart(b) ==
    /\ bench = b
    /\ apc = IF bench.each THEN "enter" ELSE "setup"
    /\ ip = 1 /\ goal = "enter" /\ sigchld = "handler"
    /\ handled = bench.each /\ pending = {}
    /\ interval = 0 /\ laps = 0 /\ got = 0 /\ pid = "none"
    /\ partner = "none" /\ owe = 0 /\ a2b = 0 /\ b2a = 0
    /\ locks = [f \in 1..2 |-> "A"]
    /\ jobs = [j \in 1..bench.njobs |-> "none"]
    /\ known = [j \in 1..bench.njobs |-> "none"] /\ waiting = <<>>
    /\ res = {} /\ kills = {} /\ orphan = FALSE /\ faults = {}
    /\ ending = "none"

HooksInit == \E b \in Benchmarks : HooksStart(b)

Living == {"fresh", "serving", "spinning"}
Awake(pc) == apc = pc /\ pending = {}

Fault(name) ==
    Cardinality(faults) < MaxHookFaults /\ faults' = faults \cup {name}

\* exit(): the jobs and the partner are left to themselves.
Exit(how) == apc' = "exited" /\ ending' = how
Goto(pc) == apc' = pc /\ UNCHANGED ending

-----------------------------------------------------------------------------
(* initialize()                                                            *)

Setup == bench.setup
InSetup(what) == Awake("setup") /\ ip <= Len(Setup) /\ Setup[ip].do = what

\* A call of initialize() that succeeds.
SetupStep ==
    /\ \E what \in {"try", "pair", "make", "drop", "fork"} : InSetup(what)
    /\ ip' = ip + 1
    /\ res' = CASE Setup[ip].do = "make" -> res \cup {Setup[ip].what}
                [] Setup[ip].do = "drop" -> res \ {Setup[ip].what}
                [] OTHER -> res
    /\ IF Setup[ip].do = "fork" THEN partner' = "fresh" /\ pid' = "own"
                                ELSE UNCHANGED <<partner, pid>>
    /\ UNCHANGED <<bench, apc, goal, sigchld, handled, pending, loopVars, owe,
                   a2b, b2a, locks, jobVars, kills, orphan, faults, ending>>

\* A call that fails: fork() leaves -1 for the partner's pid.
SetupFails ==
    /\ \E what \in {"try", "pair", "make", "fork"} : InSetup(what)
    /\ Fault(Setup[ip].do)
    /\ pid' = IF Setup[ip].do = "fork" THEN "failed" ELSE pid
    /\ CASE Setup[ip].fails = "exit" -> Exit("error") /\ UNCHANGED ip
         [] Setup[ip].fails = "on" -> ip' = ip + 1 /\ UNCHANGED <<apc, ending>>
         [] OTHER -> ip' = Len(Setup) + 1 /\ UNCHANGED <<apc, ending>>
    /\ UNCHANGED <<bench, goal, sigchld, handled, pending, loopVars,
                   partnerVars, jobVars, res, kills, orphan>>

\* One time around, to make sure both processes are started.
SayHello ==
    /\ InSetup("hello")
    /\ a2b' = a2b + 1 /\ Goto("hello")
    /\ UNCHANGED <<bench, ip, goal, sigchld, handled, pending, loopVars, pid,
                   partner, owe, b2a, locks, jobVars, worldVars>>
HearHello ==
    /\ Awake("hello") /\ b2a > 0
    /\ b2a' = b2a - 1 /\ ip' = ip + 1 /\ Goto("setup")
    /\ UNCHANGED <<bench, goal, sigchld, handled, pending, loopVars, pid,
                   partner, owe, a2b, locks, jobVars, worldVars>>

\* initialize() returns.  SIGTERM's handler is installed after the first
\* call, and a signal that came before is looked at.
SetupDone ==
    /\ Awake("setup") /\ ip = Len(Setup) + 1
    /\ handled' = TRUE
    /\ pending' = IF "early" \in faults /\ ~handled THEN {"TERM"} ELSE {}
    /\ ip' = 1
    /\ Goto(IF bench.each THEN "bench" ELSE "enter")
    /\ UNCHANGED <<bench, goal, sigchld, loopVars, pid, partnerVars, jobVars,
                   worldVars>>

-----------------------------------------------------------------------------
(* benchmp_interval(): cleanup(n) of the interval that is over, the orphan *)
(* test, and then another interval, or the results and cleanup(0).         *)

StartTeardown(then) ==
    /\ goal' = then /\ ip' = 1
    /\ Goto(IF bench.hook THEN "teardown" ELSE "torn")

\* cleanup(n) does something only for a program that acts on each interval.
Enter ==
    /\ Awake("enter")
    /\ sigchld' = IF interval > 0 /\ bench.hook THEN "default" ELSE sigchld
    /\ IF bench.each /\ interval > 0 THEN StartTeardown("entered")
       ELSE Goto("entered") /\ UNCHANGED <<goal, ip>>
    /\ UNCHANGED <<bench, handled, pending, loopVars, pid, partnerVars,
                   jobVars, worldVars>>

\* The parent is gone: cleanup(0), exit.
Orphaned ==
    /\ Awake("entered") /\ orphan /\ bench.hook
    /\ sigchld' = "default"
    /\ IF bench.each THEN Goto("torn") /\ goal' = "exit" /\ UNCHANGED ip
                     ELSE StartTeardown("exit")
    /\ UNCHANGED <<bench, handled, pending, loopVars, pid, partnerVars,
                   jobVars, worldVars>>

\* initialize(n) and the next call of benchmark().
NextInterval ==
    /\ Awake("entered") /\ ~(orphan /\ bench.hook) /\ interval < Intervals
    /\ laps' = Laps /\ got' = 0 /\ ip' = 1
    /\ Goto(IF bench.each THEN "setup" ELSE "bench")
    /\ sigchld' = IF bench.dfl THEN "default" ELSE sigchld
    /\ UNCHANGED <<bench, goal, handled, pending, interval, pid, partnerVars,
                   jobVars, worldVars>>

\* The results are sent, then cleanup(0).
Report ==
    /\ Awake("entered") /\ ~(orphan /\ bench.hook) /\ interval = Intervals
    /\ sigchld' = IF bench.hook THEN "default" ELSE sigchld
    /\ IF bench.each THEN Goto("torn") /\ goal' = "wait" /\ UNCHANGED ip
                     ELSE StartTeardown("wait")
    /\ UNCHANGED <<bench, handled, pending, loopVars, pid, partnerVars,
                   jobVars, worldVars>>

\* The exit signal, or end of file in its place.
WaitExit ==
    /\ Awake("wait") /\ Exit("orderly")
    /\ UNCHANGED <<bench, ip, goal, sigchld, handled, pending, loopVars, pid,
                   partnerVars, jobVars, worldVars>>

IntervalOver ==
    /\ Awake("bench") /\ laps = 0
    /\ interval' = interval + 1 /\ Goto("enter")
    /\ UNCHANGED <<bench, ip, goal, sigchld, handled, pending, laps, got, pid,
                   partnerVars, jobVars, worldVars>>

-----------------------------------------------------------------------------
(* cleanup()                                                               *)

Teardown == bench.teardown
InTeardown(what) ==
    Awake("teardown") /\ ip <= Len(Teardown) /\ Teardown[ip].do = what

DropStep ==
    /\ InTeardown("drop")
    /\ res' = res \ {Teardown[ip].what} /\ ip' = ip + 1
    /\ UNCHANGED <<bench, apc, goal, sigchld, handled, pending, loopVars, pid,
                   partnerVars, jobVars, kills, orphan, faults, ending>>

\* What a signal does to the partner.
Struck(sig) ==
    IF partner \in Living /\ (sig = "KILL" \/ bench.term = "exit")
    THEN "dead" ELSE partner

\* The partner or, in lat_proc, the job whose pid is in the global.
Target == IF bench.talk = "jobs"
          THEN CASE known[1] = "none" -> "none"
                 [] known[1] = "failed" -> "everyone"
                 [] known[1] = "own" ->
                        IF jobs[1] = "reaped" THEN "stranger" ELSE "own"
          ELSE IF pid = "failed" THEN "everyone"
          ELSE pid

\* kill(pid, ...) behind `if (pid)' or `if (pid > 0)': -1 passes the first.
\* The death is a SIGCHLD, unless the caller has reset it (lat_unix, which
\* calls cleanup() itself, has not).
KillStep ==
    /\ InTeardown("kill")
    /\ LET skips == \/ Target = "none"
                    \/ Target = "everyone" /\ Teardown[ip].what = "positive"
       IN  /\ kills' = IF skips THEN kills ELSE kills \cup {Target}
           /\ partner' = IF ~skips /\ Target = "own" /\ bench.talk # "jobs"
                         THEN Struck(bench.sig) ELSE partner
           /\ jobs' = IF ~skips /\ bench.talk = "jobs" /\ jobs[1] = "running"
                      THEN [jobs EXCEPT ![1] = "zombie"] ELSE jobs
           /\ pending' = IF partner' # partner /\ sigchld = "handler"
                         THEN pending \cup {"CHLD"} ELSE pending
           /\ ip' = IF skips THEN ip + 2 ELSE ip + 1
    /\ UNCHANGED <<bench, apc, goal, sigchld, handled, loopVars, pid, owe,
                   a2b, b2a, locks, known, waiting, res, orphan, faults,
                   ending>>

\* waitpid(), for as long as it takes; then the pid is forgotten.
ReapStep ==
    /\ InTeardown("reap")
    /\ IF bench.talk = "jobs"
       THEN /\ jobs[1] # "running"
            /\ jobs' = [jobs EXCEPT ![1] =
                           IF @ = "zombie" THEN "reaped" ELSE @]
            /\ known' = [known EXCEPT ![1] = "none"]
            /\ UNCHANGED <<partner, pid>>
       ELSE /\ partner \notin Living
            /\ partner' = IF partner = "dead" THEN "reaped" ELSE partner
            /\ pid' = "none" /\ UNCHANGED <<jobs, known>>
    /\ ip' = ip + 1
    /\ UNCHANGED <<bench, apc, goal, sigchld, handled, pending, loopVars, owe,
                   a2b, b2a, locks, waiting, worldVars, ending>>

TeardownDone ==
    /\ Awake("teardown") /\ ip = Len(Teardown) + 1
    /\ Goto("torn")
    /\ UNCHANGED <<bench, ip, goal, sigchld, handled, pending, loopVars, pid,
                   partnerVars, jobVars, worldVars>>

\* And on to what the caller of cleanup() does next.
AfterTeardown ==
    /\ Awake("torn")
    /\ CASE goal = "exit" -> Exit("gave up")
         [] goal = "term" -> Exit("term")
         [] OTHER -> Goto(goal)
    /\ UNCHANGED <<bench, ip, goal, sigchld, handled, pending, loopVars, pid,
                   partnerVars, jobVars, worldVars>>

-----------------------------------------------------------------------------
(* benchmark(): iterations with a partner.                                 *)

Lap == /\ laps' = laps - 1 /\ got' = 0

\* There are no sockets, or no semaphores, to talk over.
Broken ==
    \/ "pair" \in faults
    \/ bench.talk = "turns" /\ "make" \in faults

\* semop() on semaphore set -1 fails.  The descriptors of a pair that was
\* not made are whatever the memory held: write() or read() fails, or works
\* on something else, or blocks for ever.  lat_unix takes a failure for the
\* end and calls cleanup() itself; bw_unix, whose count is unsigned, takes
\* it for all the bytes there are, and end of file for an error.
NoChannel ==
    /\ Awake("bench") /\ laps > 0 /\ Broken
    /\ \/ /\ bench.name \in {"lat_sem", "bw_unix"} /\ Exit("error")
          /\ UNCHANGED <<goal, ip, laps, got>>
       \/ /\ bench.name = "lat_unix" /\ StartTeardown("exit")
          /\ UNCHANGED <<laps, got>>
       \/ /\ bench.talk = "ask" /\ Lap
          /\ UNCHANGED <<apc, ending, goal, ip>>
       \/ /\ bench.talk = "ask" /\ Goto("blocked")
          /\ UNCHANGED <<goal, ip, laps, got>>
    /\ UNCHANGED <<bench, sigchld, handled, pending, interval, pid,
                   partnerVars, jobVars, worldVars>>

\* Mutant: the round is counted when the request is out.
AskOnly ==
    /\ Awake("bench") /\ laps > 0 /\ bench.talk = "ask" /\ ~Broken
    /\ a2b' = a2b + 1 /\ Lap
    /\ UNCHANGED <<bench, apc, ip, goal, sigchld, handled, pending, interval,
                   pid, partner, owe, b2a, locks, jobVars, worldVars, ending>>

\* A request to the partner.
Ask ==
    /\ Awake("bench") /\ laps > 0 /\ bench.talk = "ask" /\ ~Broken
    /\ a2b' = a2b + 1 /\ Goto("answer")
    /\ UNCHANGED <<bench, ip, goal, sigchld, handled, pending, loopVars, pid,
                   partner, owe, b2a, locks, jobVars, worldVars>>

\* A unit of its answer, or of what a partner sends unasked.
Take ==
    /\ \/ Awake("answer")
       \/ Awake("bench") /\ laps > 0 /\ bench.talk = "push"
    /\ b2a > 0 /\ b2a' = b2a - 1
    /\ IF got + 1 = bench.units THEN Lap /\ Goto("bench")
       ELSE got' = got + 1 /\ UNCHANGED <<laps, apc, ending>>
    /\ UNCHANGED <<bench, ip, goal, sigchld, handled, pending, interval, pid,
                   partner, owe, a2b, locks, jobVars, worldVars>>

\* semop() with both operations at once: take the turn and pass it.
TakeTurn ==
    /\ Awake("bench") /\ laps > 0 /\ bench.talk = "turns" /\ ~Broken
    /\ b2a > 0
    /\ b2a' = b2a - 1 /\ a2b' = a2b + 1 /\ Lap
    /\ UNCHANGED <<bench, apc, ip, goal, sigchld, handled, pending, interval,
                   pid, partner, owe, locks, jobVars, worldVars, ending>>

\* The partner is gone and the child notices in its own way.  (It exits
\* without cleanup(); `blocks' and `spins' have no step.)
Lost ==
    /\ \/ Awake("hello") \/ Awake("answer")
       \/ Awake("bench") /\ laps > 0 /\ bench.talk = "push"
    /\ partner \in {"dead", "reaped"} /\ b2a = 0 /\ bench.lost = "exit"
    /\ Exit("error")
    /\ UNCHANGED <<bench, ip, goal, sigchld, handled, pending, loopVars, pid,
                   partnerVars, jobVars, worldVars>>

Free(f, who) == locks[f] \in {"none", who}
Unlock(f, who) == IF locks[f] = who THEN "none" ELSE locks[f]

\* procA(): lock 1, unlock 2, lock 2, unlock 1.
ProcA ==
    /\ bench.talk = "locks" /\ laps > 0
    /\ \/ /\ Awake("bench") /\ Free(1, "A") /\ Goto("A2")
          /\ locks' = [locks EXCEPT ![1] = "A"] /\ UNCHANGED <<laps, got>>
       \/ /\ Awake("A2") /\ Goto("A3")
          /\ locks' = [locks EXCEPT ![2] = Unlock(2, "A")]
          /\ UNCHANGED <<laps, got>>
       \/ /\ Awake("A3") /\ Free(2, "A") /\ Goto("A4")
          /\ locks' = [locks EXCEPT ![2] = "A"] /\ UNCHANGED <<laps, got>>
       \/ /\ Awake("A4") /\ Goto("bench") /\ Lap
          /\ locks' = [locks EXCEPT ![1] = Unlock(1, "A")]
    /\ UNCHANGED <<bench, ip, goal, sigchld, handled, pending, interval, pid,
                   partner, owe, a2b, b2a, jobVars, worldVars>>

\* procB(): unlock 1, lock 2, unlock 2, lock 1; owe is where it is.
ProcB ==
    /\ partner \in {"fresh", "serving"} /\ bench.talk = "locks"
    /\ apc # "exited"
    /\ \/ owe = 0 /\ locks' = [locks EXCEPT ![1] = Unlock(1, "B")]
       \/ owe = 1 /\ Free(2, "B") /\ locks' = [locks EXCEPT ![2] = "B"]
       \/ owe = 2 /\ locks' = [locks EXCEPT ![2] = Unlock(2, "B")]
       \/ owe = 3 /\ Free(1, "B") /\ locks' = [locks EXCEPT ![1] = "B"]
    /\ owe' = (owe + 1) % 4 /\ partner' = "serving"
    /\ UNCHANGED <<bench, apc, ip, goal, sigchld, handled, pending, loopVars,
                   pid, a2b, b2a, jobVars, worldVars, ending>>

\* An iteration that needs nobody else.
Alone ==
    /\ Awake("bench") /\ laps > 0 /\ bench.talk = "none" /\ Lap
    /\ UNCHANGED <<bench, apc, ip, goal, sigchld, handled, pending, interval,
                   pid, partnerVars, jobVars, worldVars, ending>>

\* The partner takes a request and owes its answer, or the turn.
Obey ==
    /\ partner \in {"fresh", "serving"} /\ owe = 0 /\ ~Broken
    /\ \/ bench.talk \in {"ask", "turns"} /\ a2b > 0 /\ a2b' = a2b - 1
       \/ bench.talk = "turns" /\ partner = "fresh" /\ UNCHANGED a2b
       \/ bench.talk = "push" /\ UNCHANGED a2b
    /\ partner' = "serving" /\ owe' = bench.units
    /\ UNCHANGED <<bench, apc, ip, goal, sigchld, handled, pending, loopVars,
                   pid, b2a, locks, jobVars, worldVars, ending>>

\* The partner finds that there is nothing to talk over, and exits; in
\* lat_unix its descriptor may happen to be one that blocks.
PartnerFails ==
    /\ partner = "fresh" /\ Broken
    /\ \/ /\ partner' = "dead"
          /\ pending' = IF sigchld = "handler" /\ apc # "exited"
                        THEN pending \cup {"CHLD"} ELSE pending
       \/ /\ bench.talk = "ask" /\ partner' = "spinning"
          /\ UNCHANGED pending
    /\ UNCHANGED <<bench, apc, ip, goal, sigchld, handled, loopVars, pid, owe,
                   a2b, b2a, locks, jobVars, worldVars, ending>>

\* It writes one unit.
Answer ==
    /\ partner = "serving" /\ bench.talk # "locks" /\ owe > 0
    /\ apc # "exited" /\ b2a < bench.units
    /\ owe' = owe - 1 /\ b2a' = b2a + 1
    /\ UNCHANGED <<bench, apc, ip, goal, sigchld, handled, pending, loopVars,
                   pid, partner, a2b, locks, jobVars, worldVars, ending>>

\* The child is gone: a write is an error, a read end of file, unless a copy
\* of the other end is still open.
Orphan ==
    /\ apc = "exited" /\ partner \in {"fresh", "serving"}
    /\ bench.talk = "ask" => a2b = 0
    /\ \/ /\ \/ bench.eof = "ends"
             \/ bench.eof = "ends if asked"
          /\ partner' = "dead"
       \/ /\ \/ bench.eof = "spins"
             \/ bench.eof = "ends if asked" /\ partner = "fresh"
          /\ partner' = "spinning"
    /\ UNCHANGED <<bench, apc, ip, goal, sigchld, handled, pending, loopVars,
                   pid, owe, a2b, b2a, locks, jobVars, worldVars, ending>>

-----------------------------------------------------------------------------
(* benchmark(): iterations that start processes.                           *)

Job == 1..bench.njobs
NextJob == {j \in Job : jobs[j] = "none" /\ known[j] = "none"
                        /\ \A i \in 1..j - 1 : known[i] # "none"}

\* fork() of a job: it runs before its pid is recorded.
ForkJob ==
    /\ Awake("bench") /\ laps > 0 /\ bench.talk = "jobs"
    /\ \E j \in NextJob : jobs' = [jobs EXCEPT ![j] = "running"]
    /\ Goto("assign")
    /\ UNCHANGED <<bench, ip, goal, sigchld, handled, pending, loopVars, pid,
                   partnerVars, known, waiting, worldVars>>
Assign ==
    /\ Awake("assign")
    /\ \E j \in Job : jobs[j] # "none" /\ known[j] = "none"
                      /\ known' = [known EXCEPT ![j] = "own"]
    /\ Goto("bench")
    /\ UNCHANGED <<bench, ip, goal, sigchld, handled, pending, loopVars, pid,
                   partnerVars, jobs, waiting, worldVars>>

\* fork() fails: -1 is recorded.  lat_proc prints why before it exits,
\* lat_pmake goes on.
ForkJobFails ==
    /\ Awake("bench") /\ laps > 0 /\ bench.talk = "jobs" /\ NextJob # {}
    /\ Fault("fork")
    /\ \E j \in NextJob : known' = [known EXCEPT ![j] = "failed"]
    /\ Goto(IF bench.name = "lat_proc" THEN "failed" ELSE "bench")
    /\ UNCHANGED <<bench, ip, goal, sigchld, handled, pending, loopVars, pid,
                   partnerVars, jobs, waiting, res, kills, orphan>>

GiveUp ==
    /\ Awake("failed") /\ Exit("error")
    /\ UNCHANGED <<bench, ip, goal, sigchld, handled, pending, loopVars, pid,
                   partnerVars, jobVars, worldVars>>

\* A job comes to its end.
JobEnds(j) ==
    /\ jobs[j] = "running"
    /\ jobs' = [jobs EXCEPT ![j] =
                   IF apc = "exited" THEN "reaped" ELSE "zombie"]
    /\ pending' = IF sigchld = "handler" /\ apc # "exited"
                  THEN pending \cup {"CHLD"} ELSE pending
    /\ UNCHANGED <<bench, apc, ip, goal, sigchld, handled, loopVars, pid,
                   partnerVars, known, waiting, worldVars, ending>>

\* waitpid() for each job in turn; -1 waits for any of them.
Started == \A j \in Job : known[j] # "none"
WaitJob ==
    /\ Awake("bench") /\ laps > 0 /\ bench.talk = "jobs" /\ Started
    /\ ip <= bench.njobs
    /\ IF known[ip] = "own"
       THEN /\ jobs[ip] # "running"
            /\ jobs' = [jobs EXCEPT ![ip] = "reaped"]
       ELSE \* (the end of one is a SIGCHLD before it is waited for)
            /\ \A j \in Job : jobs[j] \notin {"running", "zombie"}
            /\ UNCHANGED jobs
    /\ ip' = ip + 1
    /\ UNCHANGED <<bench, apc, goal, sigchld, handled, pending, loopVars, pid,
                   partnerVars, known, waiting, worldVars, ending>>

\* The pid is set to 0 (or -1), and the next iteration begins.
ForgetJobs ==
    /\ Awake("bench") /\ laps > 0 /\ bench.talk = "jobs"
    /\ Started /\ ip = bench.njobs + 1
    /\ jobs' = [j \in Job |-> IF jobs[j] = "reaped" THEN "none" ELSE jobs[j]]
    /\ known' = [j \in Job |-> "none"] /\ ip' = 1 /\ Lap
    /\ UNCHANGED <<bench, apc, goal, sigchld, handled, pending, interval, pid,
                   partnerVars, waiting, worldVars, ending>>

\* lat_cmd: the child of fork() goes on like its parent, with the pipes to
\* the harness and the rest of the iterations, while the parent waits for
\* it.  From here on the variables are those of the copy.
ForkCopy ==
    /\ Awake("bench") /\ laps > 0 /\ bench.talk = "copies"
    /\ waiting' = <<[interval |-> interval, laps |-> laps]>> \o waiting
    /\ Lap
    /\ UNCHANGED <<bench, apc, ip, goal, sigchld, handled, pending, interval,
                   pid, partnerVars, jobs, known, worldVars, ending>>

\* fork() fails: there is nobody to wait for.
ForkCopyFails ==
    /\ Awake("bench") /\ laps > 0 /\ bench.talk = "copies"
    /\ Fault("fork") /\ Lap
    /\ UNCHANGED <<bench, apc, ip, goal, sigchld, handled, pending, interval,
                   pid, partnerVars, jobVars, res, kills, orphan, ending>>

\* The copy has ended: its original goes on, with the iterations it has
\* left itself.
Wake ==
    /\ apc = "exited" /\ waiting # <<>>
    /\ interval' = Head(waiting).interval /\ laps' = Head(waiting).laps - 1
    /\ got' = 0 /\ waiting' = Tail(waiting)
    /\ apc' = "bench" /\ ip' = 1 /\ goal' = "enter" /\ ending' = "none"
    /\ UNCHANGED <<bench, sigchld, handled, pending, pid, partnerVars, jobs,
                   known, worldVars>>

-----------------------------------------------------------------------------
(* Signals and other faults.                                               *)

\* SIGTERM: until initialize(0) has returned it is only noted.
Term ==
    /\ apc # "exited" /\ waiting = <<>> /\ pending = {} /\ goal # "term"
    /\ Fault(IF ~handled THEN "early"
             ELSE IF apc = "assign" THEN "gap" ELSE "term")
    /\ pending' = IF handled THEN {"TERM"} ELSE {}
    /\ UNCHANGED <<bench, apc, ip, goal, sigchld, handled, loopVars, pid,
                   partnerVars, jobVars, res, kills, orphan, ending>>

\* benchmp_child_sigterm() and benchmp_child_sigchld() call cleanup(0) with
\* the state of the harness for a cookie: a program that works on it kills,
\* or removes, whatever it finds there; one with globals cleans up.
Handle ==
    /\ pending # {} /\ apc # "exited"
    /\ pending' = {}
    /\ IF bench.hook /\ bench.cookie = "global"
       THEN StartTeardown("term") /\ UNCHANGED kills
       ELSE /\ kills' = IF bench.hook /\ bench.teardown # <<>>
                        THEN kills \cup {"stray"} ELSE kills
            /\ Exit("term") /\ UNCHANGED <<ip, goal>>
    /\ UNCHANGED <<bench, sigchld, handled, loopVars, pid, partnerVars,
                   jobVars, res, orphan, faults>>

\* SIGKILL, from the harness that waits no longer.
Killed ==
    /\ apc # "exited" /\ waiting = <<>> /\ Fault("kill")
    /\ Exit("killed") /\ pending' = {}
    /\ UNCHANGED <<bench, ip, goal, sigchld, handled, loopVars, pid,
                   partnerVars, jobVars, res, kills, orphan>>

\* The harness knows the first of lat_cmd's originals only: either signal
\* ends it, and none of its copies.
OriginalDies ==
    /\ waiting # <<>> /\ Fault("kill")
    /\ waiting' = SubSeq(waiting, 1, Len(waiting) - 1)
    /\ UNCHANGED <<bench, apc, ip, goal, sigchld, handled, pending, loopVars,
                   pid, partnerVars, jobs, known, res, kills, orphan, ending>>

\* The parent dies, or benchmp() runs as process 1: getppid() is 1.
ParentDies ==
    /\ ~orphan /\ apc # "exited" /\ Fault("orphan") /\ orphan' = TRUE
    /\ UNCHANGED <<bench, apc, ip, goal, sigchld, handled, pending, loopVars,
                   pid, partnerVars, jobVars, res, kills, ending>>

\* The partner dies.
PartnerDies ==
    /\ partner \in Living /\ apc # "exited" /\ Fault("partner")
    /\ partner' = "dead"
    /\ locks' = [f \in 1..2 |-> Unlock(f, "B")]
    /\ pending' = IF sigchld = "handler" THEN pending \cup {"CHLD"}
                                        ELSE pending
    /\ UNCHANGED <<bench, apc, ip, goal, sigchld, handled, loopVars, pid, owe,
                   a2b, b2a, jobVars, res, kills, orphan, ending>>

ChildStep ==
    \/ SetupStep \/ SayHello \/ HearHello \/ SetupDone
    \/ Enter \/ Orphaned \/ NextInterval \/ Report \/ WaitExit \/ IntervalOver
    \/ DropStep \/ KillStep \/ ReapStep \/ TeardownDone \/ AfterTeardown
    \/ Ask \/ Take \/ TakeTurn \/ NoChannel \/ Lost \/ ProcA \/ Alone
    \/ ForkJob \/ Assign \/ GiveUp \/ WaitJob \/ ForgetJobs
    \/ ForkCopy \/ Wake \/ Handle

PartnerStep == ProcB \/ Obey \/ PartnerFails \/ Answer \/ Orphan

HooksNext ==
    \/ ChildStep \/ PartnerStep \/ (\E j \in Job : JobEnds(j))
    \/ SetupFails \/ ForkJobFails \/ ForkCopyFails
    \/ Term \/ Killed \/ OriginalDies \/ ParentDies \/ PartnerDies

HooksSpec ==
    /\ HooksInit /\ [][HooksNext]_hookVars
    /\ WF_hookVars(ChildStep) /\ WF_hookVars(PartnerStep)
    /\ \A j \in 1..2 : WF_hookVars(j \in Job /\ JobEnds(j))

-----------------------------------------------------------------------------
(* Properties.                                                             *)

\* cleanup() kills the child's own partner or job and nobody else, but for
\* these cases.  fork() failed, and then the parent was gone (lat_pipe,
\* lat_unix, lat_sem), benchmark() gave up for want of a socket (lat_unix)
\* or SIGTERM came before exit() (lat_proc): kill(-1).  A signal handler ran
\* cleanup() on the harness's state: SIGTERM, a partner that died, or one
\* that could only exit because the set-up had failed.  SIGTERM came to
\* lat_proc after waitpid() and before the pid was forgotten.
OnlyOwnChildren ==
    /\ "everyone" \in kills =>
          /\ "fork" \in faults
          /\ \/ /\ "orphan" \in faults
                /\ bench.name \in {"lat_pipe", "lat_unix", "lat_sem"}
             \/ "pair" \in faults /\ bench.name = "lat_unix"
             \/ "term" \in faults /\ bench.name = "lat_proc"
    /\ "stray" \in kills =>
          Broken \/ faults \cap {"term", "early", "gap", "partner"} # {}
    /\ "stranger" \in kills => bench.name = "lat_proc" /\ "term" \in faults

\* A child that ends in order leaves no process, file or semaphore behind,
\* nor an original that waits for it (lat_cmd does).  So does one that
\* gives up because its parent or its socket is gone, lat_fs too, whose
\* cleanup(0) does nothing: it has removed the interval's files before.
\* SIGTERM leaves no job of lat_proc, unless it came between fork() and the
\* assignment of the pid.
NothingLeft ==
    /\ ending \in {"orderly", "gave up"} =>
          /\ res = {} /\ partner \in {"none", "reaped"}
          /\ \A j \in Job : jobs[j] \in {"none", "reaped"}
          /\ waiting = <<>> \/ bench.name = "lat_cmd"
    /\ ending = "term" /\ bench.name = "lat_proc" /\ "gap" \notin faults
          => (\A j \in Job : jobs[j] # "running")

\* One hand-over at a time: never more under way than one request and its
\* answer, and between intervals nothing (for lat_sem: one turn), so that
\* the next interval does not measure the last one's.
OneHandover ==
    /\ bench.talk \in {"ask", "turns"} =>
         a2b * bench.units + owe + b2a <= bench.units
    /\ apc = "entered" /\ bench.talk = "ask" => a2b + owe + b2a = 0

\* The child, every copy of it and its partner all end, and the child has
\* reported, however calls fail.  Exactly these do not: lat_fifo waits in
\* cleanup() for a partner that does not take SIGTERM for an answer, and
\* lat_pmake exits when its first job ends; after a failed fork() or pipe()
\* the child waits for itself, and after a failed socketpair() for what is
\* not its own; a partner that outlives a child that was killed, or that
\* could not kill it, spins or waits for ever; and so does a child that
\* cannot see that its partner died.
Abandons ==
    {"lat_pipe", "lat_unix", "lat_fifo", "lat_sem", "lat_fcntl", "bw_unix"}
HooksEnded ==
    /\ \/ apc = "exited" /\ waiting = <<>>
       \/ bench.name = "lat_fifo" /\ InTeardown("reap")
       \/ "fork" \in faults /\ bench.name \in Abandons \ {"lat_fcntl"}
       \/ "try" \in faults /\ bench.name = "bw_unix"
       \/ "pair" \in faults /\ apc = "blocked"
       \/ "partner" \in faults /\ bench.lost \in {"blocks", "spins"}
    /\ \/ partner \notin Living
       \/ bench.name \in Abandons /\ faults # {}
       \/ bench.name = "lat_fifo" /\ InTeardown("reap")
    /\ \/ faults # {} \/ ending = "orderly"
       \/ bench.name = "lat_fifo" /\ InTeardown("reap")
       \/ bench.name = "lat_pmake"
=============================================================================
