------------------------------ MODULE BenchMP ------------------------------
(***************************************************************************)
(* One call of benchmp(), the timing harness of lmbench                    *)
(* (src/lib_timing.c).  A parent forks P children that run the benchmark,  *)
(* and steps them through warm-up, timing, cool-down, reporting and exit   *)
(* over four pipes that all children share.  Children may crash, fork and  *)
(* malloc may fail, the parent may be sent SIGTERM or be killed.           *)
(*                                                                         *)
(* The state of a child between two calls of benchmp_interval() is its     *)
(* program counter cpc and the part of benchmp_child_state that steers     *)
(* it.  A pipe of one-byte signals is the number of bytes in it; the       *)
(* response pipe is the sequence of what was written to it.                *)
(***************************************************************************)
EXTENDS Integers, Sequences, FiniteSets

CONSTANTS
    P,          \* parallel: the number of children
    Reps,       \* repetitions: measurements a child makes
    Chunks,     \* write()s' worth of bytes a child's result_t takes
    HasCleanup, \* is the benchmark's cleanup function non-NULL?
    Nested,     \* has benchmp() run before in this process?
    MaxShort,   \* intervals a lone child may throw away before it gives up
    Faults,     \* kinds of failure that may happen
    MaxFaults   \* how many of them

(***************************************************************************)
(* With more than one child benchmp() first calls itself with one, and it  *)
(* never restores the SIGTERM handler: such a call is always a later one.  *)
(***************************************************************************)
ASSUME HarnessAssumption ==
    /\ P \in Nat \ {0} /\ Reps \in Nat \ {0} /\ Chunks \in Nat \ {0}
    /\ MaxShort \in Nat \ {0} /\ MaxFaults \in Nat
    /\ HasCleanup \in BOOLEAN /\ Nested \in BOOLEAN
    /\ P > 1 => Nested
    /\ Faults \subseteq {"crash", "fork", "malloc", "term", "kill"}

Child == 1..P

VARIABLES
    ppc,            \* where the parent is
    pi,             \* its loop counter i
    flags,          \* benchmp_sigterm_received, benchmp_sigchld_received
    alarmed,        \* has the alarm fired for the child being waited for?
    buf,            \* what it has read of the report being collected
    merged,         \* whose samples merged_results holds, in order of arrival
    published,      \* set_results(merged_results) has run: gettime() # 0
    response,       \* the pipe from the children
    start_signal, result_signal, exit_signal,   \* the pipes to them
    cpc,            \* where each child is
    state,          \* its benchmp_state
    need_warmup,    \* has it not sent `ready' yet?
    runs,           \* state->i, the measurements it has recorded
    short,          \* intervals it has thrown away
    wrote,          \* chunks of its report it has written
    cterm,          \* children whose own benchmp_sigterm_received is set
    pend,           \* children with a SIGTERM not yet delivered
    faults          \* failures that have happened

parentVars == <<ppc, pi, flags, alarmed, buf, merged, published>>
pipeVars == <<response, start_signal, result_signal, exit_signal>>
childVars == <<cpc, state, need_warmup, runs, short, wrote, cterm, pend>>
vars == <<parentVars, pipeVars, childVars, faults>>

ParentPc == {"fork", "forking", "check", "ready", "start", "done", "ask",
             "gather", "collected", "release", "forkErr", "forkErrWait",
             "parErr", "parErrWait", "reap", "reapOpen", "returned", "killed"}

ChildPc == {"unborn", "init", "poll", "first", "reinit", "bench", "asked",
            "report", "final", "wait", "dead"}

Gone == {c \in Child : cpc[c] \in {"unborn", "dead"}}
Alive == Child \ Gone

\* The parent's benchmp_sigchld handler is installed.
Watching == ppc \in {"fork", "forking", "check", "ready", "start", "done",
                     "ask", "gather", "collected"}

\* The parent's ends of the pipes are closed: a child reads end of file.
Closed == ppc \in {"reap", "returned", "killed"}

\* Nobody is left to read what the parent would write: SIGPIPE.
NoReader == \A c \in Child : cpc[c] = "dead"

\* What a child writes: one byte, or the part-th piece of its report.  The
\* parent cannot tell which byte it gets, nor from whom.
Signal(kind, c) == [kind |-> kind, from |-> c, part |-> 0]
Piece(c, part) == [kind |-> "piece", from |-> c, part |-> part]

Message == [kind : {"ready", "done", "piece"}, from : Child, part : 0..Chunks]

Init ==
    /\ ppc = "fork" /\ pi = 0 /\ flags = {} /\ alarmed = FALSE
    /\ buf = <<>> /\ merged = <<>> /\ published = FALSE
    /\ response = <<>>
    /\ start_signal = 0 /\ result_signal = 0 /\ exit_signal = 0
    /\ cpc = [c \in Child |-> "unborn"]
    /\ state = [c \in Child |-> "warmup"]
    /\ need_warmup = [c \in Child |-> TRUE]
    /\ runs = [c \in Child |-> 0]
    /\ short = [c \in Child |-> 0]
    /\ wrote = [c \in Child |-> 0]
    /\ cterm = {} /\ pend = {} /\ faults = 0

Fault(kind) == kind \in Faults /\ faults < MaxFaults /\ faults' = faults + 1

-----------------------------------------------------------------------------
(* The parent: benchmp() up to the call of benchmp_parent().               *)

ForkCheck ==
    /\ ppc = "fork" /\ pi < P
    /\ ppc' = IF "TERM" \in flags THEN "forkErr" ELSE "forking"
    /\ UNCHANGED <<pi, flags, alarmed, buf, merged, published,
                   pipeVars, childVars, faults>>

\* The child starts with the parent's memory, the SIGTERM flag included.
Fork ==
    /\ ppc = "forking"
    /\ cpc' = [cpc EXCEPT ![pi + 1] = "init"]
    /\ cterm' = IF "TERM" \in flags THEN cterm \cup {pi + 1} ELSE cterm
    /\ ppc' = "fork" /\ pi' = pi + 1
    /\ UNCHANGED <<flags, alarmed, buf, merged, published, pipeVars,
                   state, need_warmup, runs, short, wrote, pend, faults>>

ForkFails ==
    /\ ppc = "forking" /\ Fault("fork")
    /\ ppc' = "forkErr"
    /\ UNCHANGED <<pi, flags, alarmed, buf, merged, published,
                   pipeVars, childVars>>

ForkedAll ==
    /\ ppc = "fork" /\ pi = P
    /\ ppc' = "check" /\ pi' = 0
    /\ UNCHANGED <<flags, alarmed, buf, merged, published,
                   pipeVars, childVars, faults>>

\* error_exit of benchmp(): terminate the last child forked, wait, repeat.
ForkErrKill ==
    /\ ppc = "forkErr"
    /\ IF pi = 0
       THEN ppc' = "returned" /\ UNCHANGED pend
       ELSE ppc' = "forkErrWait" /\ pend' = pend \cup ({pi} \cap Alive)
    /\ UNCHANGED <<pi, flags, alarmed, buf, merged, published, pipeVars, cpc,
                   state, need_warmup, runs, short, wrote, cterm, faults>>

ForkErrWait ==
    /\ ppc = "forkErrWait" /\ cpc[pi] = "dead"
    /\ ppc' = "forkErr" /\ pi' = pi - 1
    /\ UNCHANGED <<flags, alarmed, buf, merged, published,
                   pipeVars, childVars, faults>>

-----------------------------------------------------------------------------
(* The parent: benchmp_parent().                                           *)

Check ==
    /\ ppc = "check"
    /\ ppc' = IF flags # {} THEN "parErr" ELSE "ready"
    /\ UNCHANGED <<pi, flags, alarmed, buf, merged, published,
                   pipeVars, childVars, faults>>

\* malloc fails: benchmp_parent() returns and leaves the children running.
MallocFails ==
    /\ ppc = "check" /\ flags = {} /\ Fault("malloc")
    /\ ppc' = "reapOpen" /\ pi' = P
    /\ UNCHANGED <<flags, alarmed, buf, merged, published,
                   pipeVars, childVars>>

\* Mutant: on a signal, go on to publish what has been merged so far.
AbandonAndPublish ==
    /\ ppc \in {"ready", "done", "gather"} /\ flags # {}
    /\ IF ppc = "gather" THEN Len(buf) < Chunks ELSE pi < P
    /\ ppc' = "collected" /\ pi' = P
    /\ UNCHANGED <<flags, alarmed, buf, merged, published,
                   pipeVars, childVars, faults>>

\* select() reported a signal: goto error_exit.
Abandon ==
    /\ ppc \in {"ready", "done", "gather"} /\ flags # {}
    /\ IF ppc = "gather" THEN Len(buf) < Chunks ELSE pi < P
    /\ ppc' = "parErr" /\ pi' = 0
    /\ UNCHANGED <<flags, alarmed, buf, merged, published,
                   pipeVars, childVars, faults>>

AtMost(limit) == IF Len(response) < limit THEN Len(response) ELSE limit

\* One read() of at most `parallel - i' signals from the response pipe.
CollectSignals(at) ==
    /\ ppc = at /\ pi < P /\ flags = {} /\ response # <<>>
    /\ LET k == AtMost(P - pi)
       IN  /\ response' = SubSeq(response, k + 1, Len(response))
           /\ pi' = pi + k
    /\ UNCHANGED <<ppc, flags, alarmed, buf, merged, published, start_signal,
                   result_signal, exit_signal, childVars, faults>>

\* Mutant: stop counting one `ready' too early.
ReadyAllEarly ==
    /\ ppc = "ready" /\ pi >= P - 1
    /\ ppc' = "start"
    /\ UNCHANGED <<pi, flags, alarmed, buf, merged, published,
                   pipeVars, childVars, faults>>

\* All are ready; the warm-up delay is the time until Start happens.
ReadyAll ==
    /\ ppc = "ready" /\ pi = P
    /\ ppc' = "start"
    /\ UNCHANGED <<pi, flags, alarmed, buf, merged, published,
                   pipeVars, childVars, faults>>

StartOnlyOne ==
    /\ ppc = "start" /\ ~NoReader
    /\ start_signal' = start_signal + 1
    /\ ppc' = "done" /\ pi' = 0
    /\ UNCHANGED <<flags, alarmed, buf, merged, published, response,
                   result_signal, exit_signal, childVars, faults>>

Start ==
    /\ ppc = "start" /\ ~NoReader
    /\ start_signal' = start_signal + P
    /\ ppc' = "done" /\ pi' = 0
    /\ UNCHANGED <<flags, alarmed, buf, merged, published, response,
                   result_signal, exit_signal, childVars, faults>>

\* Mutant: stop counting one `done' too early.
DoneAllEarly ==
    /\ ppc = "done" /\ pi >= P - 1
    /\ ppc' = "ask" /\ pi' = 0 /\ merged' = <<>>
    /\ UNCHANGED <<flags, alarmed, buf, published,
                   pipeVars, childVars, faults>>

DoneAll ==
    /\ ppc = "done" /\ pi = P
    /\ ppc' = "ask" /\ pi' = 0 /\ merged' = <<>>
    /\ UNCHANGED <<flags, alarmed, buf, published,
                   pipeVars, childVars, faults>>

\* Mutant: ask all children at once.
AskAll ==
    /\ ppc = "ask" /\ pi < P /\ ~NoReader
    /\ result_signal' = result_signal + P
    /\ ppc' = "gather" /\ buf' = <<>>
    /\ UNCHANGED <<pi, flags, alarmed, merged, published, response,
                   start_signal, exit_signal, childVars, faults>>

\* Tell one child, whichever reads the byte, to report its results.
Ask ==
    /\ ppc = "ask" /\ pi < P /\ ~NoReader
    /\ result_signal' = result_signal + 1
    /\ ppc' = "gather" /\ buf' = <<>>
    /\ UNCHANGED <<pi, flags, alarmed, merged, published, response,
                   start_signal, exit_signal, childVars, faults>>

Gather ==
    /\ ppc = "gather" /\ Len(buf) < Chunks /\ flags = {} /\ response # <<>>
    /\ LET k == AtMost(Chunks - Len(buf))
       IN  /\ buf' = buf \o SubSeq(response, 1, k)
           /\ response' = SubSeq(response, k + 1, Len(response))
    /\ UNCHANGED <<ppc, pi, flags, alarmed, merged, published, start_signal,
                   result_signal, exit_signal, childVars, faults>>

\* insertsort() every sample of the report into merged_results.
Merge ==
    /\ ppc = "gather" /\ Len(buf) = Chunks
    /\ merged' = Append(merged, buf[1].from)
    /\ ppc' = "ask" /\ pi' = pi + 1 /\ buf' = <<>>
    /\ UNCHANGED <<flags, alarmed, published, pipeVars, childVars, faults>>

CollectedAll ==
    /\ ppc = "ask" /\ pi = P
    /\ ppc' = "collected"
    /\ UNCHANGED <<pi, flags, alarmed, buf, merged, published,
                   pipeVars, childVars, faults>>

\* signal(SIGCHLD, SIG_DFL): from here on children may die.
IgnoreDeaths ==
    /\ ppc = "collected"
    /\ ppc' = "release"
    /\ UNCHANGED <<pi, flags, alarmed, buf, merged, published,
                   pipeVars, childVars, faults>>

\* Write the exit signals, publish the results, close the pipes.
Release ==
    /\ ppc = "release" /\ ~NoReader
    /\ exit_signal' = exit_signal + P
    /\ published' = TRUE
    /\ ppc' = "reap"
    /\ UNCHANGED <<pi, flags, alarmed, buf, merged, response, start_signal,
                   result_signal, childVars, faults>>

\* A write to a pipe whose every reader is gone kills the parent.
SigPipe ==
    /\ ppc \in {"start", "ask", "release"} /\ NoReader
    /\ ppc = "ask" => pi < P
    /\ ppc' = "killed"
    /\ UNCHANGED <<pi, flags, alarmed, buf, merged, published,
                   pipeVars, childVars, faults>>

\* error_exit of benchmp_parent(): terminate and wait, first child first.
ParErrKill ==
    /\ ppc = "parErr"
    /\ IF pi = P
       THEN ppc' = "reap" /\ UNCHANGED <<pi, pend>>
       ELSE /\ ppc' = "parErrWait" /\ pi' = pi + 1
            /\ pend' = pend \cup ({pi + 1} \cap Alive)
    /\ UNCHANGED <<flags, alarmed, buf, merged, published, pipeVars, cpc,
                   state, need_warmup, runs, short, wrote, cterm, faults>>

ParErrWait ==
    /\ ppc = "parErrWait" /\ cpc[pi] = "dead"
    /\ ppc' = "parErr"
    /\ UNCHANGED <<pi, flags, alarmed, buf, merged, published,
                   pipeVars, childVars, faults>>

-----------------------------------------------------------------------------
(* The parent: cleanup_exit of benchmp(), last child first, under an alarm. *)

Reap ==
    /\ ppc \in {"reap", "reapOpen"}
    /\ IF pi = 0
       THEN ppc' = "returned" /\ UNCHANGED <<pi, alarmed>>
       ELSE cpc[pi] = "dead" /\ pi' = pi - 1 /\ alarmed' = FALSE
            /\ UNCHANGED ppc
    /\ UNCHANGED <<flags, buf, merged, published, pipeVars, childVars, faults>>

\* benchmp_sigalrm(): SIGTERM once, then SIGALRM is ignored.
Alarm ==
    /\ ppc \in {"reap", "reapOpen"} /\ pi > 0 /\ pi \in Alive /\ ~alarmed
    /\ alarmed' = TRUE /\ pend' = pend \cup {pi}
    /\ UNCHANGED <<ppc, pi, flags, buf, merged, published, pipeVars, cpc,
                   state, need_warmup, runs, short, wrote, cterm, faults>>

-----------------------------------------------------------------------------
(* The children.                                                           *)

\* Child c exits; the parent's SIGCHLD handler notes it while installed.
Die(c) ==
    /\ cpc' = [cpc EXCEPT ![c] = "dead"]
    /\ flags' = IF Watching THEN flags \cup {"CHLD"} ELSE flags
    /\ pend' = pend \ {c}
    /\ UNCHANGED <<ppc, pi, alarmed, buf, merged, published, state,
                   need_warmup, runs, short, wrote, cterm>>

\* Mutant: the flag is not looked at after initialize().
InitializedBlindly(c) ==
    /\ cpc[c] = "init"
    /\ cpc' = [cpc EXCEPT ![c] = "poll"]
    /\ UNCHANGED <<parentVars, pipeVars, state, need_warmup, runs, short,
                   wrote, cterm, pend, faults>>

\* initialize(0, cookie) returns, the SIGTERM handler is put in place and
\* the flag looked at: a SIGTERM during initialize() is not lost.
Initialized(c) ==
    /\ cpc[c] = "init"
    /\ IF c \in cterm
       THEN Die(c)
       ELSE cpc' = [cpc EXCEPT ![c] = "poll"]
            /\ UNCHANGED <<parentVars, state, need_warmup, runs, short, wrote,
                           cterm, pend>>
    /\ UNCHANGED <<pipeVars, faults>>

\* getppid() == 1 && state->cleanup
Orphaned == ppc = "killed" /\ HasCleanup

GiveUp(c) ==
    /\ cpc[c] = "poll" /\ Orphaned
    /\ Die(c)
    /\ UNCHANGED <<pipeVars, faults>>

\* Mutant: `ready' on every call, need_warmup is never reset.
PollWarmupAgain(c) ==
    /\ cpc[c] = "poll" /\ ~Orphaned /\ ~Closed /\ state[c] = "warmup"
    /\ start_signal' = IF start_signal > 0 THEN start_signal - 1 ELSE 0
    /\ state' = [state EXCEPT ![c] =
                    IF start_signal > 0 THEN "timing_interval" ELSE "warmup"]
    /\ response' = Append(response, Signal("ready", c))
    /\ cpc' = [cpc EXCEPT ![c] = "reinit"]
    /\ UNCHANGED <<parentVars, need_warmup, runs, short, wrote, cterm, pend,
                   result_signal, exit_signal, faults>>

\* benchmp_interval() while warming up: take a start signal if there is
\* one, and on the first call say `ready'.
PollWarmup(c) ==
    /\ cpc[c] = "poll" /\ ~Orphaned /\ state[c] = "warmup"
    /\ LET go == start_signal > 0 \/ Closed
       IN  /\ start_signal' = IF start_signal > 0 THEN start_signal - 1
                                                  ELSE start_signal
           /\ IF need_warmup[c] /\ Closed
              THEN Die(c) /\ UNCHANGED response
              ELSE /\ state' = [state EXCEPT ![c] =
                                    IF go THEN "timing_interval" ELSE "warmup"]
                   /\ need_warmup' = [need_warmup EXCEPT ![c] = FALSE]
                   /\ response' = IF need_warmup[c]
                                  THEN Append(response, Signal("ready", c)) ELSE response
                   /\ cpc' = [cpc EXCEPT ![c] = IF need_warmup[c]
                                                THEN "first" ELSE "reinit"]
                   /\ UNCHANGED <<parentVars, runs, short, wrote, cterm, pend>>
    /\ UNCHANGED <<result_signal, exit_signal, faults>>

\* Mutant: one measurement more than repetitions.
MeasuredOneMore(c, longEnough) ==
    LET counts == P > 1 \/ longEnough
        r == IF counts THEN runs[c] + 1 ELSE runs[c]
        s == IF counts THEN short[c] ELSE short[c] + 1
        finished == (counts /\ r > Reps) \/ s >= MaxShort
    IN  /\ runs' = [runs EXCEPT ![c] = r]
        /\ short' = [short EXCEPT ![c] = s]
        /\ state' = [state EXCEPT ![c] =
                       IF finished THEN "cooldown" ELSE state[c]]
        /\ response' = IF finished THEN Append(response, Signal("done", c))
                                   ELSE response
        /\ cpc' = [cpc EXCEPT ![c] = "reinit"]
        /\ UNCHANGED <<parentVars, need_warmup, wrote, cterm, pend>>

\* benchmp_interval() after a measurement.  It counts if the load is
\* parallel or it was long enough; a lone child retries with more
\* iterations until those run out.  The last one ends with `done'.
Measured(c, longEnough) ==
    LET counts == P > 1 \/ longEnough
        r == IF counts THEN runs[c] + 1 ELSE runs[c]
        s == IF counts THEN short[c] ELSE short[c] + 1
        finished == (counts /\ r >= Reps) \/ s >= MaxShort
    IN  IF finished /\ Closed
        THEN Die(c) /\ UNCHANGED response
        ELSE /\ runs' = [runs EXCEPT ![c] = r]
             /\ short' = [short EXCEPT ![c] = s]
             /\ state' = [state EXCEPT ![c] =
                            IF finished THEN "cooldown" ELSE state[c]]
             /\ response' = IF finished THEN Append(response, Signal("done", c))
                                        ELSE response
             /\ cpc' = [cpc EXCEPT ![c] = "reinit"]
             /\ UNCHANGED <<parentVars, need_warmup, wrote, cterm, pend>>

PollTiming(c) ==
    /\ cpc[c] = "poll" /\ ~Orphaned /\ state[c] = "timing_interval"
    /\ \E longEnough \in BOOLEAN : Measured(c, longEnough)
    /\ UNCHANGED <<start_signal, result_signal, exit_signal, faults>>

\* Mutant: end of file is not noticed.
PollCooldownNoEof(c) ==
    /\ cpc[c] = "poll" /\ ~Orphaned /\ state[c] = "cooldown"
    /\ cpc' = [cpc EXCEPT ![c] = IF result_signal > 0 THEN "asked"
                                                      ELSE "reinit"]
    /\ UNCHANGED <<parentVars, pipeVars, state, need_warmup, runs, short,
                   wrote, cterm, pend, faults>>

\* benchmp_interval() while cooling down: select() on the result signals.
PollCooldown(c) ==
    /\ cpc[c] = "poll" /\ ~Orphaned /\ state[c] = "cooldown"
    /\ cpc' = [cpc EXCEPT ![c] = IF result_signal > 0 \/ Closed
                                 THEN "asked" ELSE "reinit"]
    /\ UNCHANGED <<parentVars, pipeVars, state, need_warmup, runs, short,
                   wrote, cterm, pend, faults>>

\* The blocking read of a result signal: another child may have taken the
\* one that select() saw.
TakeResultSignal(c) ==
    /\ cpc[c] = "asked" /\ (result_signal > 0 \/ Closed)
    /\ result_signal' = IF result_signal > 0 THEN result_signal - 1
                                             ELSE result_signal
    /\ cpc' = [cpc EXCEPT ![c] = "report"]
    /\ UNCHANGED <<parentVars, response, start_signal, exit_signal, state,
                   need_warmup, runs, short, wrote, cterm, pend, faults>>

\* One piece of write(response, results, r_size), which is not atomic.
Report(c) ==
    /\ cpc[c] = "report"
    /\ IF Closed
       THEN Die(c) /\ UNCHANGED response
       ELSE /\ response' = Append(response, Piece(c, wrote[c] + 1))
            /\ wrote' = [wrote EXCEPT ![c] = wrote[c] + 1]
            /\ cpc' = [cpc EXCEPT ![c] = IF wrote[c] + 1 = Chunks
                                         THEN "final" ELSE "report"]
            /\ UNCHANGED <<parentVars, state, need_warmup, runs, short,
                           cterm, pend>>
    /\ UNCHANGED <<start_signal, result_signal, exit_signal, faults>>

\* cleanup(0, cookie), initialize(n, cookie) and benchmark(n, cookie) return.
Advance(c) ==
    /\ cpc[c] \in {"final", "first", "reinit", "bench"}
    /\ cpc' = [cpc EXCEPT ![c] = CASE cpc[c] = "final" -> "wait"
                                   [] cpc[c] = "bench" -> "poll"
                                   [] OTHER -> "bench"]
    /\ UNCHANGED <<parentVars, pipeVars, state, need_warmup, runs, short,
                   wrote, cterm, pend, faults>>

\* The blocking read of an exit signal, then exit(0).
Exit(c) ==
    /\ cpc[c] = "wait" /\ (exit_signal > 0 \/ Closed)
    /\ exit_signal' = IF exit_signal > 0 THEN exit_signal - 1 ELSE exit_signal
    /\ Die(c)
    /\ UNCHANGED <<response, start_signal, result_signal, faults>>

\* SIGTERM is delivered.  While initialize() runs, and always in a nested
\* call, the handler is the inherited benchmp_sigterm, which sets the flag;
\* otherwise benchmp_child_sigterm cleans up and exits.
Terminated(c) ==
    /\ c \in pend
    /\ IF cpc[c] = "init" \/ Nested
       THEN /\ cterm' = cterm \cup {c} /\ pend' = pend \ {c}
            /\ UNCHANGED <<parentVars, cpc, state, need_warmup, runs, short,
                           wrote>>
       ELSE Die(c)
    /\ UNCHANGED <<pipeVars, faults>>

ChildStep(c) ==
    \/ Initialized(c) \/ GiveUp(c) \/ PollWarmup(c) \/ PollTiming(c)
    \/ PollCooldown(c) \/ TakeResultSignal(c) \/ Report(c) \/ Advance(c)
    \/ Exit(c)

-----------------------------------------------------------------------------
(* What the environment does.                                              *)

\* The benchmark's own code exits, or the child is killed.
Crash(c) ==
    /\ c \in Alive /\ Fault("crash")
    /\ Die(c)
    /\ UNCHANGED pipeVars

ParentTerm ==
    /\ ppc \notin {"returned", "killed"} /\ Fault("term")
    /\ flags' = flags \cup {"TERM"}
    /\ UNCHANGED <<ppc, pi, alarmed, buf, merged, published,
                   pipeVars, childVars>>

ParentKilled ==
    /\ ppc \notin {"returned", "killed"} /\ Fault("kill")
    /\ ppc' = "killed"
    /\ UNCHANGED <<pi, flags, alarmed, buf, merged, published,
                   pipeVars, childVars>>

ParentStep ==
    \/ ForkCheck \/ Fork \/ ForkedAll \/ ForkErrKill \/ ForkErrWait
    \/ Check \/ Abandon \/ ReadyAll \/ Start \/ DoneAll \/ Ask \/ Gather
    \/ Merge \/ CollectedAll \/ IgnoreDeaths \/ Release \/ SigPipe
    \/ ParErrKill \/ ParErrWait \/ Reap
    \/ CollectSignals("ready") \/ CollectSignals("done")

\* The call is over and every child gone: nothing more happens.
Finished ==
    /\ ppc \in {"returned", "killed"} /\ Alive = {}
    /\ UNCHANGED vars

Next ==
    \/ ParentStep \/ Alarm
    \/ \E c \in Child : ChildStep(c) \/ Terminated(c)
    \/ ForkFails \/ MallocFails \/ ParentTerm \/ ParentKilled
    \/ \E c \in Child : Crash(c)
    \/ Finished

Spec == Init /\ [][Next]_vars

(***************************************************************************)
(* The scheduler runs every process, signals are delivered, and the alarm  *)
(* goes off.  Failures need not happen.                                    *)
(***************************************************************************)
Fairness ==
    /\ WF_vars(ParentStep) /\ WF_vars(Alarm)
    /\ \A c \in Child : WF_vars(ChildStep(c)) /\ WF_vars(Terminated(c))

FairSpec == Spec /\ Fairness

-----------------------------------------------------------------------------
(* Invariants.                                                             *)

\* Every variable has its type (benchmp_child_state, the locals of benchmp()
\* and benchmp_parent(), and the contents of the four pipes).
TypeOK ==
    /\ ppc \in ParentPc /\ pi \in 0..P
    /\ flags \subseteq {"TERM", "CHLD"}
    /\ alarmed \in BOOLEAN /\ published \in BOOLEAN
    /\ buf \in Seq(Message) /\ merged \in Seq(Child)
    /\ response \in Seq(Message)
    /\ start_signal \in Nat /\ result_signal \in Nat /\ exit_signal \in Nat
    /\ cpc \in [Child -> ChildPc]
    /\ state \in [Child -> {"warmup", "timing_interval", "cooldown"}]
    /\ need_warmup \in [Child -> BOOLEAN]
    /\ runs \in [Child -> 0..Reps] /\ short \in [Child -> 0..MaxShort]
    /\ wrote \in [Child -> 0..Chunks]
    /\ cterm \subseteq Child /\ pend \subseteq Child
    /\ faults \in 0..MaxFaults

\* While the parent lives, no child measures before all have said `ready':
\* the start barrier of benchmp_parent() and benchmp_interval().
MeasuredUnderLoad ==
    \A c, d \in Child :
        state[c] # "warmup" /\ ppc # "killed" => ~need_warmup[d]

Stopping == {"asked", "report", "final", "wait"}

\* When a child stops working to report, every child has made all its
\* measurements ("At this point all children have stopped their measurement
\* loops", benchmp_interval()): no measurement loses its load.
LoadOutlastsMeasurement ==
    \A c, d \in Child :
        cpc[c] \in Stopping /\ ppc # "killed" => state[d] = "cooldown"

\* The bytes benchmp_parent() counts are of the kind it means to count, and
\* nothing of an earlier phase is left over when a report is asked for:
\* ready and done signals and reports share one pipe, and look alike.
SignalsMatchPhase ==
    \A n \in 1..Len(response) :
        CASE ppc \in {"fork", "forking", "check", "ready"} ->
                 response[n].kind = "ready"
          [] ppc = "done" -> response[n].kind = "done"
          [] ppc = "gather" -> response[n].kind = "piece"
          [] ppc \in {"start", "ask", "collected", "release"} -> FALSE
          [] OTHER -> TRUE

\* The child that took the result signal owns the response pipe: what
\* benchmp_parent() reads as one report is one child's, whole and in order.
ReportIntact ==
    \A n \in 1..Len(buf) : buf[n] = Piece(buf[1].from, n)

\* A result is published only if it holds the report of every child, once.
PublishedIsComplete ==
    published =>
        /\ Len(merged) = P
        /\ \A c \in Child : \E n \in 1..P : merged[n] = c

\* A child's death noted before the exit signals is due to a failure: no
\* child leaves of its own accord while benchmp_parent() counts on it.
DeathIsFailure == "CHLD" \in flags => faults > 0

\* Each child takes one start signal, and the first one it sees: what is
\* left in the pipe is for those still warming up.
StartSignalsConserved ==
    ppc \in {"done", "ask", "gather", "collected", "release"} =>
        start_signal = Cardinality({c \in Child : state[c] = "warmup"})

\* Signals and phases keep in step, in both directions and when children
\* die: the three above, which break one another when they break.
SignalsInStep == SignalsMatchPhase /\ StartSignalsConserved /\ DeathIsFailure

\* No result is made of parts: neither a report of two children's bytes nor
\* a publication of some children's reports.
ResultsWhole == ReportIntact /\ PublishedIsComplete

-----------------------------------------------------------------------------
(* The inductive invariant behind MeasuredUnderLoad, see BenchMPProofs.    *)

Readied == {c \in Child : ~need_warmup[c]}

Starting == {"fork", "forking", "check", "ready"}
Running == {"start", "done", "ask", "gather", "collected", "release"}

\* Loop counters and per-child counters stay where their loops keep them.
Counters ==
    /\ ppc = "forking" => pi < P
    /\ ppc = "check" => pi = 0
    /\ ppc = "gather" => pi < P
    /\ ppc \in {"forkErrWait", "parErrWait"} => pi > 0
    /\ \A c \in Child :
         /\ state[c] = "warmup" => runs[c] = 0 /\ short[c] = 0
         /\ state[c] = "timing_interval" =>
                runs[c] < Reps /\ short[c] < MaxShort
         /\ cpc[c] \notin {"report", "final", "wait", "dead"} => wrote[c] = 0
         /\ cpc[c] = "report" => wrote[c] < Chunks

\* Which children the parent's loops have not reached, and have buried.
Buried ==
    /\ \A c \in pend : cpc[c] \notin {"unborn", "dead"}
    /\ ppc \in {"fork", "forking"} =>
           \A c \in Child : c > pi => cpc[c] = "unborn"
    /\ ppc \in {"forkErr", "forkErrWait"} =>
           \A c \in Child : c > pi => c \in Gone
    /\ ppc = "parErr" => \A c \in 1..pi : cpc[c] = "dead"
    /\ ppc = "parErrWait" => \A c \in 1..(pi - 1) : cpc[c] = "dead"
    /\ ppc = "reapOpen" => \A c \in Child : c > pi => cpc[c] = "dead"
    /\ ppc \in {"reap", "returned"} => published \/ \A c \in Child : c \in Gone

\* Every `ready' is counted or still in the pipe, and nothing can start
\* before they have all been counted.
ReadyCounted ==
    /\ \A c \in Child : need_warmup[c] =>
           /\ cpc[c] \in {"unborn", "init", "poll", "dead"}
           /\ state[c] = "warmup"
    /\ ppc \in Starting =>
           /\ start_signal = 0
           /\ \A c \in Child : state[c] = "warmup" /\ cpc[c] \notin Stopping
           /\ Cardinality(Readied) =
                  Len(response) + IF ppc = "ready" THEN pi ELSE 0
    /\ ppc \in Running \/ published \/ start_signal > 0 => Readied = Child
    /\ ppc # "killed" =>
           \A c \in Child : state[c] # "warmup" => Readied = Child

BarrierInv == TypeOK /\ Counters /\ Buried /\ ReadyCounted

-----------------------------------------------------------------------------
(* The inductive invariant behind the result barrier, see BenchMPProofs.   *)

Warm == {c \in Child : state[c] = "warmup"}
Cooled == {c \in Child : state[c] = "cooldown"}

Collecting == {"ask", "gather", "collected", "release"}

\* Every `done' is counted or still in the pipe, and nobody can be asked for
\* a report before they have all been counted.
DoneCounted ==
    /\ ppc \in Starting \cup {"start", "done"} =>
           result_signal = 0 /\ \A c \in Child : cpc[c] \notin Stopping
    /\ ppc = "start" => response = <<>> /\ Warm = Child /\ start_signal = 0
    /\ ppc = "done" =>
           /\ start_signal = Cardinality(Warm)
           /\ Cardinality(Cooled) = Len(response) + pi
    /\ ppc \in Collecting => start_signal = 0
    /\ ppc \in Collecting \/ published \/ result_signal > 0 => Cooled = Child
    /\ ppc # "killed" =>
           \A c \in Child : cpc[c] \in Stopping => Cooled = Child

\* Signals of one kind only while signals are counted.
KindsCounted ==
    \A n \in 1..Len(response) :
        /\ ppc \in Starting => response[n].kind = "ready"
        /\ ppc = "done" => response[n].kind = "done"

\* What the parent has read and what is still in the pipe are, in order,
\* the pieces that child o has written, and no other child is writing.
Owns(o) ==
    /\ Len(buf) + Len(response) = wrote[o]
    /\ \A n \in 1..Len(buf) : buf[n] = Piece(o, n)
    /\ \A n \in 1..Len(response) : response[n] = Piece(o, Len(buf) + n)
    /\ \A n \in 1..Len(merged) : merged[n] # o
    /\ \A c \in Child : cpc[c] = "report" => c = o

\* Between two reports the pipe is empty and nobody writes; during one the
\* result signal waits to be taken or its taker owns the pipe.  Reports
\* merged are whole, and of different children.
ReportOwned ==
    /\ ReportIntact /\ (published => Closed)
    /\ ppc \in {"ask", "collected", "release"} =>
           /\ response = <<>> /\ result_signal = 0
           /\ \A c \in Child : cpc[c] # "report"
    /\ ppc = "gather" =>
           \/ /\ result_signal = 1 /\ response = <<>> /\ buf = <<>>
              /\ \A c \in Child : cpc[c] # "report"
           \/ result_signal = 0 /\ \E o \in Child : Owns(o)
    /\ ppc \in {"ask", "gather"} => Len(merged) = pi
    /\ ppc \in {"collected", "release"} \/ published => Len(merged) = P
    /\ ppc \in Collecting \/ published =>
           /\ \A n \in 1..Len(merged) : wrote[merged[n]] = Chunks
           /\ \A m, n \in 1..Len(merged) : merged[m] = merged[n] => m = n

\* Before the exit signals a child has no reason to leave but a failure.
FailuresFirst ==
    /\ "CHLD" \in flags => faults > 0
    /\ Watching =>
           /\ flags # {} \/ cterm # {} \/ pend # {} => faults > 0
           /\ exit_signal = 0

HarnessInv ==
    BarrierInv /\ DoneCounted /\ KindsCounted /\ ReportOwned /\ FailuresFirst

-----------------------------------------------------------------------------
(* The promise of the harness, see Harness.tla.                            *)

Failing == {"forkErr", "forkErrWait", "parErr", "parErrWait", "reapOpen",
            "killed"}

Begun == {c \in Child : state[c] # "warmup"}
Reported == {c \in Child : wrote[c] = Chunks}
Outcome == IF published THEN "ok"
           ELSE IF ppc \in Failing \cup {"reap", "returned"}
                THEN "failed" ELSE "running"

Promise == INSTANCE Harness WITH
    ready <- Readied, begun <- Begun, done <- Cooled,
    reported <- Reported, outcome <- Outcome

\* benchmp() implements the harness: the phases are entered together, and
\* the outcome is decided once.
PromiseKept == Promise!Spec

-----------------------------------------------------------------------------
(* Liveness.                                                               *)

\* Without failures the call returns with a result and no child is left.
Completes ==
    [](faults = 0) => <>[](ppc = "returned" /\ published /\ Alive = {})

\* Whatever fails in a first call, it ends and leaves no child behind.
Ends == <>[](ppc \in {"returned", "killed"} /\ Alive = {})

\* When the parent is killed its children notice (getppid(), end of file or
\* SIGPIPE) and go away.
OrphansDie == (ppc = "killed") ~> (Alive = {})

-----------------------------------------------------------------------------
(* What the documentation says, where the code does otherwise.             *)

\* doc/lmbench3.ms: "during any timing interval of any child it is guaranteed
\* that all other child processes are also running the benchmark".  The code
\* sends `ready' before the first initialize(iterations) and benchmark().
OthersRunBenchmark ==
    \A c, d \in Child :
        cpc[c] = "bench" /\ state[c] = "timing_interval" => cpc[d] # "first"

\* benchmp_parent(): "we allow children to die now, without it causing an
\* error".  If all have died the write of the exit signals kills the parent.
DeathsAllowed == [][ppc = "release" => ppc' # "killed"]_vars

\* benchmp(): "If they haven't died by that time, then we start killing
\* them."  In a nested call the error exit waits for a child that ignores
\* SIGTERM, without an alarm.
ErrorsEnd == (ppc = "parErr") ~> (ppc = "returned")
=============================================================================
