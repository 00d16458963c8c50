--------------------------- MODULE BenchMPProofs ---------------------------
(***************************************************************************)
(* Proofs about benchmp(), for any number of children, repetitions and     *)
(* failures: the start barrier; the result barrier, the signals and the    *)
(* reports; and that BenchMP implements Harness.                           *)
(***************************************************************************)
EXTENDS BenchMP, FiniteSetTheorems, TLAPS

LEMMA ChildFinite == IsFiniteSet(Child) /\ Cardinality(Child) = P
  BY HarnessAssumption, FS_Interval DEF Child

-----------------------------------------------------------------------------
(* Type correctness.  The actions that write to the response pipe first.   *)

\* What a child writes is a message.
LEMMA MessageTypes ==
  ASSUME NEW c \in Child
  PROVE  /\ Signal("ready", c) \in Message /\ Signal("done", c) \in Message
         /\ \A part \in 0..Chunks : Piece(c, part) \in Message
  BY HarnessAssumption DEF Signal, Piece, Message

LEMMA DieType ==
  ASSUME TypeOK, NEW c \in Child, Die(c), UNCHANGED faults,
         response' \in Seq(Message), start_signal' \in Nat,
         result_signal' \in Nat, exit_signal' \in Nat
  PROVE  TypeOK'
  BY DEF TypeOK, Die, Watching, ParentPc, ChildPc

LEMMA PollWarmupType ==
  ASSUME TypeOK, NEW c \in Child, PollWarmup(c)
  PROVE  TypeOK'
<1>1. /\ start_signal' \in Nat /\ result_signal' \in Nat
      /\ exit_signal' \in Nat /\ UNCHANGED faults
  BY DEF PollWarmup, TypeOK
<1>2. response \in Seq(Message)
  BY DEF TypeOK
<1>3. CASE need_warmup[c] /\ Closed
  <2>1. Die(c) /\ UNCHANGED response
    BY <1>3 DEF PollWarmup
  <2>. QED
    BY <1>1, <1>2, <2>1, DieType
<1>4. CASE ~(need_warmup[c] /\ Closed)
  <2>1. \/ response' = response
        \/ response' = Append(response, Signal("ready", c))
    BY <1>4 DEF PollWarmup
  <2>2. response' \in Seq(Message)
    BY <1>2, <2>1, MessageTypes
  <2>3. /\ state' \in [Child -> {"warmup", "timing_interval", "cooldown"}]
        /\ need_warmup' \in [Child -> BOOLEAN]
        /\ cpc' \in [Child -> ChildPc]
    BY <1>4 DEF PollWarmup, TypeOK, ChildPc
  <2>4. UNCHANGED <<parentVars, runs, short, wrote, cterm, pend>>
    BY <1>4 DEF PollWarmup
  <2>. QED
    BY <1>1, <2>2, <2>3, <2>4 DEF TypeOK, parentVars
<1>. QED
  BY <1>3, <1>4

LEMMA PollTimingType ==
  ASSUME TypeOK, Counters, NEW c \in Child, PollTiming(c)
  PROVE  TypeOK'
<1>1. PICK longEnough \in BOOLEAN : Measured(c, longEnough)
  BY DEF PollTiming
<1>. DEFINE counts == P > 1 \/ longEnough
            r == IF counts THEN runs[c] + 1 ELSE runs[c]
            s == IF counts THEN short[c] ELSE short[c] + 1
            finished == (counts /\ r >= Reps) \/ s >= MaxShort
<1>2. /\ start_signal' \in Nat /\ result_signal' \in Nat
      /\ exit_signal' \in Nat /\ UNCHANGED faults
      /\ response \in Seq(Message)
  BY DEF PollTiming, TypeOK
<1>3. r \in 0..Reps /\ s \in 0..MaxShort
  BY HarnessAssumption DEF PollTiming, TypeOK, Counters
<1>4. CASE finished /\ Closed
  <2>1. Die(c) /\ UNCHANGED response
    BY <1>1, <1>4 DEF Measured
  <2>. QED
    BY <1>2, <2>1, DieType
<1>5. CASE ~(finished /\ Closed)
  <2>1. /\ runs' = [runs EXCEPT ![c] = r]
        /\ short' = [short EXCEPT ![c] = s]
        /\ state' = [state EXCEPT ![c] =
                       IF finished THEN "cooldown" ELSE state[c]]
        /\ response' = IF finished THEN Append(response, Signal("done", c))
                                   ELSE response
        /\ cpc' = [cpc EXCEPT ![c] = "reinit"]
        /\ UNCHANGED <<parentVars, need_warmup, wrote, cterm, pend>>
    BY <1>1, <1>5 DEF Measured
  <2>. HIDE DEF r, s, finished
  <2>2. response' \in Seq(Message)
    BY <1>2, <2>1, MessageTypes
  <2>3. /\ runs' \in [Child -> 0..Reps] /\ short' \in [Child -> 0..MaxShort]
        /\ state' \in [Child -> {"warmup", "timing_interval", "cooldown"}]
        /\ cpc' \in [Child -> ChildPc]
    BY <1>3, <2>1 DEF TypeOK, ChildPc
  <2>. QED
    BY <1>2, <2>1, <2>2, <2>3 DEF TypeOK, parentVars
<1>. QED
  BY <1>4, <1>5

LEMMA ReportType ==
  ASSUME TypeOK, Counters, NEW c \in Child, Report(c)
  PROVE  TypeOK'
<1>1. /\ start_signal' \in Nat /\ result_signal' \in Nat
      /\ exit_signal' \in Nat /\ UNCHANGED faults
      /\ response \in Seq(Message)
  BY DEF Report, TypeOK
<1>2. wrote[c] + 1 \in 0..Chunks
  BY HarnessAssumption DEF Report, TypeOK, Counters
<1>3. CASE Closed
  <2>1. Die(c) /\ UNCHANGED response
    BY <1>3 DEF Report
  <2>. QED
    BY <1>1, <2>1, DieType
<1>4. CASE ~Closed
  <2>1. /\ response' = Append(response, Piece(c, wrote[c] + 1))
        /\ wrote' = [wrote EXCEPT ![c] = wrote[c] + 1]
        /\ UNCHANGED <<parentVars, state, need_warmup, runs, short, cterm,
                       pend>>
    BY <1>4 DEF Report
  <2>2. response' \in Seq(Message)
    BY <1>1, <1>2, <2>1, MessageTypes
  <2>3. wrote' \in [Child -> 0..Chunks] /\ cpc' \in [Child -> ChildPc]
    BY <1>2, <1>4, <2>1 DEF Report, TypeOK, ChildPc
  <2>. QED
    BY <1>1, <2>1, <2>2, <2>3 DEF TypeOK, parentVars
<1>. QED
  BY <1>3, <1>4

LEMMA TypeStep == TypeOK /\ Counters /\ [Next]_vars => TypeOK'
<1> USE HarnessAssumption DEF TypeOK, ParentPc, ChildPc, Counters
<1> USE DEF parentVars, pipeVars, childVars
<1>1. ASSUME TypeOK, Counters, ForkCheck PROVE TypeOK'
  BY <1>1 DEF ForkCheck
<1>2. ASSUME TypeOK, Counters, Fork PROVE TypeOK'
  <2>1. pi + 1 \in Child /\ pi + 1 \in 0..P
    BY <1>2 DEF Fork, Child
  <2>. QED
    BY <1>2, <2>1 DEF Fork
<1>3. ASSUME TypeOK, Counters, ForkedAll PROVE TypeOK'
  BY <1>3 DEF ForkedAll
<1>4. ASSUME TypeOK, Counters, ForkErrKill PROVE TypeOK'
  BY <1>4 DEF ForkErrKill, Alive, Gone
<1>5. ASSUME TypeOK, Counters, ForkErrWait PROVE TypeOK'
  BY <1>5 DEF ForkErrWait
<1>6. ASSUME TypeOK, Counters, Check PROVE TypeOK'
  BY <1>6 DEF Check
<1>7. ASSUME TypeOK, Counters, Abandon PROVE TypeOK'
  BY <1>7 DEF Abandon
<1>8. ASSUME TypeOK, Counters, ReadyAll PROVE TypeOK'
  BY <1>8 DEF ReadyAll
<1>9. ASSUME TypeOK, Counters, Start PROVE TypeOK'
  BY <1>9 DEF Start
<1>10. ASSUME TypeOK, Counters, DoneAll PROVE TypeOK'
  BY <1>10 DEF DoneAll
<1>11. ASSUME TypeOK, Counters, Ask PROVE TypeOK'
  BY <1>11 DEF Ask
<1>12. ASSUME TypeOK, Counters, Gather PROVE TypeOK'
  BY <1>12 DEF Gather, AtMost
<1>13. ASSUME TypeOK, Counters, Merge PROVE TypeOK'
  <2>1. buf[1] \in Message
    BY <1>13 DEF Merge
  <2>2. buf[1].from \in Child
    BY <2>1 DEF Message
  <2>. QED
    BY <1>13, <2>2 DEF Merge
<1>14. ASSUME TypeOK, Counters, CollectedAll PROVE TypeOK'
  BY <1>14 DEF CollectedAll
<1>15. ASSUME TypeOK, Counters, IgnoreDeaths PROVE TypeOK'
  BY <1>15 DEF IgnoreDeaths
<1>16. ASSUME TypeOK, Counters, Release PROVE TypeOK'
  <2>1. /\ ppc' = "release" \/ ppc' \in ParentPc
        /\ exit_signal' \in Nat
    BY <1>16 DEF Release
  <2>. QED
    BY <1>16, <2>1 DEF Release
<1>17. ASSUME TypeOK, Counters, SigPipe PROVE TypeOK'
  BY <1>17 DEF SigPipe
<1>18. ASSUME TypeOK, Counters, ParErrKill PROVE TypeOK'
  BY <1>18 DEF ParErrKill, Alive, Gone
<1>19. ASSUME TypeOK, Counters, ParErrWait PROVE TypeOK'
  BY <1>19 DEF ParErrWait
<1>20. ASSUME TypeOK, Counters, Reap PROVE TypeOK'
  <2>1. CASE pi = 0
    BY <1>20, <2>1 DEF Reap
  <2>2. CASE pi # 0
    <3>1. pi - 1 \in 0..P
      BY <1>20, <2>2
    <3>. QED
      BY <1>20, <2>2, <3>1 DEF Reap
  <2>. QED
    BY <2>1, <2>2
<1>21. ASSUME TypeOK, Counters, CollectSignals("ready") PROVE TypeOK'
  BY <1>21 DEF CollectSignals, AtMost
<1>22. ASSUME TypeOK, Counters, CollectSignals("done") PROVE TypeOK'
  BY <1>22 DEF CollectSignals, AtMost
<1>23. ASSUME TypeOK, Counters, Alarm PROVE TypeOK'
  BY <1>23 DEF Alarm, Alive, Gone
<1>24. ASSUME TypeOK, Counters, ForkFails PROVE TypeOK'
  BY <1>24 DEF ForkFails, Fault
<1>25. ASSUME TypeOK, Counters, MallocFails PROVE TypeOK'
  BY <1>25 DEF MallocFails, Fault
<1>26. ASSUME TypeOK, Counters, ParentTerm PROVE TypeOK'
  BY <1>26 DEF ParentTerm, Fault
<1>27. ASSUME TypeOK, Counters, ParentKilled PROVE TypeOK'
  BY <1>27 DEF ParentKilled, Fault
<1>28. ASSUME TypeOK, Counters, Finished PROVE TypeOK'
  BY <1>28 DEF Finished, vars
<1>29. ASSUME TypeOK, Counters, NEW c \in Child, Initialized(c) PROVE TypeOK'
  BY <1>29 DEF Initialized, Die, Watching
<1>30. ASSUME TypeOK, Counters, NEW c \in Child, GiveUp(c) PROVE TypeOK'
  BY <1>30 DEF GiveUp, Die, Watching
<1>31. ASSUME TypeOK, Counters, NEW c \in Child, PollWarmup(c) PROVE TypeOK'
  BY <1>31, PollWarmupType
<1>32. ASSUME TypeOK, Counters, NEW c \in Child, PollTiming(c) PROVE TypeOK'
  BY <1>32, PollTimingType
<1>33. ASSUME TypeOK, Counters, NEW c \in Child, PollCooldown(c) PROVE TypeOK'
  BY <1>33 DEF PollCooldown
<1>34. ASSUME TypeOK, Counters, NEW c \in Child, TakeResultSignal(c) PROVE TypeOK'
  BY <1>34 DEF TakeResultSignal
<1>35. ASSUME TypeOK, Counters, NEW c \in Child, Report(c) PROVE TypeOK'
  BY <1>35, ReportType
<1>36. ASSUME TypeOK, Counters, NEW c \in Child, Advance(c) PROVE TypeOK'
  BY <1>36 DEF Advance
<1>37. ASSUME TypeOK, Counters, NEW c \in Child, Exit(c) PROVE TypeOK'
  BY <1>37 DEF Exit, Die, Watching
<1>38. ASSUME TypeOK, Counters, NEW c \in Child, Terminated(c) PROVE TypeOK'
  BY <1>38 DEF Terminated, Die, Watching
<1>39. ASSUME TypeOK, Counters, NEW c \in Child, Crash(c) PROVE TypeOK'
  BY <1>39 DEF Crash, Die, Watching, Fault, Alive, Gone
<1>40. ASSUME TypeOK, Counters, UNCHANGED vars PROVE TypeOK'
  BY <1>40 DEF vars
<1>. QED
  BY <1>1, <1>2, <1>3, <1>4, <1>5, <1>6, <1>7, <1>8, <1>9, <1>10, <1>11,
     <1>12, <1>13, <1>14, <1>15, <1>16, <1>17, <1>18, <1>19, <1>20, <1>21,
     <1>22, <1>23, <1>24, <1>25, <1>26, <1>27, <1>28, <1>29, <1>30, <1>31,
     <1>32, <1>33, <1>34, <1>35, <1>36, <1>37, <1>38, <1>39, <1>40
     DEF Next, ParentStep, ChildStep

-----------------------------------------------------------------------------
(* Counters.                                                               *)

LEMMA DieCounters ==
  ASSUME TypeOK, Counters, NEW c \in Child, Die(c)
  PROVE  Counters'
  BY DEF TypeOK, Counters, Die

LEMMA PollWarmupCounters ==
  ASSUME TypeOK, Counters, NEW c \in Child, PollWarmup(c)
  PROVE  Counters'
<1>1. CASE need_warmup[c] /\ Closed
  <2>1. Die(c)
    BY <1>1 DEF PollWarmup
  <2>. QED
    BY <2>1, DieCounters
<1>2. CASE ~(need_warmup[c] /\ Closed)
  <2>1. /\ UNCHANGED <<ppc, pi, runs, short, wrote>>
        /\ state' = [state EXCEPT ![c] = state'[c]]
        /\ cpc' = [cpc EXCEPT ![c] = cpc'[c]]
        /\ cpc[c] = "poll" /\ cpc'[c] \in {"first", "reinit"}
        /\ state[c] = "warmup" /\ state'[c] \in {"warmup", "timing_interval"}
    BY <1>2 DEF PollWarmup, TypeOK, parentVars
  <2>. QED
    BY <2>1, HarnessAssumption DEF TypeOK, Counters
<1>. QED
  BY <1>1, <1>2

LEMMA PollTimingCounters ==
  ASSUME TypeOK, Counters, NEW c \in Child, PollTiming(c)
  PROVE  Counters'
<1>1. PICK longEnough \in BOOLEAN : Measured(c, longEnough)
  BY DEF PollTiming
<1>. DEFINE counts == P > 1 \/ longEnough
            r == IF counts THEN runs[c] + 1 ELSE runs[c]
            s == IF counts THEN short[c] ELSE short[c] + 1
            finished == (counts /\ r >= Reps) \/ s >= MaxShort
<1>2. CASE finished /\ Closed
  <2>1. Die(c)
    BY <1>1, <1>2 DEF Measured
  <2>. QED
    BY <2>1, DieCounters
<1>3. CASE ~(finished /\ Closed)
  <2>1. /\ runs' = [runs EXCEPT ![c] = r]
        /\ short' = [short EXCEPT ![c] = s]
        /\ state' = [state EXCEPT ![c] =
                       IF finished THEN "cooldown" ELSE state[c]]
        /\ cpc' = [cpc EXCEPT ![c] = "reinit"]
        /\ UNCHANGED <<ppc, pi, wrote>>
        /\ cpc[c] = "poll" /\ state[c] = "timing_interval"
    BY <1>1, <1>3 DEF Measured, PollTiming, parentVars
  <2>2. finished \/ (r < Reps /\ s < MaxShort)
    BY HarnessAssumption DEF TypeOK, Counters, PollTiming
  <2>3. r \in Nat /\ s \in Nat
    BY DEF TypeOK
  <2>. HIDE DEF r, s, finished
  <2>4. state'[c] = "cooldown" \/ (r < Reps /\ s < MaxShort)
    BY <2>1, <2>2 DEF TypeOK
  <2>5. state'[c] # "warmup"
    BY <2>1 DEF TypeOK
  <2>6. runs'[c] = r /\ short'[c] = s /\ cpc'[c] = "reinit" /\ wrote'[c] = 0
    BY <2>1 DEF TypeOK, Counters
  <2>7. \A d \in Child \ {c} :
          /\ runs'[d] = runs[d] /\ short'[d] = short[d]
          /\ state'[d] = state[d] /\ cpc'[d] = cpc[d]
    BY <2>1 DEF TypeOK
  <2>. QED
    BY <2>1, <2>4, <2>5, <2>6, <2>7 DEF Counters
<1>. QED
  BY <1>2, <1>3

LEMMA ReportCounters ==
  ASSUME TypeOK, Counters, NEW c \in Child, Report(c)
  PROVE  Counters'
<1>1. CASE Closed
  <2>1. Die(c)
    BY <1>1 DEF Report
  <2>. QED
    BY <2>1, DieCounters
<1>2. CASE ~Closed
  <2>1. /\ wrote' = [wrote EXCEPT ![c] = wrote[c] + 1]
        /\ cpc' = [cpc EXCEPT ![c] = IF wrote[c] + 1 = Chunks
                                     THEN "final" ELSE "report"]
        /\ UNCHANGED <<ppc, pi, state, runs, short>>
    BY <1>2 DEF Report, parentVars
  <2>2. wrote[c] + 1 <= Chunks
    BY HarnessAssumption DEF Report, TypeOK, Counters
  <2>. QED
    BY <2>1, <2>2, HarnessAssumption DEF TypeOK, Counters
<1>. QED
  BY <1>1, <1>2

LEMMA InitializedCounters ==
  ASSUME TypeOK, Counters, NEW c \in Child, Initialized(c)
  PROVE  Counters'
<1>1. CASE c \in cterm
  <2>1. Die(c)
    BY <1>1 DEF Initialized
  <2>. QED
    BY <2>1, DieCounters
<1>2. CASE c \notin cterm
  <2>1. /\ cpc' = [cpc EXCEPT ![c] = "poll"] /\ cpc[c] = "init"
        /\ UNCHANGED <<ppc, pi, state, runs, short, wrote>>
    BY <1>2 DEF Initialized, parentVars
  <2>. QED
    BY <2>1 DEF TypeOK, Counters
<1>. QED
  BY <1>1, <1>2

LEMMA TerminatedCounters ==
  ASSUME TypeOK, Counters, NEW c \in Child, Terminated(c)
  PROVE  Counters'
<1>1. CASE cpc[c] = "init" \/ Nested
  <2>1. UNCHANGED <<ppc, pi, cpc, state, runs, short, wrote>>
    BY <1>1 DEF Terminated, parentVars
  <2>. QED
    BY <2>1 DEF Counters
<1>2. CASE ~(cpc[c] = "init" \/ Nested)
  <2>1. Die(c)
    BY <1>2 DEF Terminated
  <2>. QED
    BY <2>1, DieCounters
<1>. QED
  BY <1>1, <1>2

\* GiveUp, Exit and Crash change these variables as Die does.
LEMMA DeathCounters ==
  ASSUME TypeOK, Counters, NEW c \in Child, GiveUp(c) \/ Exit(c) \/ Crash(c)
  PROVE  Counters'
<1>1. Die(c)
  BY DEF GiveUp, Exit, Crash
<1>. QED
  BY <1>1, DieCounters

LEMMA AdvanceCounters ==
  ASSUME TypeOK, Counters, NEW c \in Child, Advance(c)
  PROVE  Counters'
<1>1. /\ cpc' = [cpc EXCEPT ![c] = cpc'[c]]
      /\ UNCHANGED <<ppc, pi, state, runs, short, wrote>>
  BY DEF Advance, TypeOK, parentVars
<1>2. \/ cpc[c] = "final" /\ cpc'[c] = "wait"
      \/ cpc[c] \in {"first", "reinit", "bench"} /\ cpc'[c] \in {"bench", "poll"}
  BY DEF Advance, TypeOK
<1>. QED
  BY <1>1, <1>2 DEF TypeOK, Counters

LEMMA CountersStep == TypeOK /\ Counters /\ Buried /\ [Next]_vars => Counters'
<1> USE DEF parentVars, childVars
<1>1. ASSUME TypeOK, Counters, Buried, ForkCheck PROVE Counters'
  BY <1>1 DEF TypeOK, Counters, ForkCheck
<1>2. ASSUME TypeOK, Counters, Buried, Fork PROVE Counters'
  <2>1. /\ cpc[pi + 1] = "unborn" /\ pi + 1 \in Child
        /\ cpc' = [cpc EXCEPT ![pi + 1] = "init"]
        /\ UNCHANGED <<state, runs, short, wrote>>
    <3>1. ppc = "forking" /\ pi \in 0..P /\ pi < P /\ P \in Nat
      BY <1>2, HarnessAssumption DEF Counters, TypeOK, Fork
    <3>2. pi + 1 \in Child /\ pi + 1 > pi
      BY <3>1 DEF Child
    <3>. QED
      BY <1>2, <3>1, <3>2 DEF Buried, Fork
  <2>2. \A c \in Child : cpc'[c] \in {cpc[c], "init"} /\
                         (cpc'[c] # cpc[c] => cpc[c] = "unborn")
    BY <2>1, <1>2 DEF TypeOK
  <2>3. ppc' = "fork"
    BY <1>2 DEF TypeOK, Counters, Fork
  <2>4. \A c \in Child : cpc'[c] # cpc[c] => wrote[c] = 0
    BY <2>2, <1>2 DEF Counters
  <2>. QED
    BY <1>2, <2>1, <2>2, <2>3, <2>4 DEF Counters
<1>3. ASSUME TypeOK, Counters, Buried, ForkedAll PROVE Counters'
  BY <1>3 DEF TypeOK, Counters, ForkedAll
<1>4. ASSUME TypeOK, Counters, Buried, ForkErrKill PROVE Counters'
  BY <1>4 DEF TypeOK, Counters, ForkErrKill, Alive, Gone
<1>5. ASSUME TypeOK, Counters, Buried, ForkErrWait PROVE Counters'
  BY <1>5 DEF TypeOK, Counters, ForkErrWait
<1>6. ASSUME TypeOK, Counters, Buried, Check PROVE Counters'
  BY <1>6 DEF TypeOK, Counters, Check
<1>7. ASSUME TypeOK, Counters, Buried, Abandon PROVE Counters'
  BY <1>7 DEF TypeOK, Counters, Abandon
<1>8. ASSUME TypeOK, Counters, Buried, ReadyAll PROVE Counters'
  BY <1>8 DEF TypeOK, Counters, ReadyAll
<1>9. ASSUME TypeOK, Counters, Buried, Start PROVE Counters'
  BY <1>9 DEF TypeOK, Counters, Start
<1>10. ASSUME TypeOK, Counters, Buried, DoneAll PROVE Counters'
  BY <1>10 DEF TypeOK, Counters, DoneAll
<1>11. ASSUME TypeOK, Counters, Buried, Ask PROVE Counters'
  BY <1>11 DEF TypeOK, Counters, Ask
<1>12. ASSUME TypeOK, Counters, Buried, Gather PROVE Counters'
  BY <1>12 DEF TypeOK, Counters, Gather, AtMost
<1>13. ASSUME TypeOK, Counters, Buried, Merge PROVE Counters'
  BY <1>13 DEF TypeOK, Counters, Merge
<1>14. ASSUME TypeOK, Counters, Buried, CollectedAll PROVE Counters'
  BY <1>14 DEF TypeOK, Counters, CollectedAll
<1>15. ASSUME TypeOK, Counters, Buried, IgnoreDeaths PROVE Counters'
  BY <1>15 DEF TypeOK, Counters, IgnoreDeaths
<1>16. ASSUME TypeOK, Counters, Buried, Release PROVE Counters'
  BY <1>16 DEF TypeOK, Counters, Release
<1>17. ASSUME TypeOK, Counters, Buried, SigPipe PROVE Counters'
  BY <1>17 DEF TypeOK, Counters, SigPipe
<1>18. ASSUME TypeOK, Counters, Buried, ParErrKill PROVE Counters'
  BY <1>18 DEF TypeOK, Counters, ParErrKill, Alive, Gone
<1>19. ASSUME TypeOK, Counters, Buried, ParErrWait PROVE Counters'
  BY <1>19 DEF TypeOK, Counters, ParErrWait
<1>20. ASSUME TypeOK, Counters, Buried, Reap PROVE Counters'
  BY <1>20 DEF TypeOK, Counters, Reap
<1>21. ASSUME TypeOK, Counters, Buried, CollectSignals("ready") PROVE Counters'
  BY <1>21 DEF TypeOK, Counters, CollectSignals, AtMost
<1>22. ASSUME TypeOK, Counters, Buried, CollectSignals("done") PROVE Counters'
  BY <1>22 DEF TypeOK, Counters, CollectSignals, AtMost
<1>23. ASSUME TypeOK, Counters, Buried, Alarm PROVE Counters'
  BY <1>23 DEF TypeOK, Counters, Alarm, Alive, Gone
<1>24. ASSUME TypeOK, Counters, Buried, ForkFails PROVE Counters'
  BY <1>24 DEF TypeOK, Counters, ForkFails, Fault
<1>25. ASSUME TypeOK, Counters, Buried, MallocFails PROVE Counters'
  BY <1>25 DEF TypeOK, Counters, MallocFails, Fault
<1>26. ASSUME TypeOK, Counters, Buried, ParentTerm PROVE Counters'
  BY <1>26 DEF TypeOK, Counters, ParentTerm, Fault
<1>27. ASSUME TypeOK, Counters, Buried, ParentKilled PROVE Counters'
  BY <1>27 DEF TypeOK, Counters, ParentKilled, Fault
<1>28. ASSUME TypeOK, Counters, Buried, Finished PROVE Counters'
  BY <1>28 DEF TypeOK, Counters, Finished, vars
<1>29. ASSUME TypeOK, Counters, Buried, NEW c \in Child, Initialized(c) PROVE Counters'
  BY <1>29, InitializedCounters
<1>30. ASSUME TypeOK, Counters, Buried, NEW c \in Child, GiveUp(c) PROVE Counters'
  BY <1>30, DeathCounters
<1>31. ASSUME TypeOK, Counters, Buried, NEW c \in Child, PollWarmup(c) PROVE Counters'
  BY <1>31, PollWarmupCounters
<1>32. ASSUME TypeOK, Counters, Buried, NEW c \in Child, PollTiming(c) PROVE Counters'
  BY <1>32, PollTimingCounters
<1>33. ASSUME TypeOK, Counters, Buried, NEW c \in Child, PollCooldown(c) PROVE Counters'
  <2>1. /\ UNCHANGED <<ppc, pi, state, runs, short, wrote>>
        /\ cpc' = [cpc EXCEPT ![c] = cpc'[c]]
        /\ cpc[c] = "poll" /\ cpc'[c] \in {"asked", "reinit"}
    BY <1>33 DEF PollCooldown, TypeOK
  <2>. QED
    BY <2>1, <1>33 DEF TypeOK, Counters
<1>34. ASSUME TypeOK, Counters, Buried, NEW c \in Child, TakeResultSignal(c) PROVE Counters'
  <2>1. /\ UNCHANGED <<ppc, pi, state, runs, short, wrote>>
        /\ cpc' = [cpc EXCEPT ![c] = "report"] /\ cpc[c] = "asked"
    BY <1>34 DEF TakeResultSignal
  <2>2. wrote[c] = 0 /\ 0 < Chunks
    BY <1>34, <2>1, HarnessAssumption DEF Counters
  <2>. QED
    BY <2>1, <2>2, <1>34 DEF TypeOK, Counters
<1>35. ASSUME TypeOK, Counters, Buried, NEW c \in Child, Report(c) PROVE Counters'
  BY <1>35, ReportCounters
<1>36. ASSUME TypeOK, Counters, Buried, NEW c \in Child, Advance(c) PROVE Counters'
  BY <1>36, AdvanceCounters
<1>37. ASSUME TypeOK, Counters, Buried, NEW c \in Child, Exit(c) PROVE Counters'
  BY <1>37, DeathCounters
<1>38. ASSUME TypeOK, Counters, Buried, NEW c \in Child, Terminated(c) PROVE Counters'
  BY <1>38, TerminatedCounters
<1>39. ASSUME TypeOK, Counters, Buried, NEW c \in Child, Crash(c) PROVE Counters'
  BY <1>39, DeathCounters
<1>40. ASSUME TypeOK, Counters, Buried, UNCHANGED vars PROVE Counters'
  BY <1>40 DEF TypeOK, Counters, vars
<1>. QED
  BY <1>1, <1>2, <1>3, <1>4, <1>5, <1>6, <1>7, <1>8, <1>9, <1>10, <1>11,
     <1>12, <1>13, <1>14, <1>15, <1>16, <1>17, <1>18, <1>19, <1>20, <1>21,
     <1>22, <1>23, <1>24, <1>25, <1>26, <1>27, <1>28, <1>29, <1>30, <1>31,
     <1>32, <1>33, <1>34, <1>35, <1>36, <1>37, <1>38, <1>39, <1>40
     DEF Next, ParentStep, ChildStep

-----------------------------------------------------------------------------
(* What a step of one child leaves alone.                                  *)

PendingAlive == \A d \in pend : cpc[d] \notin {"unborn", "dead"}

Frame(c) ==
  /\ UNCHANGED <<ppc, pi, published>>
  /\ cpc[c] \notin {"unborn", "dead"} /\ cpc'[c] # "unborn"
  /\ \A d \in Child \ {c} : cpc'[d] = cpc[d]
  /\ \A d \in pend' : d \in pend /\ cpc'[d] # "dead"

LEMMA ChildFrame ==
  ASSUME TypeOK, PendingAlive, NEW c \in Child,
         ChildStep(c) \/ Terminated(c) \/ Crash(c)
  PROVE  Frame(c)
<1>. USE DEF Frame, PendingAlive, TypeOK, parentVars
<1>1. CASE Initialized(c)
  BY <1>1 DEF Initialized, Die
<1>2. CASE GiveUp(c)
  BY <1>2 DEF GiveUp, Die
<1>3. CASE PollWarmup(c)
  <2>1. CASE need_warmup[c] /\ Closed
    BY <1>3, <2>1 DEF PollWarmup, Die
  <2>2. CASE ~(need_warmup[c] /\ Closed)
    BY <1>3, <2>2 DEF PollWarmup
  <2>. QED
    BY <2>1, <2>2
<1>4. CASE PollTiming(c)
  <2>1. PICK longEnough \in BOOLEAN : Measured(c, longEnough)
    BY <1>4 DEF PollTiming
  <2>2. Die(c) \/ (cpc' = [cpc EXCEPT ![c] = "reinit"]
                   /\ UNCHANGED <<parentVars, pend>>)
    BY <2>1 DEF Measured
  <2>3. cpc[c] = "poll"
    BY <1>4 DEF PollTiming
  <2>. QED
    BY <2>2, <2>3 DEF Die
<1>5. CASE PollCooldown(c)
  BY <1>5 DEF PollCooldown
<1>6. CASE TakeResultSignal(c)
  BY <1>6 DEF TakeResultSignal
<1>7. CASE Report(c)
  BY <1>7 DEF Report, Die
<1>8. CASE Advance(c)
  BY <1>8 DEF Advance
<1>9. CASE Exit(c)
  BY <1>9 DEF Exit, Die
<1>10. CASE Terminated(c)
  BY <1>10 DEF Terminated, Die
<1>11. CASE Crash(c)
  BY <1>11 DEF Crash, Die, Alive, Gone
<1>. QED
  BY <1>1, <1>2, <1>3, <1>4, <1>5, <1>6, <1>7,
     <1>8, <1>9, <1>10, <1>11 DEF ChildStep

-----------------------------------------------------------------------------
(* The parent's loops over its children.                                   *)

LEMMA BuriedChild ==
  ASSUME TypeOK, Buried, NEW c \in Child,
         ChildStep(c) \/ Terminated(c) \/ Crash(c)
  PROVE  Buried'
<1>1. Frame(c)
  BY ChildFrame DEF PendingAlive, Buried
<1>2. /\ UNCHANGED <<ppc, pi, published>>
      /\ \A d \in Child : d \in Gone => d \in Gone'
      /\ \A d \in Child : cpc[d] \in {"unborn", "dead"} => cpc'[d] = cpc[d]
      /\ c \notin Gone
  BY <1>1 DEF Frame, Gone
<1>3. pi \in 0..P /\ pend \subseteq Child
  BY DEF TypeOK
<1>4. \A d \in pend' : cpc'[d] \notin {"unborn", "dead"}
  BY <1>1, <1>3 DEF Frame, Buried
<1>5. /\ ppc \in {"fork", "forking"} =>
           \A d \in Child : d > pi => cpc'[d] = "unborn"
      /\ ppc \in {"forkErr", "forkErrWait"} =>
           \A d \in Child : d > pi => d \in Gone'
  BY <1>2 DEF Buried
<1>6. /\ ppc = "parErr" => \A d \in 1..pi : cpc'[d] = "dead"
      /\ ppc = "parErrWait" => \A d \in 1..(pi - 1) : cpc'[d] = "dead"
      /\ ppc = "reapOpen" => \A d \in Child : d > pi => cpc'[d] = "dead"
  BY <1>2, <1>3, HarnessAssumption DEF Buried, Child
<1>7. ppc \in {"reap", "returned"} => published
  BY <1>2 DEF Buried
<1>. QED
  BY <1>2, <1>4, <1>5, <1>6, <1>7 DEF Buried

LEMMA BuriedStep == TypeOK /\ Counters /\ Buried /\ [Next]_vars => Buried'
<1> USE HarnessAssumption DEF TypeOK, ChildPc, Child, Counters, Buried, Gone
<1> USE DEF parentVars, pipeVars, childVars
<1>1. ASSUME TypeOK, Counters, Buried, ForkCheck PROVE Buried'
  BY <1>1 DEF ForkCheck
<1>2. ASSUME TypeOK, Counters, Buried, Fork PROVE Buried'
  <2>1. /\ ppc = "forking" /\ ppc' = "fork" /\ pi' = pi + 1
        /\ cpc' = [cpc EXCEPT ![pi + 1] = "init"] /\ pend' = pend
    BY <1>2 DEF Fork
  <2>2. \A c \in Child : c > pi => cpc[c] = "unborn"
    BY <1>2, <2>1
  <2>3. pi + 1 \in Child
    BY <1>2, <2>1
  <2>4. \A c \in pend' : cpc'[c] \notin {"unborn", "dead"}
    BY <1>2, <2>1
  <2>5. \A c \in Child : c > pi' => cpc'[c] = "unborn"
    BY <1>2, <2>1, <2>2, <2>3
  <2>. QED
    BY <2>1, <2>4, <2>5
<1>3. ASSUME TypeOK, Counters, Buried, ForkedAll PROVE Buried'
  BY <1>3 DEF ForkedAll
<1>4. ASSUME TypeOK, Counters, Buried, ForkErrKill PROVE Buried'
  <2>1. CASE pi = 0
    <3>1. ppc = "forkErr" /\ ppc' = "returned" /\ UNCHANGED <<cpc, pend>>
      BY <1>4, <2>1 DEF ForkErrKill
    <3>2. \A c \in Child : c \in Gone
      <4>1. \A c \in Child : c > pi
        BY <2>1
      <4>. QED  BY <1>4, <3>1, <4>1
    <3>. QED
      BY <1>4, <3>1, <3>2
  <2>2. CASE pi # 0
    <3>1. pend' = pend \cup ({pi} \cap Alive) /\ UNCHANGED <<pi, cpc>>
          /\ ppc' = "forkErrWait" /\ ppc = "forkErr"
      BY <1>4, <2>2 DEF ForkErrKill
    <3>2. \A c \in pend' : cpc[c] \notin {"unborn", "dead"}
      BY <1>4, <3>1 DEF Alive
    <3>. QED
      BY <1>4, <3>1, <3>2
  <2>. QED
    BY <2>1, <2>2
<1>5. ASSUME TypeOK, Counters, Buried, ForkErrWait PROVE Buried'
  <2>1. pi \in Child /\ pi - 1 \in 0..P
    BY <1>5 DEF ForkErrWait
  <2>2. \A c \in Child : c > pi - 1 => c \in Gone
    BY <1>5, <2>1 DEF ForkErrWait
  <2>. QED
    BY <1>5, <2>2 DEF ForkErrWait, Alive
<1>6. ASSUME TypeOK, Counters, Buried, Check PROVE Buried'
  BY <1>6 DEF Check
<1>7. ASSUME TypeOK, Counters, Buried, Abandon PROVE Buried'
  BY <1>7 DEF Abandon
<1>8. ASSUME TypeOK, Counters, Buried, ReadyAll PROVE Buried'
  BY <1>8 DEF ReadyAll
<1>9. ASSUME TypeOK, Counters, Buried, Start PROVE Buried'
  BY <1>9 DEF Start
<1>10. ASSUME TypeOK, Counters, Buried, DoneAll PROVE Buried'
  BY <1>10 DEF DoneAll
<1>11. ASSUME TypeOK, Counters, Buried, Ask PROVE Buried'
  BY <1>11 DEF Ask
<1>12. ASSUME TypeOK, Counters, Buried, Gather PROVE Buried'
  BY <1>12 DEF Gather, AtMost
<1>13. ASSUME TypeOK, Counters, Buried, Merge PROVE Buried'
  BY <1>13 DEF Merge
<1>14. ASSUME TypeOK, Counters, Buried, CollectedAll PROVE Buried'
  BY <1>14 DEF CollectedAll
<1>15. ASSUME TypeOK, Counters, Buried, IgnoreDeaths PROVE Buried'
  BY <1>15 DEF IgnoreDeaths
<1>16. ASSUME TypeOK, Counters, Buried, Release PROVE Buried'
  BY <1>16 DEF Release
<1>17. ASSUME TypeOK, Counters, Buried, SigPipe PROVE Buried'
  BY <1>17 DEF SigPipe
<1>18. ASSUME TypeOK, Counters, Buried, ParErrKill PROVE Buried'
  <2>1. CASE pi = P
    BY <1>18, <2>1 DEF ParErrKill
  <2>2. CASE pi # P
    <3>1. \A c \in pend' : cpc[c] \notin {"unborn", "dead"}
      BY <1>18, <2>2 DEF ParErrKill, Alive
    <3>. QED
      BY <1>18, <2>2, <3>1 DEF ParErrKill
  <2>. QED
    BY <2>1, <2>2
<1>19. ASSUME TypeOK, Counters, Buried, ParErrWait PROVE Buried'
  <2>1. \A c \in 1..pi : cpc[c] = "dead"
    <3>1. cpc[pi] = "dead" /\ pi \in Nat
      BY <1>19 DEF ParErrWait
    <3>2. \A c \in 1..(pi - 1) : cpc[c] = "dead"
      BY <1>19 DEF ParErrWait
    <3>. QED
      BY ONLY <3>1, <3>2
  <2>2. /\ ppc' = "parErr" /\ UNCHANGED <<pi, published, cpc, pend>>
    BY <1>19 DEF ParErrWait
  <2>. QED
    BY <1>19, <2>1, <2>2
<1>20. ASSUME TypeOK, Counters, Buried, Reap PROVE Buried'
  <2>1. CASE pi = 0
    BY <1>20, <2>1 DEF Reap, Alive
  <2>2. CASE pi # 0
    <3>1. \A c \in Child : c > pi - 1 => c = pi \/ c > pi
      BY <1>20
    <3>2. UNCHANGED <<ppc, cpc, pend, published>> /\ pi' = pi - 1
      BY <1>20, <2>2 DEF Reap
    <3>3. cpc[pi] = "dead"
      BY <1>20, <2>2 DEF Reap
    <3>4. ppc = "reapOpen" => \A c \in Child : c > pi' => cpc'[c] = "dead"
      BY <1>20, <3>1, <3>2, <3>3
    <3>5. ppc \in {"reap", "reapOpen"}
      BY <1>20 DEF Reap
    <3>6. ppc = "reap" => published \/ \A c \in Child : c \in Gone
      BY <1>20
    <3>7. \A c \in pend : cpc[c] \notin {"unborn", "dead"}
      BY <1>20
    <3>. HIDE DEF TypeOK, Counters, ChildPc, Child
    <3>. QED
      BY <3>2, <3>4, <3>5, <3>6, <3>7
  <2>. QED
    BY <2>1, <2>2
<1>21. ASSUME TypeOK, Counters, Buried, CollectSignals("ready") PROVE Buried'
  BY <1>21 DEF CollectSignals, AtMost
<1>22. ASSUME TypeOK, Counters, Buried, CollectSignals("done") PROVE Buried'
  BY <1>22 DEF CollectSignals, AtMost
<1>23. ASSUME TypeOK, Counters, Buried, Alarm PROVE Buried'
  BY <1>23 DEF Alarm, Alive, Gone
<1>24. ASSUME TypeOK, Counters, Buried, ForkFails PROVE Buried'
  BY <1>24 DEF ForkFails, Fault
<1>25. ASSUME TypeOK, Counters, Buried, MallocFails PROVE Buried'
  BY <1>25 DEF MallocFails, Fault
<1>26. ASSUME TypeOK, Counters, Buried, ParentTerm PROVE Buried'
  BY <1>26 DEF ParentTerm, Fault
<1>27. ASSUME TypeOK, Counters, Buried, ParentKilled PROVE Buried'
  BY <1>27 DEF ParentKilled, Fault
<1>28. ASSUME TypeOK, Counters, Buried, Finished PROVE Buried'
  BY <1>28 DEF Finished, vars
<1>29. ASSUME TypeOK, Counters, Buried, NEW c \in Child,
              ChildStep(c) \/ Terminated(c) \/ Crash(c)
       PROVE  Buried'
  BY <1>29, BuriedChild
<1>30. ASSUME TypeOK, Counters, Buried, UNCHANGED vars PROVE Buried'
  BY <1>30 DEF vars
<1>. QED
  BY <1>1, <1>2, <1>3, <1>4, <1>5, <1>6, <1>7, <1>8, <1>9, <1>10, <1>11,
     <1>12, <1>13, <1>14, <1>15, <1>16, <1>17, <1>18, <1>19, <1>20, <1>21,
     <1>22, <1>23, <1>24, <1>25, <1>26, <1>27, <1>28, <1>29, <1>30
     DEF Next, ParentStep

-----------------------------------------------------------------------------
(* The start barrier.                                                      *)

\* Any step of a child but a poll while warming up.
OtherStep(c) ==
  \/ Initialized(c) \/ GiveUp(c) \/ PollTiming(c) \/ PollCooldown(c)
  \/ TakeResultSignal(c) \/ Report(c) \/ Advance(c) \/ Exit(c)
  \/ Terminated(c) \/ Crash(c)

Quiet(c) ==
  /\ UNCHANGED <<need_warmup, start_signal>>
  /\ \A d \in Child : state'[d] = "warmup" <=> state[d] = "warmup"
  /\ state[c] = "warmup" /\ cpc[c] \notin Stopping =>
         /\ UNCHANGED response /\ cpc'[c] \notin Stopping
         /\ cpc[c] \in {"init", "poll"} => cpc'[c] \in {"poll", "init", "dead"}

LEMMA OtherStepQuiet ==
  ASSUME TypeOK, NEW c \in Child, OtherStep(c)
  PROVE  Quiet(c)
<1>. USE DEF Quiet, Stopping, TypeOK, parentVars, pipeVars
<1>1. CASE Initialized(c)
  BY <1>1 DEF Initialized, Die
<1>2. CASE GiveUp(c)
  BY <1>2 DEF GiveUp, Die
<1>3. CASE PollTiming(c)
  <2>1. PICK longEnough \in BOOLEAN : Measured(c, longEnough)
    BY <1>3 DEF PollTiming
  <2>2. UNCHANGED state \/ \E v \in {"timing_interval", "cooldown"} :
                              state' = [state EXCEPT ![c] = v]
    BY <1>3, <2>1 DEF PollTiming, Measured, Die
  <2>3. UNCHANGED <<need_warmup, start_signal>>
    BY <1>3, <2>1 DEF PollTiming, Measured, Die
  <2>. QED
    BY <1>3, <2>2, <2>3 DEF PollTiming
<1>4. CASE PollCooldown(c)
  BY <1>4 DEF PollCooldown
<1>5. CASE TakeResultSignal(c)
  BY <1>5 DEF TakeResultSignal
<1>6. CASE Report(c)
  BY <1>6 DEF Report, Die
<1>7. CASE Advance(c)
  BY <1>7 DEF Advance
<1>8. CASE Exit(c)
  BY <1>8 DEF Exit, Die
<1>9. CASE Terminated(c)
  BY <1>9 DEF Terminated, Die
<1>10. CASE Crash(c)
  BY <1>10 DEF Crash, Die, Alive, Gone
<1>. QED
  BY <1>1, <1>2, <1>3, <1>4, <1>5, <1>6, <1>7, <1>8, <1>9, <1>10 DEF OtherStep

LEMMA OtherStepReady ==
  ASSUME TypeOK, Buried, ReadyCounted, NEW c \in Child, OtherStep(c)
  PROVE  ReadyCounted'
<1>1. Frame(c) /\ Quiet(c)
  BY ChildFrame, OtherStepQuiet DEF OtherStep, ChildStep, PendingAlive, Buried
<1>2. Readied' = Readied
  BY <1>1 DEF Readied, Quiet
<1>3. \A d \in Child : need_warmup'[d] =>
         cpc'[d] \in {"unborn", "init", "poll", "dead"} /\ state'[d] = "warmup"
  <2>1. \A d \in Child : need_warmup[d] =>
          cpc[d] \in {"unborn", "init", "poll", "dead"} /\ state[d] = "warmup"
    BY DEF ReadyCounted
  <2>2. need_warmup[c] =>
          cpc'[c] \in {"unborn", "init", "poll", "dead"}
    BY <1>1, <2>1 DEF Frame, Quiet, Stopping
  <2>. QED
    BY <1>1, <2>1, <2>2 DEF Frame, Quiet
<1>4. ppc \in Starting =>
        /\ UNCHANGED <<start_signal, response>>
        /\ \A d \in Child : state'[d] = "warmup" /\ cpc'[d] \notin Stopping
  BY <1>1 DEF ReadyCounted, Frame, Quiet
<1>. QED
  BY <1>1, <1>2, <1>3, <1>4 DEF ReadyCounted, Frame, Quiet

LEMMA PollWarmupReady ==
  ASSUME TypeOK, Buried, ReadyCounted, NEW c \in Child, PollWarmup(c)
  PROVE  ReadyCounted'
<1>0. Frame(c) /\ cpc[c] = "poll" /\ state[c] = "warmup"
  BY ChildFrame DEF ChildStep, PendingAlive, Buried, PollWarmup
<1>1. CASE need_warmup[c] /\ Closed
  <2>1. UNCHANGED <<need_warmup, state, ppc, pi, published>>
        /\ start_signal' \in {start_signal, start_signal - 1}
        /\ (start_signal' > 0 => start_signal > 0)
        /\ cpc' = [cpc EXCEPT ![c] = "dead"]
        /\ ppc \notin Starting
    BY <1>1 DEF PollWarmup, Die, Closed, Starting, TypeOK
  <2>2. Readied' = Readied
    BY <2>1 DEF Readied
  <2>. QED
    BY <2>1, <2>2 DEF ReadyCounted, TypeOK
<1>2. CASE need_warmup[c] /\ ~Closed
  <2>1. Readied # Child
    BY <1>2 DEF Readied
  <2>2. start_signal = 0 /\ ppc \notin Running /\ ~published
    BY <2>1 DEF ReadyCounted, TypeOK
  <2>3. /\ UNCHANGED <<ppc, pi, published, start_signal>>
        /\ state' = [state EXCEPT ![c] = "warmup"]
        /\ need_warmup' = [need_warmup EXCEPT ![c] = FALSE]
        /\ response' = Append(response, Signal("ready", c))
        /\ cpc' = [cpc EXCEPT ![c] = "first"]
    BY <1>2, <2>2 DEF PollWarmup, parentVars
  <2>4. Readied' = Readied \cup {c} /\ c \notin Readied
    BY <1>2, <2>3 DEF Readied, TypeOK
  <2>5. IsFiniteSet(Readied)
    BY ChildFinite, FS_Subset DEF Readied
  <2>6. Cardinality(Readied') = Cardinality(Readied) + 1
    BY <2>4, <2>5, FS_AddElement
  <2>7. Len(response') = Len(response) + 1
    BY <2>3 DEF TypeOK
  <2>8. UNCHANGED state
    BY <1>0, <2>3 DEF TypeOK
  <2>9. Cardinality(Readied) \in Nat /\ Len(response) \in Nat /\ pi \in Nat
    BY <2>5, FS_CardinalityType DEF TypeOK
  <2>10. ppc \in Starting =>
           Cardinality(Readied') =
             Len(response') + IF ppc' = "ready" THEN pi' ELSE 0
    <3>1. ppc \in Starting =>
            Cardinality(Readied) =
              Len(response) + IF ppc = "ready" THEN pi ELSE 0
      BY DEF ReadyCounted
    <3>. QED
      BY <2>3, <2>6, <2>7, <2>9, <3>1
  <2>11. \A d \in Child : need_warmup'[d] =>
           /\ cpc'[d] \in {"unborn", "init", "poll", "dead"}
           /\ state'[d] = "warmup"
    BY <2>3, <2>8 DEF ReadyCounted, TypeOK
  <2>12. \A d \in Child : cpc[d] \notin Stopping => cpc'[d] \notin Stopping
    BY <2>3 DEF Stopping, TypeOK
  <2>13. ppc # "killed" => \A d \in Child : state[d] = "warmup"
    BY <2>1 DEF ReadyCounted
  <2>. QED
    BY <2>2, <2>3, <2>8, <2>10, <2>11, <2>12, <2>13 DEF ReadyCounted
<1>3. CASE ~need_warmup[c]
  <2>1. /\ UNCHANGED <<ppc, pi, published, response>>
        /\ start_signal' = IF start_signal > 0 THEN start_signal - 1
                                               ELSE start_signal
        /\ state' = [state EXCEPT ![c] = IF start_signal > 0 \/ Closed
                                    THEN "timing_interval" ELSE "warmup"]
        /\ need_warmup' = [need_warmup EXCEPT ![c] = FALSE]
        /\ cpc' = [cpc EXCEPT ![c] = "reinit"]
    BY <1>3 DEF PollWarmup, parentVars
  <2>2. Readied' = Readied
    BY <1>3, <2>1 DEF Readied, TypeOK
  <2>3. \A d \in Child : need_warmup'[d] =>
           /\ cpc'[d] \in {"unborn", "init", "poll", "dead"}
           /\ state'[d] = "warmup"
    BY <1>3, <2>1 DEF ReadyCounted, TypeOK
  <2>4. ppc \in Starting => ~(start_signal > 0 \/ Closed)
    BY DEF ReadyCounted, Starting, Closed
  <2>5. ppc \in Starting =>
          \A d \in Child : state'[d] = "warmup" /\ cpc'[d] \notin Stopping
    BY <2>1, <2>4 DEF ReadyCounted, TypeOK, Stopping
  <2>6. start_signal \in Nat
    BY DEF TypeOK
  <2>7. ppc # "killed" /\ (start_signal > 0 \/ Closed) => Readied = Child
    <3>1. ppc \in {"reap", "returned"} => published
      BY <1>0 DEF Buried, Gone
    <3>. QED
      BY <3>1 DEF ReadyCounted, Closed
  <2>8. ppc # "killed" => \A d \in Child : state'[d] # "warmup" => Readied = Child
    BY <2>1, <2>7 DEF ReadyCounted, TypeOK
  <2>. QED
    BY <2>1, <2>2, <2>3, <2>4, <2>5, <2>6, <2>8 DEF ReadyCounted
<1>. QED
  BY <1>1, <1>2, <1>3

LEMMA ReadyStep ==
  TypeOK /\ Counters /\ Buried /\ ReadyCounted /\ [Next]_vars => ReadyCounted'
<1> USE HarnessAssumption DEF Starting, Running, ReadyCounted, Readied
<1> USE DEF parentVars, pipeVars, childVars
<1>1. ASSUME TypeOK, Counters, Buried, ReadyCounted, ForkCheck
       PROVE  ReadyCounted'
  BY <1>1 DEF ForkCheck
<1>2. ASSUME TypeOK, Counters, Buried, ReadyCounted, Fork
       PROVE  ReadyCounted'
  <2>1. /\ cpc' = [cpc EXCEPT ![pi + 1] = "init"]
        /\ ppc = "forking" /\ ppc' = "fork"
        /\ UNCHANGED <<response, start_signal, state, need_warmup, published>>
    BY <1>2 DEF Fork
  <2>2. \A c \in Child : cpc'[c] \in {cpc[c], "init"}
    BY <1>2, <2>1 DEF TypeOK
  <2>. QED
    BY <1>2, <2>1, <2>2 DEF Stopping
<1>3. ASSUME TypeOK, Counters, Buried, ReadyCounted, ForkedAll
       PROVE  ReadyCounted'
  BY <1>3 DEF ForkedAll
<1>4. ASSUME TypeOK, Counters, Buried, ReadyCounted, ForkErrKill
       PROVE  ReadyCounted'
  BY <1>4 DEF ForkErrKill, Alive, Gone
<1>5. ASSUME TypeOK, Counters, Buried, ReadyCounted, ForkErrWait
       PROVE  ReadyCounted'
  BY <1>5 DEF ForkErrWait
<1>6. ASSUME TypeOK, Counters, Buried, ReadyCounted, Check
       PROVE  ReadyCounted'
  BY <1>6 DEF Check, Counters
<1>7. ASSUME TypeOK, Counters, Buried, ReadyCounted, Abandon
       PROVE  ReadyCounted'
  BY <1>7 DEF Abandon
<1>8. ASSUME TypeOK, Counters, Buried, ReadyCounted, ReadyAll
       PROVE  ReadyCounted'
  <2>1. Cardinality(Readied) >= P
    BY <1>8 DEF ReadyAll, TypeOK
  <2>2. Readied \subseteq Child
    BY DEF Readied
  <2>3. Readied = Child
    <3>1. Cardinality(Readied) <= P
      BY <2>2, ChildFinite, FS_Subset
    <3>2. Cardinality(Readied) = P
      BY <2>1, <2>2, <3>1, ChildFinite, FS_Subset, FS_CardinalityType
    <3>. QED
      BY <2>2, <3>2, ChildFinite, FS_Subset
  <2>. QED
    BY <1>8, <2>3 DEF ReadyAll
<1>9. ASSUME TypeOK, Counters, Buried, ReadyCounted, Start
       PROVE  ReadyCounted'
  BY <1>9 DEF Start
<1>10. ASSUME TypeOK, Counters, Buried, ReadyCounted, DoneAll
       PROVE  ReadyCounted'
  BY <1>10 DEF DoneAll
<1>11. ASSUME TypeOK, Counters, Buried, ReadyCounted, Ask
       PROVE  ReadyCounted'
  BY <1>11 DEF Ask
<1>12. ASSUME TypeOK, Counters, Buried, ReadyCounted, Gather
       PROVE  ReadyCounted'
  BY <1>12 DEF Gather, AtMost
<1>13. ASSUME TypeOK, Counters, Buried, ReadyCounted, Merge
       PROVE  ReadyCounted'
  BY <1>13 DEF Merge
<1>14. ASSUME TypeOK, Counters, Buried, ReadyCounted, CollectedAll
       PROVE  ReadyCounted'
  BY <1>14 DEF CollectedAll
<1>15. ASSUME TypeOK, Counters, Buried, ReadyCounted, IgnoreDeaths
       PROVE  ReadyCounted'
  BY <1>15 DEF IgnoreDeaths
<1>16. ASSUME TypeOK, Counters, Buried, ReadyCounted, Release
       PROVE  ReadyCounted'
  BY <1>16 DEF Release
<1>17. ASSUME TypeOK, Counters, Buried, ReadyCounted, SigPipe
       PROVE  ReadyCounted'
  BY <1>17 DEF SigPipe
<1>18. ASSUME TypeOK, Counters, Buried, ReadyCounted, ParErrKill
       PROVE  ReadyCounted'
  BY <1>18 DEF ParErrKill, Alive, Gone
<1>19. ASSUME TypeOK, Counters, Buried, ReadyCounted, ParErrWait
       PROVE  ReadyCounted'
  BY <1>19 DEF ParErrWait
<1>20. ASSUME TypeOK, Counters, Buried, ReadyCounted, Reap
       PROVE  ReadyCounted'
  BY <1>20 DEF Reap
<1>21. ASSUME TypeOK, Counters, Buried, ReadyCounted, CollectSignals("ready")
       PROVE  ReadyCounted'
  <2>. DEFINE k == AtMost(P - pi)
  <2>1. k \in 0..Len(response) /\ Len(response) \in Nat /\ pi \in Nat
    BY <1>21 DEF CollectSignals, AtMost, TypeOK
  <2>2. /\ response' = SubSeq(response, k + 1, Len(response))
        /\ pi' = pi + k /\ ppc = "ready" /\ ppc' = "ready"
        /\ UNCHANGED <<published, start_signal, childVars>>
    BY <1>21 DEF CollectSignals
  <2>. HIDE DEF k
  <2>3. Len(response') = Len(response) - k
    BY <1>21, <2>1, <2>2 DEF TypeOK
  <2>4. pi' = pi + k
    BY <2>2
  <2>5. Len(response') + pi' = Len(response) + pi
    <3>. HIDE DEF Readied, ReadyCounted
    <3>. QED
      BY <2>1, <2>3, <2>4
  <2>6. UNCHANGED <<published, start_signal, cpc, state, need_warmup>>
    BY <2>2
  <2>7. ppc = "ready" /\ ppc' = "ready"
    BY <2>2
  <2>. QED
    BY <1>21, <2>5, <2>6, <2>7
<1>22. ASSUME TypeOK, Counters, Buried, ReadyCounted, CollectSignals("done")
       PROVE  ReadyCounted'
  BY <1>22 DEF CollectSignals, AtMost
<1>23. ASSUME TypeOK, Counters, Buried, ReadyCounted, Alarm
       PROVE  ReadyCounted'
  BY <1>23 DEF Alarm
<1>24. ASSUME TypeOK, Counters, Buried, ReadyCounted, ForkFails
       PROVE  ReadyCounted'
  BY <1>24 DEF ForkFails, Fault
<1>25. ASSUME TypeOK, Counters, Buried, ReadyCounted, MallocFails
       PROVE  ReadyCounted'
  BY <1>25 DEF MallocFails, Fault
<1>26. ASSUME TypeOK, Counters, Buried, ReadyCounted, ParentTerm
       PROVE  ReadyCounted'
  BY <1>26 DEF ParentTerm, Fault
<1>27. ASSUME TypeOK, Counters, Buried, ReadyCounted, ParentKilled
       PROVE  ReadyCounted'
  BY <1>27 DEF ParentKilled, Fault
<1>28. ASSUME TypeOK, Counters, Buried, ReadyCounted, Finished
       PROVE  ReadyCounted'
  BY <1>28 DEF Finished, vars
<1>29. ASSUME TypeOK, Counters, Buried, ReadyCounted, NEW c \in Child,
              ChildStep(c) \/ Terminated(c) \/ Crash(c)
       PROVE  ReadyCounted'
  BY <1>29, PollWarmupReady, OtherStepReady DEF ChildStep, OtherStep
<1>30. ASSUME TypeOK, Counters, Buried, ReadyCounted, UNCHANGED vars
       PROVE  ReadyCounted'
  BY <1>30 DEF vars
<1>. QED
  BY <1>1, <1>2, <1>3, <1>4, <1>5, <1>6, <1>7, <1>8, <1>9, <1>10, <1>11,
     <1>12, <1>13, <1>14, <1>15, <1>16, <1>17, <1>18, <1>19, <1>20, <1>21,
     <1>22, <1>23, <1>24, <1>25, <1>26, <1>27, <1>28, <1>29, <1>30
     DEF Next, ParentStep

-----------------------------------------------------------------------------
(* The theorems.                                                           *)

LEMMA BarrierInit == Init => BarrierInv
<1>. SUFFICES ASSUME Init PROVE BarrierInv
  OBVIOUS
<1>. USE HarnessAssumption DEF Init
<1>1. TypeOK
  <2>1. /\ cpc \in [Child -> ChildPc]
        /\ state \in [Child -> {"warmup", "timing_interval", "cooldown"}]
        /\ need_warmup \in [Child -> BOOLEAN]
        /\ runs \in [Child -> 0..Reps] /\ short \in [Child -> 0..MaxShort]
        /\ wrote \in [Child -> 0..Chunks]
    BY DEF ChildPc
  <2>2. buf \in Seq(Message) /\ merged \in Seq(Child)
        /\ response \in Seq(Message)
    OBVIOUS
  <2>3. ppc \in ParentPc /\ pi \in 0..P /\ faults \in 0..MaxFaults
    BY DEF ParentPc
  <2>4. alarmed \in BOOLEAN /\ published \in BOOLEAN
    OBVIOUS
  <2>5. /\ start_signal \in Nat /\ result_signal \in Nat
        /\ exit_signal \in Nat
        /\ flags \subseteq {"TERM", "CHLD"}
        /\ cterm \subseteq Child /\ pend \subseteq Child
    OBVIOUS
  <2>. QED
    BY <2>1, <2>2, <2>3, <2>4, <2>5 DEF TypeOK
<1>2. Counters
  BY DEF Counters
<1>3. Buried
  BY DEF Buried
<1>4. ReadyCounted
  <2>1. Readied = {} /\ Readied # Child
    <3>1. 1 \in Child
      BY DEF Child
    <3>. QED
      BY <3>1 DEF Readied
  <2>2. Cardinality(Readied) = 0
    BY <2>1, FS_EmptySet
  <2>. QED
    BY <2>1, <2>2 DEF ReadyCounted, Running, Starting, Stopping
<1>. QED
  BY <1>1, <1>2, <1>3, <1>4 DEF BarrierInv

\* Every reachable state satisfies the inductive invariant of the start
\* barrier: benchmp_parent() counts every `ready' once, and its loops bury
\* every child they pass.
THEOREM BarrierInvariant == Spec => []BarrierInv
<1>1. BarrierInv /\ [Next]_vars => BarrierInv'
  BY TypeStep, CountersStep, BuriedStep, ReadyStep DEF BarrierInv
<1>. QED
  BY BarrierInit, <1>1, PTL DEF Spec

\* The variables of a call of benchmp() always have their types.
THEOREM TypeCorrect == Spec => []TypeOK
<1>1. BarrierInv => TypeOK
  BY DEF BarrierInv
<1>. QED
  BY BarrierInvariant, <1>1, PTL

\* While the parent lives, no child of benchmp() measures anything before
\* every child has said `ready', for any number of children and whatever
\* fails: the start barrier.
THEOREM StartBarrier == Spec => []MeasuredUnderLoad
<1>1. BarrierInv => MeasuredUnderLoad
  BY DEF BarrierInv, ReadyCounted, Readied, MeasuredUnderLoad
<1>. QED
  BY BarrierInvariant, <1>1, PTL

-----------------------------------------------------------------------------
(* Sequences and counting.                                                 *)

\* Reading k elements from the front of r and appending them to s.
LEMMA ReadFront ==
  ASSUME NEW S, NEW s \in Seq(S), NEW r \in Seq(S), NEW k \in 0..Len(r)
  PROVE  LET t == s \o SubSeq(r, 1, k)
             u == SubSeq(r, k + 1, Len(r))
         IN  /\ t \in Seq(S) /\ u \in Seq(S)
             /\ Len(t) = Len(s) + k /\ Len(u) = Len(r) - k
             /\ \A n \in 1..Len(s) : t[n] = s[n]
             /\ \A n \in 1..k : t[Len(s) + n] = r[n]
             /\ \A n \in 1..(Len(r) - k) : u[n] = r[k + n]
  OBVIOUS

\* One more in the pipe, at its end.
LEMMA Written ==
  ASSUME NEW S, NEW s \in Seq(S), NEW x \in S
  PROVE  /\ Append(s, x) \in Seq(S) /\ Len(Append(s, x)) = Len(s) + 1
         /\ \A n \in 1..Len(s) : Append(s, x)[n] = s[n]
         /\ Append(s, x)[Len(s) + 1] = x
  OBVIOUS

LEMMA EmptySeq ==
  ASSUME NEW S, NEW s \in Seq(S), Len(s) = 0
  PROVE  s = <<>>
  OBVIOUS

\* A set of children as large as all is all of them.
LEMMA AllChildren ==
  ASSUME NEW S \in SUBSET Child
  PROVE  /\ IsFiniteSet(S) /\ Cardinality(S) \in 0..P
         /\ Cardinality(S) = P => S = Child
<1>1. IsFiniteSet(S) /\ Cardinality(S) <= P
      /\ (Cardinality(S) = P => S = Child)
  BY ChildFinite, FS_Subset
<1>2. Cardinality(S) \in Nat
  BY <1>1, FS_CardinalityType
<1>. QED
  BY <1>1, <1>2, HarnessAssumption

-----------------------------------------------------------------------------
(* Steps of a child that touch neither phases nor pipes to the children.   *)

Inert(c) ==
  /\ UNCHANGED <<ppc, pi, published, merged, buf, state, need_warmup, wrote,
                 response, start_signal, result_signal>>
  /\ \A d \in Child : cpc'[d] \in Stopping => cpc[d] \in Stopping
  /\ \A d \in Child : cpc'[d] = "report" => cpc[d] = "report"

LEMMA DieInert ==
  ASSUME TypeOK, NEW c \in Child, Die(c),
         UNCHANGED <<response, start_signal, result_signal>>
  PROVE  Inert(c)
<1>1. \A d \in Child : cpc'[d] = cpc[d] \/ cpc'[d] = "dead"
  BY DEF Die, TypeOK
<1>. QED
  BY <1>1 DEF Die, Inert, Stopping

LEMMA PlainStepInert ==
  ASSUME TypeOK, NEW c \in Child,
         \/ Initialized(c) \/ GiveUp(c) \/ Advance(c) \/ Exit(c)
         \/ Terminated(c) \/ Crash(c)
  PROVE  Inert(c)
<1>. USE DEF parentVars, pipeVars
<1>1. CASE Initialized(c)
  <2>1. CASE c \in cterm
    BY <1>1, <2>1, DieInert DEF Initialized
  <2>2. CASE c \notin cterm
    BY <1>1, <2>2 DEF Initialized, Inert, TypeOK, Stopping
  <2>. QED  BY <2>1, <2>2
<1>2. CASE GiveUp(c)
  BY <1>2, DieInert DEF GiveUp
<1>3. CASE Advance(c)
  BY <1>3 DEF Advance, Inert, TypeOK, Stopping
<1>4. CASE Exit(c)
  BY <1>4, DieInert DEF Exit
<1>5. CASE Terminated(c)
  <2>1. CASE cpc[c] = "init" \/ Nested
    BY <1>5, <2>1 DEF Terminated, Inert
  <2>2. CASE ~(cpc[c] = "init" \/ Nested)
    BY <1>5, <2>2, DieInert DEF Terminated
  <2>. QED  BY <2>1, <2>2
<1>6. CASE Crash(c)
  BY <1>6, DieInert DEF Crash
<1>. QED
  BY <1>1, <1>2, <1>3, <1>4, <1>5, <1>6

\* What the other steps of a child do, by cases.
LEMMA PollWarmupCases ==
  ASSUME TypeOK, NEW c \in Child, PollWarmup(c)
  PROVE  /\ cpc[c] = "poll" /\ state[c] = "warmup"
         /\ UNCHANGED <<ppc, pi, published, merged, buf, wrote, result_signal>>
         /\ start_signal' = IF start_signal > 0 THEN start_signal - 1
                                                ELSE start_signal
         /\ \A d \in Child \ {c} : cpc'[d] = cpc[d]
         /\ cpc'[c] \notin Stopping
         /\ \/ /\ need_warmup[c] /\ Closed
               /\ UNCHANGED <<state, response, need_warmup>>
            \/ /\ ~(need_warmup[c] /\ Closed)
               /\ need_warmup' = [need_warmup EXCEPT ![c] = FALSE]
               /\ state' = [state EXCEPT ![c] =
                              IF start_signal > 0 \/ Closed
                              THEN "timing_interval" ELSE "warmup"]
               /\ response' = IF need_warmup[c]
                              THEN Append(response, Signal("ready", c))
                              ELSE response
<1>. USE DEF parentVars, Stopping, TypeOK
<1>1. CASE need_warmup[c] /\ Closed
  BY <1>1 DEF PollWarmup, Die
<1>2. CASE ~(need_warmup[c] /\ Closed)
  <2>1. /\ cpc' = [cpc EXCEPT ![c] = IF need_warmup[c]
                                     THEN "first" ELSE "reinit"]
        /\ UNCHANGED <<parentVars, wrote>>
        /\ need_warmup' = [need_warmup EXCEPT ![c] = FALSE]
        /\ state' = [state EXCEPT ![c] =
                              IF start_signal > 0 \/ Closed
                              THEN "timing_interval" ELSE "warmup"]
        /\ response' = IF need_warmup[c]
                              THEN Append(response, Signal("ready", c))
                              ELSE response
    BY <1>2 DEF PollWarmup
  <2>2. /\ cpc[c] = "poll" /\ state[c] = "warmup" /\ UNCHANGED result_signal
        /\ start_signal' = IF start_signal > 0 THEN start_signal - 1
                                                ELSE start_signal
    BY DEF PollWarmup
  <2>. QED
    BY <1>2, <2>1, <2>2
<1>. QED
  BY <1>1, <1>2

LEMMA PollTimingCases ==
  ASSUME TypeOK, NEW c \in Child, PollTiming(c)
  PROVE  \/ Inert(c) /\ state[c] = "timing_interval"
         \/ /\ state[c] = "timing_interval" /\ ~Closed
            /\ UNCHANGED <<ppc, pi, published, merged, buf, wrote,
                           need_warmup, start_signal, result_signal>>
            /\ state' = [state EXCEPT ![c] = "cooldown"]
            /\ response' = Append(response, Signal("done", c))
            /\ cpc[c] = "poll" /\ cpc' = [cpc EXCEPT ![c] = "reinit"]
<1>. USE DEF parentVars, TypeOK
<1>1. PICK longEnough \in BOOLEAN : Measured(c, longEnough)
  BY DEF PollTiming
<1>. DEFINE counts == P > 1 \/ longEnough
            r == IF counts THEN runs[c] + 1 ELSE runs[c]
            s == IF counts THEN short[c] ELSE short[c] + 1
            finished == (counts /\ r >= Reps) \/ s >= MaxShort
<1>2. /\ UNCHANGED <<start_signal, result_signal>>
      /\ state[c] = "timing_interval" /\ cpc[c] = "poll"
  BY DEF PollTiming
<1>3. CASE finished /\ Closed
  <2>1. Die(c) /\ UNCHANGED response
    BY <1>1, <1>3 DEF Measured
  <2>. QED
    BY <1>2, <2>1, DieInert
<1>4. CASE ~(finished /\ Closed)
  <2>1. /\ state' = [state EXCEPT ![c] =
                       IF finished THEN "cooldown" ELSE state[c]]
        /\ response' = IF finished THEN Append(response, Signal("done", c))
                                   ELSE response
        /\ cpc' = [cpc EXCEPT ![c] = "reinit"]
        /\ UNCHANGED <<parentVars, need_warmup, wrote>>
    BY <1>1, <1>4 DEF Measured
  <2>. HIDE DEF finished
  <2>2. CASE finished
    BY <1>2, <1>4, <2>1, <2>2
  <2>3. CASE ~finished
    BY <1>2, <2>1, <2>3 DEF Inert, Stopping
  <2>. QED
    BY <2>2, <2>3
<1>. QED
  BY <1>3, <1>4

LEMMA PollCooldownCases ==
  ASSUME TypeOK, NEW c \in Child, PollCooldown(c)
  PROVE  \/ Inert(c)
         \/ /\ result_signal > 0 \/ Closed
            /\ cpc[c] = "poll" /\ cpc' = [cpc EXCEPT ![c] = "asked"]
            /\ UNCHANGED <<ppc, pi, published, merged, buf, state,
                           need_warmup, wrote, response, start_signal,
                           result_signal>>
<1>. USE DEF parentVars, pipeVars, TypeOK
<1>1. CASE result_signal > 0 \/ Closed
  BY <1>1 DEF PollCooldown
<1>2. CASE ~(result_signal > 0 \/ Closed)
  BY <1>2 DEF PollCooldown, Inert, Stopping
<1>. QED
  BY <1>1, <1>2

LEMMA ReportCases ==
  ASSUME TypeOK, NEW c \in Child, Report(c)
  PROVE  \/ Inert(c)
         \/ /\ cpc[c] = "report" /\ ~Closed
            /\ response' = Append(response, Piece(c, wrote[c] + 1))
            /\ wrote' = [wrote EXCEPT ![c] = wrote[c] + 1]
            /\ cpc' = [cpc EXCEPT ![c] = IF wrote[c] + 1 = Chunks
                                         THEN "final" ELSE "report"]
            /\ UNCHANGED <<ppc, pi, published, merged, buf, state,
                           need_warmup, start_signal, result_signal>>
<1>. USE DEF parentVars
<1>1. CASE Closed
  BY <1>1, DieInert DEF Report
<1>2. CASE ~Closed
  BY <1>2 DEF Report
<1>. QED
  BY <1>1, <1>2

-----------------------------------------------------------------------------
(* Every `done' is counted.                                                *)

\* An event that DoneCounted does not see.
LEMMA InertDone ==
  ASSUME DoneCounted, NEW c \in Child, Inert(c)
  PROVE  DoneCounted'
  BY DEF DoneCounted, Inert, Warm, Cooled

\* A child that has not cooled down is proof that nobody has been asked.
LEMMA NotCooled ==
  ASSUME TypeOK, Buried, DoneCounted, NEW c \in Child,
         state[c] # "cooldown", c \notin Gone
  PROVE  /\ Cooled # Child /\ ppc \notin Collecting
         /\ ~published /\ result_signal = 0
         /\ ppc # "killed" => /\ \A d \in Child : cpc[d] \notin Stopping
                              /\ ~Closed
<1>1. Cooled # Child
  BY DEF Cooled
<1>2. ppc \in {"reap", "returned"} => published
  BY DEF Buried
<1>. QED
  BY <1>1, <1>2 DEF DoneCounted, TypeOK, Closed

LEMMA PollWarmupDone ==
  ASSUME TypeOK, Buried, ReadyCounted, DoneCounted, NEW c \in Child,
         PollWarmup(c)
  PROVE  DoneCounted'
<1>1. /\ cpc[c] = "poll" /\ state[c] = "warmup"
      /\ UNCHANGED <<ppc, pi, published, result_signal>>
      /\ start_signal' = IF start_signal > 0 THEN start_signal - 1
                                             ELSE start_signal
      /\ \A d \in Child \ {c} : cpc'[d] = cpc[d]
      /\ cpc'[c] \notin Stopping
  BY PollWarmupCases
<1>2. /\ ppc \notin Collecting /\ ~published /\ result_signal = 0
      /\ ppc # "killed" => /\ \A d \in Child : cpc[d] \notin Stopping
                           /\ ~Closed
  BY <1>1, NotCooled DEF Gone
<1>3. ppc # "killed" => \A d \in Child : cpc'[d] \notin Stopping
  BY <1>1, <1>2
<1>4. ppc \in {"start", "done"} =>
        /\ ~need_warmup[c] /\ UNCHANGED response
        /\ state' = [state EXCEPT ![c] = IF start_signal > 0
                                    THEN "timing_interval" ELSE "warmup"]
  BY PollWarmupCases, <1>2 DEF ReadyCounted, Running, Readied
<1>5. CASE ppc = "start"
  <2>1. start_signal = 0 /\ UNCHANGED response /\ Warm = Child
        /\ response = <<>>
    BY <1>4, <1>5 DEF DoneCounted
  <2>2. state' = state
    BY <1>1, <1>4, <1>5, <2>1 DEF TypeOK
  <2>. QED
    BY <1>1, <1>2, <1>3, <1>5, <2>1, <2>2
       DEF DoneCounted, Warm, Starting, Collecting
<1>6. CASE ppc = "done"
  <2>1. start_signal = Cardinality(Warm) /\ c \in Warm
        /\ Cardinality(Cooled) = Len(response) + pi
    BY <1>1, <1>6 DEF DoneCounted, Warm
  <2>2. IsFiniteSet(Warm) /\ Cardinality(Warm) \in Nat
    BY AllChildren DEF Warm
  <2>3. Cardinality(Warm) # 0
    BY <2>1, <2>2, FS_EmptySet
  <2>4. state' = [state EXCEPT ![c] = "timing_interval"]
    BY <1>4, <1>6, <2>1, <2>2, <2>3
  <2>5. Warm' = Warm \ {c} /\ Cooled' = Cooled
    BY <1>1, <2>4 DEF Warm, Cooled, TypeOK
  <2>6. Cardinality(Warm') = Cardinality(Warm) - 1
    BY <2>1, <2>2, <2>5, FS_RemoveElement
  <2>7. start_signal' = Cardinality(Warm')
    BY <1>1, <2>1, <2>2, <2>3, <2>6
  <2>8. Cardinality(Cooled') = Len(response') + pi'
    BY <1>1, <1>4, <1>6, <2>1, <2>5
  <2>. QED
    BY <1>1, <1>2, <1>3, <1>6, <2>7, <2>8
       DEF DoneCounted, Starting, Collecting
<1>7. CASE ppc \notin {"start", "done"}
  <2>. QED
    BY <1>1, <1>2, <1>3, <1>7 DEF DoneCounted, Starting, Collecting
<1>. QED
  BY <1>5, <1>6, <1>7

LEMMA PollTimingDone ==
  ASSUME TypeOK, Buried, ReadyCounted, DoneCounted, NEW c \in Child,
         PollTiming(c)
  PROVE  DoneCounted'
<1>1. CASE Inert(c)
  BY <1>1, InertDone
<1>2. CASE ~Inert(c)
  <2>1. /\ state[c] = "timing_interval"
        /\ UNCHANGED <<ppc, pi, published, start_signal, result_signal>>
        /\ state' = [state EXCEPT ![c] = "cooldown"]
        /\ response' = Append(response, Signal("done", c))
        /\ cpc[c] = "poll" /\ cpc' = [cpc EXCEPT ![c] = "reinit"]
    BY <1>2, PollTimingCases
  <2>2. /\ ppc \notin Collecting /\ ~published /\ result_signal = 0
        /\ ppc # "killed" => \A d \in Child : cpc[d] \notin Stopping
    BY <2>1, NotCooled DEF Gone
  <2>3. ppc \notin Starting \cup {"start"}
    BY <2>1 DEF ReadyCounted, DoneCounted, Warm
  <2>4. ppc # "killed" => \A d \in Child : cpc'[d] \notin Stopping
    BY <2>1, <2>2 DEF Stopping, TypeOK
  <2>5. Warm' = Warm /\ Cooled' = Cooled \cup {c} /\ c \notin Cooled
    BY <2>1 DEF Warm, Cooled, TypeOK
  <2>6. IsFiniteSet(Cooled) /\ Cardinality(Cooled) \in Nat
    BY AllChildren DEF Cooled
  <2>7. Cardinality(Cooled') = Cardinality(Cooled) + 1
    BY <2>5, <2>6, FS_AddElement
  <2>8. Len(response') = Len(response) + 1 /\ Len(response) \in Nat
        /\ pi \in Nat
    BY <2>1 DEF TypeOK
  <2>9. ppc = "done" =>
          /\ start_signal' = Cardinality(Warm')
          /\ Cardinality(Cooled') = Len(response') + pi'
    <3>1. ppc = "done" =>
            /\ start_signal = Cardinality(Warm)
            /\ Cardinality(Cooled) = Len(response) + pi
      BY DEF DoneCounted
    <3>. QED
      BY <2>1, <2>5, <2>6, <2>7, <2>8, <3>1
  <2>. QED
    BY <2>1, <2>2, <2>3, <2>4, <2>9 DEF DoneCounted, Starting, Collecting
<1>. QED
  BY <1>1, <1>2

LEMMA PollCooldownDone ==
  ASSUME TypeOK, Buried, DoneCounted, NEW c \in Child, PollCooldown(c)
  PROVE  DoneCounted'
<1>1. CASE Inert(c)
  BY <1>1, InertDone
<1>2. CASE ~Inert(c)
  <2>1. /\ result_signal > 0 \/ Closed
        /\ cpc[c] = "poll" /\ cpc' = [cpc EXCEPT ![c] = "asked"]
        /\ UNCHANGED <<ppc, pi, published, state, response, start_signal,
                       result_signal>>
    BY <1>2, PollCooldownCases
  <2>2. Warm' = Warm /\ Cooled' = Cooled
    BY <2>1 DEF Warm, Cooled
  <2>3. ppc # "killed" => Cooled = Child
    <3>1. ppc \in {"reap", "returned"} => published
      BY <2>1 DEF Buried, Gone
    <3>. QED
      BY <2>1, <3>1 DEF Closed, DoneCounted
  <2>4. ppc \notin Starting \cup {"start", "done"}
    BY <2>1 DEF DoneCounted, Closed, Starting
  <2>. QED
    BY <2>1, <2>2, <2>3, <2>4 DEF DoneCounted
<1>. QED
  BY <1>1, <1>2

LEMMA TakeResultSignalDone ==
  ASSUME TypeOK, DoneCounted, NEW c \in Child, TakeResultSignal(c)
  PROVE  DoneCounted'
<1>1. /\ cpc[c] = "asked" /\ cpc' = [cpc EXCEPT ![c] = "report"]
      /\ result_signal' = IF result_signal > 0 THEN result_signal - 1
                                               ELSE result_signal
      /\ UNCHANGED <<ppc, pi, published, state, response, start_signal>>
  BY DEF TakeResultSignal, parentVars
<1>2. cpc[c] \in Stopping
  BY <1>1 DEF Stopping
<1>3. ppc \notin Starting \cup {"start", "done"}
  BY <1>2 DEF DoneCounted
<1>4. ppc # "killed" => Cooled = Child
  BY <1>2 DEF DoneCounted
<1>5. Warm' = Warm /\ Cooled' = Cooled
  BY <1>1 DEF Warm, Cooled
<1>6. result_signal' > 0 => result_signal > 0
  BY <1>1 DEF TypeOK
<1>. QED
  BY <1>1, <1>3, <1>4, <1>5, <1>6 DEF DoneCounted

LEMMA ReportDone ==
  ASSUME TypeOK, DoneCounted, NEW c \in Child, Report(c)
  PROVE  DoneCounted'
<1>1. CASE Inert(c)
  BY <1>1, InertDone
<1>2. CASE ~Inert(c)
  <2>1. /\ cpc[c] = "report"
        /\ cpc' = [cpc EXCEPT ![c] = IF wrote[c] + 1 = Chunks
                                     THEN "final" ELSE "report"]
        /\ UNCHANGED <<ppc, pi, published, state, start_signal,
                       result_signal>>
    BY <1>2, ReportCases
  <2>2. cpc[c] \in Stopping
    BY <2>1 DEF Stopping
  <2>3. ppc \notin Starting \cup {"start", "done"}
    BY <2>2 DEF DoneCounted
  <2>4. ppc # "killed" => Cooled = Child
    BY <2>2 DEF DoneCounted
  <2>5. Warm' = Warm /\ Cooled' = Cooled
    BY <2>1 DEF Warm, Cooled
  <2>. QED
    BY <2>1, <2>3, <2>4, <2>5 DEF DoneCounted
<1>. QED
  BY <1>1, <1>2

LEMMA ChildDone ==
  ASSUME TypeOK, Buried, ReadyCounted, DoneCounted, NEW c \in Child,
         ChildStep(c) \/ Terminated(c) \/ Crash(c)
  PROVE  DoneCounted'
<1>1. CASE \/ Initialized(c) \/ GiveUp(c) \/ Advance(c) \/ Exit(c)
           \/ Terminated(c) \/ Crash(c)
  BY <1>1, PlainStepInert, InertDone
<1>2. CASE PollWarmup(c) \/ PollTiming(c)
  BY <1>2, PollWarmupDone, PollTimingDone
<1>3. CASE PollCooldown(c) \/ TakeResultSignal(c) \/ Report(c)
  BY <1>3, PollCooldownDone, TakeResultSignalDone, ReportDone
<1>. QED
  BY <1>1, <1>2, <1>3 DEF ChildStep

\* In each step of the parent the counts keep in step with its phase.
LEMMA DoneStep ==
  TypeOK /\ Counters /\ Buried /\ ReadyCounted /\ DoneCounted
    /\ [Next]_vars => DoneCounted'
<1> USE DEF DoneCounted, Warm, Cooled, Starting, Collecting
<1> USE DEF parentVars, pipeVars, childVars
<1>1. ASSUME TypeOK, Counters, Buried, ReadyCounted, DoneCounted, ForkCheck
       PROVE  DoneCounted'
  BY <1>1 DEF ForkCheck
<1>2. ASSUME TypeOK, Counters, Buried, ReadyCounted, DoneCounted, Fork
       PROVE  DoneCounted'
  <2>1. ppc = "forking" /\ ppc' = "fork"
        /\ cpc' = [cpc EXCEPT ![pi + 1] = "init"]
        /\ UNCHANGED <<response, start_signal, result_signal, state, published>>
    BY <1>2 DEF Fork
  <2>2. \A c \in Child : cpc'[c] \in {cpc[c], "init"}
    BY <1>2, <2>1 DEF TypeOK
  <2>. QED
    BY <1>2, <2>1, <2>2 DEF Stopping
<1>3. ASSUME TypeOK, Counters, Buried, ReadyCounted, DoneCounted, ForkedAll
       PROVE  DoneCounted'
  BY <1>3 DEF ForkedAll
<1>4. ASSUME TypeOK, Counters, Buried, ReadyCounted, DoneCounted, ForkErrKill
       PROVE  DoneCounted'
  BY <1>4 DEF ForkErrKill, Alive, Gone
<1>5. ASSUME TypeOK, Counters, Buried, ReadyCounted, DoneCounted, ForkErrWait
       PROVE  DoneCounted'
  BY <1>5 DEF ForkErrWait
<1>6. ASSUME TypeOK, Counters, Buried, ReadyCounted, DoneCounted, Check
       PROVE  DoneCounted'
  BY <1>6 DEF Check
<1>7. ASSUME TypeOK, Counters, Buried, ReadyCounted, DoneCounted, Abandon
       PROVE  DoneCounted'
  BY <1>7 DEF Abandon
<1>8. ASSUME TypeOK, Counters, Buried, ReadyCounted, DoneCounted, ReadyAll
       PROVE  DoneCounted'
  <2>1. ppc = "ready" /\ ppc' = "start" /\ pi = P
        /\ UNCHANGED <<response, start_signal, result_signal, state, cpc,
                       published>>
    BY <1>8 DEF ReadyAll
  <2>2. start_signal = 0 /\ Warm = Child
        /\ Cardinality(Readied) = Len(response) + P
    BY <1>8, <2>1 DEF ReadyCounted
  <2>3. Cardinality(Readied) \in 0..P /\ Len(response) \in Nat
    BY <1>8, AllChildren DEF Readied, TypeOK
  <2>4. response = <<>>
    <3>1. Len(response) = 0
      BY <2>2, <2>3, HarnessAssumption
    <3>. QED
      BY <1>8, <3>1, EmptySeq DEF TypeOK
  <2>. QED
    BY <1>8, <2>1, <2>2, <2>4
<1>9. ASSUME TypeOK, Counters, Buried, ReadyCounted, DoneCounted, Start
       PROVE  DoneCounted'
  <2>1. /\ ppc = "start" /\ ppc' = "done" /\ pi' = 0
        /\ start_signal' = start_signal + P
        /\ UNCHANGED <<response, result_signal, state, cpc, published>>
    BY <1>9 DEF Start
  <2>2. response = <<>> /\ Warm = Child /\ start_signal = 0
    BY <1>9, <2>1
  <2>3. start_signal' = Cardinality(Warm')
    <3>1. Warm' = Warm /\ start_signal' = P
      BY <2>1, <2>2, HarnessAssumption
    <3>. HIDE DEF Warm
    <3>. QED
      BY <2>2, <3>1, ChildFinite
  <2>4. Cardinality(Cooled') = 0
    <3>1. Cooled' = {}
      BY <2>1, <2>2
    <3>. QED
      BY <3>1, FS_EmptySet
  <2>5. Len(response') + pi' = 0
    BY <2>1, <2>2
  <2>6. result_signal' = 0 /\ ~published' /\
        \A c \in Child : cpc'[c] \notin Stopping
    <3>1. 1 \in Child
      BY HarnessAssumption DEF Child
    <3>2. result_signal = 0 /\ \A c \in Child : cpc[c] \notin Stopping
      BY <1>9, <2>1
    <3>3. 1 \notin Cooled
      BY <2>2, <3>1
    <3>4. ~published
      BY <1>9, <3>1, <3>3
    <3>. QED
      BY <2>1, <3>2, <3>4
  <2>. HIDE DEF Warm, Cooled
  <2>. QED
    BY <2>1, <2>3, <2>4, <2>5, <2>6
<1>10. ASSUME TypeOK, Counters, Buried, ReadyCounted, DoneCounted, DoneAll
       PROVE  DoneCounted'
  <2>1. /\ ppc = "done" /\ ppc' = "ask" /\ pi = P
        /\ UNCHANGED <<response, start_signal, result_signal, state, cpc,
                       published>>
    BY <1>10 DEF DoneAll
  <2>2. Cooled = Child /\ Warm = {}
    <3>1. Cardinality(Cooled) = Len(response) + P
      BY <1>10, <2>1
    <3>2. Cardinality(Cooled) \in 0..P /\ Len(response) \in Nat
      BY <1>10, AllChildren DEF TypeOK
    <3>3. Cardinality(Cooled) = P
      BY <3>1, <3>2, HarnessAssumption
    <3>4. Cooled = Child
      BY <3>3, AllChildren
    <3>. QED
      BY <3>4
  <2>3. start_signal = 0
    BY <1>10, <2>1, <2>2, FS_EmptySet
  <2>. QED
    BY <2>1, <2>2, <2>3
<1>11. ASSUME TypeOK, Counters, Buried, ReadyCounted, DoneCounted, Ask
       PROVE  DoneCounted'
  BY <1>11 DEF Ask
<1>12. ASSUME TypeOK, Counters, Buried, ReadyCounted, DoneCounted, Gather
       PROVE  DoneCounted'
  BY <1>12 DEF Gather, AtMost
<1>13. ASSUME TypeOK, Counters, Buried, ReadyCounted, DoneCounted, Merge
       PROVE  DoneCounted'
  BY <1>13 DEF Merge
<1>14. ASSUME TypeOK, Counters, Buried, ReadyCounted, DoneCounted, CollectedAll
       PROVE  DoneCounted'
  BY <1>14 DEF CollectedAll
<1>15. ASSUME TypeOK, Counters, Buried, ReadyCounted, DoneCounted, IgnoreDeaths
       PROVE  DoneCounted'
  BY <1>15 DEF IgnoreDeaths
<1>16. ASSUME TypeOK, Counters, Buried, ReadyCounted, DoneCounted, Release
       PROVE  DoneCounted'
  BY <1>16 DEF Release
<1>17. ASSUME TypeOK, Counters, Buried, ReadyCounted, DoneCounted, SigPipe
       PROVE  DoneCounted'
  BY <1>17 DEF SigPipe
<1>18. ASSUME TypeOK, Counters, Buried, ReadyCounted, DoneCounted, ParErrKill
       PROVE  DoneCounted'
  BY <1>18 DEF ParErrKill, Alive, Gone
<1>19. ASSUME TypeOK, Counters, Buried, ReadyCounted, DoneCounted, ParErrWait
       PROVE  DoneCounted'
  BY <1>19 DEF ParErrWait
<1>20. ASSUME TypeOK, Counters, Buried, ReadyCounted, DoneCounted, Reap
       PROVE  DoneCounted'
  BY <1>20 DEF Reap
<1>21. ASSUME TypeOK, Counters, Buried, ReadyCounted, DoneCounted, CollectSignals("ready")
       PROVE  DoneCounted'
  BY <1>21 DEF CollectSignals, AtMost
<1>22. ASSUME TypeOK, Counters, Buried, ReadyCounted, DoneCounted, CollectSignals("done")
       PROVE  DoneCounted'
  <2>. DEFINE k == AtMost(P - pi)
  <2>1. k \in 0..Len(response) /\ Len(response) \in Nat /\ pi \in Nat
    BY <1>22, HarnessAssumption DEF CollectSignals, AtMost, TypeOK
  <2>2. /\ response' = SubSeq(response, k + 1, Len(response))
        /\ pi' = pi + k /\ ppc = "done" /\ ppc' = "done"
        /\ UNCHANGED <<published, start_signal, result_signal, state, cpc>>
    BY <1>22 DEF CollectSignals
  <2>. HIDE DEF k
  <2>3. Len(response') = Len(response) - k
    BY <1>22, <2>1, <2>2 DEF TypeOK
  <2>4. pi' = pi + k
    BY <2>2
  <2>5. Len(response') + pi' = Len(response) + pi
    <3>. HIDE DEF DoneCounted, Warm, Cooled
    <3>. QED
      BY <2>1, <2>3, <2>4
  <2>. QED
    BY <1>22, <2>2, <2>5
<1>23. ASSUME TypeOK, Counters, Buried, ReadyCounted, DoneCounted, Alarm
       PROVE  DoneCounted'
  BY <1>23 DEF Alarm
<1>24. ASSUME TypeOK, Counters, Buried, ReadyCounted, DoneCounted, ForkFails
       PROVE  DoneCounted'
  BY <1>24 DEF ForkFails, Fault
<1>25. ASSUME TypeOK, Counters, Buried, ReadyCounted, DoneCounted, MallocFails
       PROVE  DoneCounted'
  BY <1>25 DEF MallocFails, Fault
<1>26. ASSUME TypeOK, Counters, Buried, ReadyCounted, DoneCounted, ParentTerm
       PROVE  DoneCounted'
  BY <1>26 DEF ParentTerm, Fault
<1>27. ASSUME TypeOK, Counters, Buried, ReadyCounted, DoneCounted, ParentKilled
       PROVE  DoneCounted'
  BY <1>27 DEF ParentKilled, Fault
<1>28. ASSUME TypeOK, Counters, Buried, ReadyCounted, DoneCounted, Finished
       PROVE  DoneCounted'
  BY <1>28 DEF Finished, vars
<1>29. ASSUME TypeOK, Counters, Buried, ReadyCounted, DoneCounted, NEW c \in Child,
              ChildStep(c) \/ Terminated(c) \/ Crash(c)
       PROVE  DoneCounted'
  BY <1>29, ChildDone
<1>30. ASSUME TypeOK, Counters, Buried, ReadyCounted, DoneCounted, UNCHANGED vars
       PROVE  DoneCounted'
  BY <1>30 DEF vars
<1>. QED
  BY <1>1, <1>2, <1>3, <1>4, <1>5, <1>6, <1>7, <1>8, <1>9, <1>10, <1>11,
     <1>12, <1>13, <1>14, <1>15, <1>16, <1>17, <1>18, <1>19, <1>20, <1>21,
     <1>22, <1>23, <1>24, <1>25, <1>26, <1>27, <1>28, <1>29, <1>30
     DEF Next, ParentStep

-----------------------------------------------------------------------------
(* The kinds of the signals in the pipe.                                   *)

LEMMA AppendKinds ==
  ASSUME TypeOK, KindsCounted, NEW x \in Message,
         response' = Append(response, x), ppc' = ppc,
         ppc \in Starting => x.kind = "ready",
         ppc = "done" => x.kind = "done"
  PROVE  KindsCounted'
<1>1. response \in Seq(Message)
  BY DEF TypeOK
<1>2. /\ Len(response') = Len(response) + 1 /\ Len(response) \in Nat
      /\ \A n \in 1..Len(response) : response'[n] = response[n]
      /\ response'[Len(response) + 1] = x
  BY <1>1, Written
<1>3. \A n \in 1..Len(response') :
         n \in 1..Len(response) \/ n = Len(response) + 1
  BY <1>2
<1>. QED
  BY <1>2, <1>3 DEF KindsCounted

LEMMA ChildKinds ==
  ASSUME TypeOK, Buried, ReadyCounted, DoneCounted, KindsCounted,
         NEW c \in Child, ChildStep(c) \/ Terminated(c) \/ Crash(c)
  PROVE  KindsCounted'
<1>1. CASE UNCHANGED <<ppc, response>>
  BY <1>1 DEF KindsCounted
<1>2. CASE Initialized(c) \/ GiveUp(c) \/ Advance(c) \/ Exit(c)
           \/ Terminated(c) \/ Crash(c) \/ PollCooldown(c)
  BY <1>1, <1>2, PlainStepInert, PollCooldownCases DEF Inert
<1>3. CASE TakeResultSignal(c)
  BY <1>1, <1>3 DEF TakeResultSignal, parentVars
<1>4. CASE PollWarmup(c)
  <2>1. \/ UNCHANGED <<ppc, response>>
        \/ /\ need_warmup[c] /\ ppc' = ppc
           /\ response' = Append(response, Signal("ready", c))
    BY <1>4, PollWarmupCases
  <2>2. need_warmup[c] => ppc # "done"
    BY DEF ReadyCounted, Readied, Running
  <2>3. Signal("ready", c) \in Message /\ Signal("ready", c).kind = "ready"
    BY MessageTypes DEF Signal
  <2>. QED
    BY <1>1, <2>1, <2>2, <2>3, AppendKinds
<1>5. CASE PollTiming(c)
  <2>1. \/ UNCHANGED <<ppc, response>>
        \/ /\ state[c] = "timing_interval" /\ ppc' = ppc
           /\ response' = Append(response, Signal("done", c))
    BY <1>5, PollTimingCases DEF Inert
  <2>2. state[c] = "timing_interval" => ppc \notin Starting
    BY DEF ReadyCounted
  <2>3. Signal("done", c) \in Message /\ Signal("done", c).kind = "done"
    BY MessageTypes DEF Signal
  <2>. QED
    BY <1>1, <2>1, <2>2, <2>3, AppendKinds
<1>6. CASE Report(c)
  <2>1. \/ UNCHANGED <<ppc, response>>
        \/ cpc[c] = "report" /\ ppc' = ppc
    BY <1>6, ReportCases DEF Inert
  <2>2. cpc[c] = "report" => ppc \notin Starting \cup {"done"}
    BY DEF DoneCounted, Stopping
  <2>. QED
    BY <1>1, <2>1, <2>2 DEF KindsCounted
<1>. QED
  BY <1>2, <1>3, <1>4, <1>5, <1>6 DEF ChildStep

\* Reading signals leaves a part of what was in the pipe.
LEMMA CollectKinds ==
  ASSUME TypeOK, KindsCounted, NEW at \in {"ready", "done"},
         CollectSignals(at)
  PROVE  KindsCounted'
<1>. DEFINE k == AtMost(P - pi)
<1>1. k \in 0..Len(response) /\ response \in Seq(Message)
  BY HarnessAssumption DEF CollectSignals, AtMost, TypeOK
<1>2. response' = SubSeq(response, k + 1, Len(response)) /\ ppc' = ppc
  BY DEF CollectSignals
<1>. HIDE DEF k
<1>3. /\ Len(response') = Len(response) - k
      /\ \A n \in 1..(Len(response) - k) : response'[n] = response[k + n]
  BY <1>1, <1>2
<1>4. \A n \in 1..(Len(response) - k) : k + n \in 1..Len(response)
  BY <1>1
<1>5. ASSUME NEW n \in 1..Len(response')
      PROVE  /\ ppc' \in Starting => response'[n].kind = "ready"
             /\ ppc' = "done" => response'[n].kind = "done"
  <2>1. k + n \in 1..Len(response) /\ response'[n] = response[k + n]
    BY <1>3, <1>4
  <2>. QED
    BY <1>2, <2>1 DEF KindsCounted
<1>. QED
  BY <1>5 DEF KindsCounted

LEMMA KindsStep ==
  TypeOK /\ Buried /\ ReadyCounted /\ DoneCounted /\ KindsCounted
    /\ [Next]_vars => KindsCounted'
<1> USE DEF KindsCounted, Starting
<1> USE DEF parentVars, pipeVars, childVars
<1>1. ASSUME TypeOK, Buried, ReadyCounted, DoneCounted, KindsCounted, ForkCheck
       PROVE  KindsCounted'
  BY <1>1 DEF ForkCheck
<1>2. ASSUME TypeOK, Buried, ReadyCounted, DoneCounted, KindsCounted, Fork
       PROVE  KindsCounted'
  BY <1>2 DEF Fork
<1>3. ASSUME TypeOK, Buried, ReadyCounted, DoneCounted, KindsCounted, ForkedAll
       PROVE  KindsCounted'
  BY <1>3 DEF ForkedAll
<1>4. ASSUME TypeOK, Buried, ReadyCounted, DoneCounted, KindsCounted, ForkErrKill
       PROVE  KindsCounted'
  BY <1>4 DEF ForkErrKill, Alive, Gone
<1>5. ASSUME TypeOK, Buried, ReadyCounted, DoneCounted, KindsCounted, ForkErrWait
       PROVE  KindsCounted'
  BY <1>5 DEF ForkErrWait
<1>6. ASSUME TypeOK, Buried, ReadyCounted, DoneCounted, KindsCounted, Check
       PROVE  KindsCounted'
  BY <1>6 DEF Check
<1>7. ASSUME TypeOK, Buried, ReadyCounted, DoneCounted, KindsCounted, Abandon
       PROVE  KindsCounted'
  BY <1>7 DEF Abandon
<1>8. ASSUME TypeOK, Buried, ReadyCounted, DoneCounted, KindsCounted, ReadyAll
       PROVE  KindsCounted'
  BY <1>8 DEF ReadyAll
<1>9. ASSUME TypeOK, Buried, ReadyCounted, DoneCounted, KindsCounted, Start
       PROVE  KindsCounted'
  <2>1. response = <<>> /\ ppc = "start"
    BY <1>9 DEF Start, DoneCounted
  <2>2. response' = <<>>
    BY <1>9, <2>1 DEF Start
  <2>. QED
    BY <2>2
<1>10. ASSUME TypeOK, Buried, ReadyCounted, DoneCounted, KindsCounted, DoneAll
       PROVE  KindsCounted'
  BY <1>10 DEF DoneAll
<1>11. ASSUME TypeOK, Buried, ReadyCounted, DoneCounted, KindsCounted, Ask
       PROVE  KindsCounted'
  BY <1>11 DEF Ask
<1>12. ASSUME TypeOK, Buried, ReadyCounted, DoneCounted, KindsCounted, Gather
       PROVE  KindsCounted'
  BY <1>12 DEF Gather, AtMost
<1>13. ASSUME TypeOK, Buried, ReadyCounted, DoneCounted, KindsCounted, Merge
       PROVE  KindsCounted'
  BY <1>13 DEF Merge
<1>14. ASSUME TypeOK, Buried, ReadyCounted, DoneCounted, KindsCounted, CollectedAll
       PROVE  KindsCounted'
  BY <1>14 DEF CollectedAll
<1>15. ASSUME TypeOK, Buried, ReadyCounted, DoneCounted, KindsCounted, IgnoreDeaths
       PROVE  KindsCounted'
  BY <1>15 DEF IgnoreDeaths
<1>16. ASSUME TypeOK, Buried, ReadyCounted, DoneCounted, KindsCounted, Release
       PROVE  KindsCounted'
  BY <1>16 DEF Release
<1>17. ASSUME TypeOK, Buried, ReadyCounted, DoneCounted, KindsCounted, SigPipe
       PROVE  KindsCounted'
  BY <1>17 DEF SigPipe
<1>18. ASSUME TypeOK, Buried, ReadyCounted, DoneCounted, KindsCounted, ParErrKill
       PROVE  KindsCounted'
  BY <1>18 DEF ParErrKill, Alive, Gone
<1>19. ASSUME TypeOK, Buried, ReadyCounted, DoneCounted, KindsCounted, ParErrWait
       PROVE  KindsCounted'
  BY <1>19 DEF ParErrWait
<1>20. ASSUME TypeOK, Buried, ReadyCounted, DoneCounted, KindsCounted, Reap
       PROVE  KindsCounted'
  BY <1>20 DEF Reap
<1>21. ASSUME TypeOK, Buried, ReadyCounted, DoneCounted, KindsCounted, CollectSignals("ready")
       PROVE  KindsCounted'
  BY <1>21, CollectKinds
<1>22. ASSUME TypeOK, Buried, ReadyCounted, DoneCounted, KindsCounted, CollectSignals("done")
       PROVE  KindsCounted'
  BY <1>22, CollectKinds
<1>23. ASSUME TypeOK, Buried, ReadyCounted, DoneCounted, KindsCounted, Alarm
       PROVE  KindsCounted'
  BY <1>23 DEF Alarm
<1>24. ASSUME TypeOK, Buried, ReadyCounted, DoneCounted, KindsCounted, ForkFails
       PROVE  KindsCounted'
  BY <1>24 DEF ForkFails, Fault
<1>25. ASSUME TypeOK, Buried, ReadyCounted, DoneCounted, KindsCounted, MallocFails
       PROVE  KindsCounted'
  BY <1>25 DEF MallocFails, Fault
<1>26. ASSUME TypeOK, Buried, ReadyCounted, DoneCounted, KindsCounted, ParentTerm
       PROVE  KindsCounted'
  BY <1>26 DEF ParentTerm, Fault
<1>27. ASSUME TypeOK, Buried, ReadyCounted, DoneCounted, KindsCounted, ParentKilled
       PROVE  KindsCounted'
  BY <1>27 DEF ParentKilled, Fault
<1>28. ASSUME TypeOK, Buried, ReadyCounted, DoneCounted, KindsCounted, Finished
       PROVE  KindsCounted'
  BY <1>28 DEF Finished, vars
<1>29. ASSUME TypeOK, Buried, ReadyCounted, DoneCounted, KindsCounted, NEW c \in Child,
              ChildStep(c) \/ Terminated(c) \/ Crash(c)
       PROVE  KindsCounted'
  BY <1>29, ChildKinds
<1>30. ASSUME TypeOK, Buried, ReadyCounted, DoneCounted, KindsCounted, UNCHANGED vars
       PROVE  KindsCounted'
  BY <1>30 DEF vars
<1>. QED
  BY <1>1, <1>2, <1>3, <1>4, <1>5, <1>6, <1>7, <1>8, <1>9, <1>10, <1>11,
     <1>12, <1>13, <1>14, <1>15, <1>16, <1>17, <1>18, <1>19, <1>20, <1>21,
     <1>22, <1>23, <1>24, <1>25, <1>26, <1>27, <1>28, <1>29, <1>30
     DEF Next, ParentStep

-----------------------------------------------------------------------------
(* A child that dies before it may is a failure.                           *)

LEMMA WatchingOpen == Watching => ~Closed
  BY DEF Watching, Closed

\* A child that stays lets the failures and signals be.
LEMMA StaysFailures ==
  ASSUME FailuresFirst,
         UNCHANGED <<ppc, flags, cterm, pend, exit_signal, faults>>
  PROVE  FailuresFirst'
  BY DEF FailuresFirst, Watching

\* A child that dies does so for a failure, or when it may.
LEMMA DieFailures ==
  ASSUME TypeOK, FailuresFirst, NEW c \in Child, Die(c), faults' \in Nat,
         faults' >= faults, Watching => faults' > 0 /\ exit_signal' = 0
  PROVE  FailuresFirst'
  BY DEF TypeOK, FailuresFirst, Die, Watching

LEMMA ChildFailures ==
  ASSUME TypeOK, FailuresFirst, NEW c \in Child,
         ChildStep(c) \/ Terminated(c) \/ Crash(c)
  PROVE  FailuresFirst'
<1>. USE DEF parentVars, pipeVars, childVars
<1>1. faults \in Nat /\ (faults' = faults => faults' \in Nat /\ faults' >= faults)
  BY DEF TypeOK
<1>2. Watching => exit_signal = 0
  BY DEF FailuresFirst
<1>3. CASE Initialized(c)
  <2>1. faults' = faults /\ exit_signal' = exit_signal
    BY <1>3 DEF Initialized
  <2>2. CASE c \in cterm
    <3>1. Die(c)
      BY <1>3, <2>2 DEF Initialized
    <3>2. Watching => faults' > 0 /\ exit_signal' = 0
      BY <2>1, <2>2 DEF FailuresFirst
    <3>. QED
      BY <1>1, <2>1, <3>1, <3>2, DieFailures
  <2>3. CASE c \notin cterm
    BY <1>3, <2>1, <2>3, StaysFailures DEF Initialized
  <2>. QED
    BY <2>2, <2>3
<1>4. CASE GiveUp(c)
  <2>1. Die(c) /\ faults' = faults /\ ~Watching
    BY <1>4 DEF GiveUp, Orphaned, Watching
  <2>. QED
    BY <1>1, <2>1, DieFailures
<1>5. CASE PollWarmup(c)
  <2>1. faults' = faults /\ exit_signal' = exit_signal
    BY <1>5 DEF PollWarmup
  <2>2. CASE need_warmup[c] /\ Closed
    <3>1. Die(c) /\ ~Watching
      BY <1>5, <2>2, WatchingOpen DEF PollWarmup
    <3>. QED
      BY <1>1, <2>1, <3>1, DieFailures
  <2>3. CASE ~(need_warmup[c] /\ Closed)
    BY <1>5, <2>1, <2>3, StaysFailures DEF PollWarmup
  <2>. QED
    BY <2>2, <2>3
<1>6. CASE PollTiming(c)
  <2>1. faults' = faults /\ exit_signal' = exit_signal
    BY <1>6 DEF PollTiming
  <2>2. PICK longEnough \in BOOLEAN : Measured(c, longEnough)
    BY <1>6 DEF PollTiming
  <2>3. \/ Die(c) /\ Closed
        \/ UNCHANGED <<ppc, flags, cterm, pend>>
    BY <2>2 DEF Measured
  <2>4. CASE Die(c) /\ Closed
    BY <1>1, <2>1, <2>4, WatchingOpen, DieFailures
  <2>5. CASE UNCHANGED <<ppc, flags, cterm, pend>>
    BY <2>1, <2>5, StaysFailures
  <2>. QED
    BY <2>3, <2>4, <2>5
<1>7. CASE PollCooldown(c)
  BY <1>7, StaysFailures DEF PollCooldown
<1>8. CASE TakeResultSignal(c)
  BY <1>8, StaysFailures DEF TakeResultSignal
<1>9. CASE Report(c)
  <2>1. faults' = faults /\ exit_signal' = exit_signal
    BY <1>9 DEF Report
  <2>2. CASE Closed
    BY <1>1, <1>9, <2>1, <2>2, WatchingOpen, DieFailures DEF Report
  <2>3. CASE ~Closed
    BY <1>9, <2>1, <2>3, StaysFailures DEF Report
  <2>. QED
    BY <2>2, <2>3
<1>10. CASE Advance(c)
  <2>1. UNCHANGED <<ppc, flags, cterm, pend, exit_signal, faults>>
    BY <1>10 DEF Advance
  <2>. QED
    BY <2>1, StaysFailures
<1>11. CASE Exit(c)
  <2>1. Die(c) /\ faults' = faults
    BY <1>11 DEF Exit
  <2>2. ~Watching
    BY <1>2, <1>11, WatchingOpen DEF Exit
  <2>. QED
    BY <1>1, <2>1, <2>2, DieFailures
<1>12. CASE Terminated(c)
  <2>1. /\ faults' = faults /\ exit_signal' = exit_signal /\ c \in pend
    BY <1>12 DEF Terminated
  <2>2. Watching => faults > 0
    BY <2>1 DEF FailuresFirst
  <2>3. CASE cpc[c] = "init" \/ Nested
    <3>1. UNCHANGED <<ppc, flags>>
      BY <1>12, <2>3 DEF Terminated
    <3>. QED
      BY <2>1, <2>2, <3>1 DEF FailuresFirst, Watching
  <2>4. CASE ~(cpc[c] = "init" \/ Nested)
    <3>1. Die(c)
      BY <1>12, <2>4 DEF Terminated
    <3>. QED
      BY <1>1, <1>2, <2>1, <2>2, <3>1, DieFailures
  <2>. QED
    BY <2>3, <2>4
<1>13. CASE Crash(c)
  <2>1. Die(c) /\ faults' = faults + 1 /\ exit_signal' = exit_signal
    BY <1>13 DEF Crash, Fault
  <2>2. faults' \in Nat /\ faults' >= faults /\ faults' > 0
    BY <1>1, <2>1
  <2>. QED
    BY <1>2, <2>1, <2>2, DieFailures
<1>. QED
  BY <1>3, <1>4, <1>5, <1>6, <1>7, <1>8, <1>9, <1>10, <1>11, <1>12, <1>13
     DEF ChildStep

LEMMA FailuresStep ==
  TypeOK /\ FailuresFirst
    /\ [Next]_vars => FailuresFirst'
<1> USE DEF FailuresFirst, Watching
<1> USE DEF parentVars, pipeVars, childVars
<1>1. ASSUME TypeOK, FailuresFirst, ForkCheck
       PROVE  FailuresFirst'
  BY <1>1 DEF ForkCheck
<1>2. ASSUME TypeOK, FailuresFirst, Fork
       PROVE  FailuresFirst'
  BY <1>2 DEF Fork
<1>3. ASSUME TypeOK, FailuresFirst, ForkedAll
       PROVE  FailuresFirst'
  BY <1>3 DEF ForkedAll
<1>4. ASSUME TypeOK, FailuresFirst, ForkErrKill
       PROVE  FailuresFirst'
  BY <1>4 DEF ForkErrKill, Alive, Gone
<1>5. ASSUME TypeOK, FailuresFirst, ForkErrWait
       PROVE  FailuresFirst'
  BY <1>5 DEF ForkErrWait
<1>6. ASSUME TypeOK, FailuresFirst, Check
       PROVE  FailuresFirst'
  BY <1>6 DEF Check
<1>7. ASSUME TypeOK, FailuresFirst, Abandon
       PROVE  FailuresFirst'
  BY <1>7 DEF Abandon
<1>8. ASSUME TypeOK, FailuresFirst, ReadyAll
       PROVE  FailuresFirst'
  BY <1>8 DEF ReadyAll
<1>9. ASSUME TypeOK, FailuresFirst, Start
       PROVE  FailuresFirst'
  BY <1>9 DEF Start
<1>10. ASSUME TypeOK, FailuresFirst, DoneAll
       PROVE  FailuresFirst'
  BY <1>10 DEF DoneAll
<1>11. ASSUME TypeOK, FailuresFirst, Ask
       PROVE  FailuresFirst'
  BY <1>11 DEF Ask
<1>12. ASSUME TypeOK, FailuresFirst, Gather
       PROVE  FailuresFirst'
  BY <1>12 DEF Gather, AtMost
<1>13. ASSUME TypeOK, FailuresFirst, Merge
       PROVE  FailuresFirst'
  BY <1>13 DEF Merge
<1>14. ASSUME TypeOK, FailuresFirst, CollectedAll
       PROVE  FailuresFirst'
  BY <1>14 DEF CollectedAll
<1>15. ASSUME TypeOK, FailuresFirst, IgnoreDeaths
       PROVE  FailuresFirst'
  BY <1>15 DEF IgnoreDeaths
<1>16. ASSUME TypeOK, FailuresFirst, Release
       PROVE  FailuresFirst'
  BY <1>16 DEF Release
<1>17. ASSUME TypeOK, FailuresFirst, SigPipe
       PROVE  FailuresFirst'
  BY <1>17 DEF SigPipe
<1>18. ASSUME TypeOK, FailuresFirst, ParErrKill
       PROVE  FailuresFirst'
  BY <1>18 DEF ParErrKill, Alive, Gone
<1>19. ASSUME TypeOK, FailuresFirst, ParErrWait
       PROVE  FailuresFirst'
  BY <1>19 DEF ParErrWait
<1>20. ASSUME TypeOK, FailuresFirst, Reap
       PROVE  FailuresFirst'
  BY <1>20 DEF Reap
<1>21. ASSUME TypeOK, FailuresFirst, CollectSignals("ready")
       PROVE  FailuresFirst'
  BY <1>21 DEF CollectSignals, AtMost
<1>22. ASSUME TypeOK, FailuresFirst, CollectSignals("done")
       PROVE  FailuresFirst'
  BY <1>22 DEF CollectSignals, AtMost
<1>23. ASSUME TypeOK, FailuresFirst, Alarm
       PROVE  FailuresFirst'
  BY <1>23 DEF Alarm
<1>24. ASSUME TypeOK, FailuresFirst, ForkFails
       PROVE  FailuresFirst'
  BY <1>24 DEF ForkFails, Fault, TypeOK
<1>25. ASSUME TypeOK, FailuresFirst, MallocFails
       PROVE  FailuresFirst'
  BY <1>25 DEF MallocFails, Fault, TypeOK
<1>26. ASSUME TypeOK, FailuresFirst, ParentTerm
       PROVE  FailuresFirst'
  BY <1>26 DEF ParentTerm, Fault, TypeOK
<1>27. ASSUME TypeOK, FailuresFirst, ParentKilled
       PROVE  FailuresFirst'
  BY <1>27 DEF ParentKilled, Fault, TypeOK
<1>28. ASSUME TypeOK, FailuresFirst, Finished
       PROVE  FailuresFirst'
  BY <1>28 DEF Finished, vars
<1>29. ASSUME TypeOK, FailuresFirst, NEW c \in Child,
              ChildStep(c) \/ Terminated(c) \/ Crash(c)
       PROVE  FailuresFirst'
  BY <1>29, ChildFailures
<1>30. ASSUME TypeOK, FailuresFirst, UNCHANGED vars
       PROVE  FailuresFirst'
  BY <1>30 DEF vars
<1>. QED
  BY <1>1, <1>2, <1>3, <1>4, <1>5, <1>6, <1>7, <1>8, <1>9, <1>10, <1>11,
     <1>12, <1>13, <1>14, <1>15, <1>16, <1>17, <1>18, <1>19, <1>20, <1>21,
     <1>22, <1>23, <1>24, <1>25, <1>26, <1>27, <1>28, <1>29, <1>30
     DEF Next, ParentStep

-----------------------------------------------------------------------------
(* Who owns the response pipe.                                             *)

LEMMA InertOwned ==
  ASSUME ReportOwned, NEW c \in Child, Inert(c)
  PROVE  ReportOwned'
<1>1. /\ UNCHANGED <<ppc, pi, published, merged, buf, wrote, response,
                     result_signal>>
      /\ \A d \in Child : cpc'[d] = "report" => cpc[d] = "report"
  BY DEF Inert
<1>2. \A o \in Child : Owns(o) => Owns(o)'
  BY <1>1 DEF Owns
<1>3. ReportIntact'
  BY <1>1 DEF ReportIntact, ReportOwned
<1>. QED
  BY <1>1, <1>2, <1>3 DEF ReportOwned, Closed

\* Nobody owns the pipe before reports are asked for.
LEMMA EarlyOwned ==
  ASSUME ReportOwned, ppc \notin Collecting, ~published,
         UNCHANGED <<ppc, published, buf>>
  PROVE  ReportOwned'
  BY DEF ReportOwned, ReportIntact, Collecting

LEMMA TakeResultSignalOwned ==
  ASSUME TypeOK, Counters, ReportOwned, NEW c \in Child, TakeResultSignal(c)
  PROVE  ReportOwned'
<1>1. /\ cpc[c] = "asked" /\ cpc' = [cpc EXCEPT ![c] = "report"]
      /\ result_signal > 0 \/ Closed
      /\ result_signal' = IF result_signal > 0 THEN result_signal - 1
                                               ELSE result_signal
      /\ UNCHANGED <<ppc, pi, published, merged, buf, wrote, response>>
  BY DEF TakeResultSignal, parentVars
<1>2. ReportIntact' /\ (published' => Closed')
  BY <1>1 DEF ReportIntact, ReportOwned, Closed
<1>3. ppc \notin {"ask", "collected", "release"}
  BY <1>1 DEF ReportOwned, Closed
<1>4. CASE ppc = "gather"
  <2>1. result_signal = 1 /\ response = <<>> /\ buf = <<>>
        /\ \A d \in Child : cpc[d] # "report"
    BY <1>1, <1>4 DEF ReportOwned, Closed
  <2>2. wrote[c] = 0
    BY <1>1 DEF Counters
  <2>3. \A n \in 1..Len(merged) : wrote[merged[n]] = Chunks
    BY <1>4 DEF ReportOwned, Collecting
  <2>4. \A n \in 1..Len(merged) : merged[n] # c
    BY <2>2, <2>3, HarnessAssumption
  <2>5. \A d \in Child : cpc'[d] = "report" => d = c
    BY <1>1, <2>1 DEF TypeOK
  <2>6. Owns(c)'
    BY <1>1, <2>1, <2>2, <2>4, <2>5 DEF Owns
  <2>7. result_signal' = 0
    BY <1>1, <2>1
  <2>8. ReportOwned' <=>
          /\ Len(merged) = pi
          /\ \A n \in 1..Len(merged) : wrote[merged[n]] = Chunks
          /\ \A m, n \in 1..Len(merged) : merged[m] = merged[n] => m = n
    BY <1>1, <1>2, <1>4, <2>6, <2>7 DEF ReportOwned, Collecting, Closed
  <2>. QED
    BY <1>4, <2>8 DEF ReportOwned, Collecting
<1>5. CASE ppc # "gather"
  BY <1>1, <1>2, <1>3, <1>5 DEF ReportOwned, Collecting
<1>. QED
  BY <1>4, <1>5

LEMMA ReportStepOwned ==
  ASSUME TypeOK, Counters, ReportOwned, NEW c \in Child, Report(c), ~Inert(c)
  PROVE  ReportOwned'
<1>1. /\ cpc[c] = "report" /\ ~Closed
      /\ response' = Append(response, Piece(c, wrote[c] + 1))
      /\ wrote' = [wrote EXCEPT ![c] = wrote[c] + 1]
      /\ cpc' = [cpc EXCEPT ![c] = IF wrote[c] + 1 = Chunks
                                   THEN "final" ELSE "report"]
      /\ UNCHANGED <<ppc, pi, published, merged, buf, result_signal>>
  BY ReportCases
<1>2. ReportIntact' /\ ~published
  BY <1>1 DEF ReportIntact, ReportOwned
<1>3. ppc \notin {"ask", "collected", "release"}
  BY <1>1 DEF ReportOwned
<1>4. CASE ppc = "gather"
  <2>1. result_signal = 0 /\ Owns(c)
    BY <1>1, <1>4 DEF ReportOwned, Owns
  <2>2. wrote'[c] = wrote[c] + 1 /\ wrote[c] \in Nat
        /\ \A d \in Child \ {c} : wrote'[d] = wrote[d]
    BY <1>1 DEF TypeOK
  <2>3. Piece(c, wrote[c] + 1) \in Message
    <3>1. wrote[c] + 1 \in 0..Chunks
      BY <1>1, HarnessAssumption DEF Counters, TypeOK
    <3>. QED
      BY <3>1, MessageTypes
  <2>4. /\ Len(response') = Len(response) + 1 /\ Len(response) \in Nat
        /\ \A n \in 1..Len(response) : response'[n] = response[n]
        /\ response'[Len(response) + 1] = Piece(c, wrote[c] + 1)
    <3>1. response \in Seq(Message)
      BY DEF TypeOK
    <3>. QED
      BY <1>1, <2>3, <3>1, Written
  <2>5. Len(buf) \in Nat /\ Len(buf) + Len(response) = wrote[c]
    BY <2>1 DEF Owns, TypeOK
  <2>6. Len(buf') + Len(response') = wrote'[c]
    BY <1>1, <2>2, <2>4, <2>5
  <2>7. ASSUME NEW n \in 1..Len(response')
        PROVE  response'[n] = Piece(c, Len(buf') + n)
    <3>1. CASE n \in 1..Len(response)
      BY <1>1, <2>1, <2>4, <3>1 DEF Owns
    <3>2. CASE n = Len(response) + 1
      <4>1. Len(buf) + n = wrote[c] + 1
        BY <2>4, <2>5, <3>2
      <4>. QED
        BY <1>1, <2>4, <3>2, <4>1
    <3>. QED
      BY <2>4, <3>1, <3>2
  <2>8. \A d \in Child : cpc'[d] = "report" => d = c
    BY <1>1, <2>1 DEF Owns, TypeOK
  <2>9. Owns(c)'
    BY <1>1, <2>1, <2>6, <2>7, <2>8 DEF Owns
  <2>10. /\ Len(merged) = pi
         /\ \A n \in 1..Len(merged) : wrote[merged[n]] = Chunks
         /\ \A m, n \in 1..Len(merged) : merged[m] = merged[n] => m = n
    BY <1>4 DEF ReportOwned, Collecting
  <2>11. \A n \in 1..Len(merged) : wrote'[merged[n]] = Chunks
    <3>1. \A n \in 1..Len(merged) : merged[n] \in Child \ {c}
      <4>1. merged \in Seq(Child)
        BY DEF TypeOK
      <4>2. \A n \in 1..Len(merged) : merged[n] \in Child
        BY <4>1
      <4>3. \A n \in 1..Len(merged) : merged[n] # c
        BY <2>1 DEF Owns
      <4>. QED
        BY <4>2, <4>3
    <3>. QED
      BY <2>2, <2>10, <3>1
  <2>. QED
    BY <1>1, <1>2, <1>4, <2>1, <2>9, <2>10, <2>11
       DEF ReportOwned, Collecting
<1>5. CASE ppc # "gather"
  BY <1>1, <1>2, <1>3, <1>5 DEF ReportOwned, Collecting
<1>. QED
  BY <1>4, <1>5

LEMMA ChildOwned ==
  ASSUME TypeOK, Counters, Buried, DoneCounted, ReportOwned, NEW c \in Child,
         ChildStep(c) \/ Terminated(c) \/ Crash(c)
  PROVE  ReportOwned'
<1>1. CASE Inert(c)
  BY <1>1, InertOwned
<1>2. CASE PollWarmup(c)
  <2>1. cpc[c] = "poll" /\ state[c] = "warmup"
        /\ UNCHANGED <<ppc, published, buf>>
    BY <1>2, PollWarmupCases
  <2>2. ppc \notin Collecting /\ ~published
    BY <2>1, NotCooled DEF Gone
  <2>. QED
    BY <2>1, <2>2, EarlyOwned
<1>3. CASE PollTiming(c) /\ ~Inert(c)
  <2>1. cpc[c] = "poll" /\ state[c] = "timing_interval"
        /\ UNCHANGED <<ppc, published, buf>>
    BY <1>3, PollTimingCases
  <2>2. ppc \notin Collecting /\ ~published
    BY <2>1, NotCooled DEF Gone
  <2>. QED
    BY <2>1, <2>2, EarlyOwned
<1>4. CASE PollCooldown(c) /\ ~Inert(c)
  <2>1. /\ cpc' = [cpc EXCEPT ![c] = "asked"]
        /\ UNCHANGED <<ppc, pi, published, merged, buf, wrote, response,
                       result_signal>>
    BY <1>4, PollCooldownCases
  <2>2. \A d \in Child : cpc'[d] = "report" => cpc[d] = "report"
    BY <2>1 DEF TypeOK
  <2>3. \A o \in Child : Owns(o) => Owns(o)'
    BY <2>1, <2>2 DEF Owns
  <2>4. ReportIntact'
    BY <2>1 DEF ReportIntact, ReportOwned
  <2>. QED
    BY <2>1, <2>2, <2>3, <2>4 DEF ReportOwned, Closed
<1>5. CASE TakeResultSignal(c)
  BY <1>5, TakeResultSignalOwned
<1>6. CASE Report(c) /\ ~Inert(c)
  BY <1>6, ReportStepOwned
<1>7. CASE \/ Initialized(c) \/ GiveUp(c) \/ Advance(c) \/ Exit(c)
           \/ Terminated(c) \/ Crash(c)
  BY <1>1, <1>7, PlainStepInert
<1>. QED
  BY <1>1, <1>2, <1>3, <1>4, <1>5, <1>6, <1>7 DEF ChildStep


\* The parent reads what is in the pipe, but no further than one report.
LEMMA GatherOwned ==
  ASSUME TypeOK, ReportOwned, Gather
  PROVE  ReportOwned'
<1>. DEFINE k == AtMost(Chunks - Len(buf))
<1>1. /\ ppc = "gather" /\ ppc' = "gather" /\ response # <<>>
      /\ buf' = buf \o SubSeq(response, 1, k)
      /\ response' = SubSeq(response, k + 1, Len(response))
      /\ UNCHANGED <<pi, published, merged, wrote, cpc, result_signal>>
  BY DEF Gather, childVars
<1>2. /\ buf \in Seq(Message) /\ response \in Seq(Message)
      /\ Len(buf) \in Nat /\ Len(response) \in Nat
  BY DEF TypeOK
<1>3. k \in 0..Len(response)
  BY <1>2, HarnessAssumption DEF Gather, AtMost
<1>. HIDE DEF k
<1>4. PICK o \in Child : Owns(o)
  BY <1>1 DEF ReportOwned
<1>5. /\ Len(buf') = Len(buf) + k /\ Len(response') = Len(response) - k
      /\ \A n \in 1..Len(buf) : buf'[n] = buf[n]
      /\ \A n \in 1..k : buf'[Len(buf) + n] = response[n]
      /\ \A n \in 1..(Len(response) - k) : response'[n] = response[k + n]
  BY <1>1, <1>2, <1>3, ReadFront
<1>6. Len(buf') + Len(response') = wrote[o]
  BY <1>2, <1>3, <1>4, <1>5 DEF Owns
<1>7. ASSUME NEW n \in 1..Len(buf')
      PROVE  buf'[n] = Piece(o, n)
  <2>1. CASE n \in 1..Len(buf)
    BY <1>4, <1>5, <2>1 DEF Owns
  <2>2. CASE n \notin 1..Len(buf)
    <3>1. n - Len(buf) \in 1..k /\ n - Len(buf) \in 1..Len(response)
          /\ n = Len(buf) + (n - Len(buf))
      BY <1>2, <1>3, <1>5, <2>2
    <3>2. buf'[n] = response[n - Len(buf)]
      BY <1>5, <3>1
    <3>. QED
      BY <1>4, <3>1, <3>2 DEF Owns
  <2>. QED
    BY <2>1, <2>2
<1>8. ASSUME NEW n \in 1..Len(response')
      PROVE  response'[n] = Piece(o, Len(buf') + n)
  <2>1. k + n \in 1..Len(response) /\ Len(buf) + (k + n) = Len(buf') + n
    BY <1>2, <1>3, <1>5
  <2>2. response'[n] = response[k + n]
    BY <1>5
  <2>. QED
    BY <1>4, <2>1, <2>2 DEF Owns
<1>9. Owns(o)'
  BY <1>1, <1>4, <1>6, <1>7, <1>8 DEF Owns
<1>10. ReportIntact'
  <2>1. ASSUME NEW n \in 1..Len(buf')
        PROVE  buf'[n] = Piece(buf'[1].from, n)
    <3>1. 1 \in 1..Len(buf')
      BY <1>2, <1>3, <1>5
    <3>2. buf'[1] = Piece(o, 1)
      BY <1>7, <3>1
    <3>3. buf'[1].from = o
      BY <3>2 DEF Piece
    <3>. QED
      BY <1>7, <3>3
  <2>. QED
    BY <2>1 DEF ReportIntact
<1>11. result_signal = 0
  BY <1>1 DEF ReportOwned
<1>. QED
  BY <1>1, <1>9, <1>10, <1>11 DEF ReportOwned, Collecting, Closed

\* A whole report is merged: its owner has written it all.
LEMMA MergeOwned ==
  ASSUME TypeOK, Counters, ReportOwned, Merge
  PROVE  ReportOwned'
<1>1. /\ ppc = "gather" /\ ppc' = "ask" /\ Len(buf) = Chunks
      /\ merged' = Append(merged, buf[1].from)
      /\ pi' = pi + 1 /\ buf' = <<>>
      /\ UNCHANGED <<published, response, wrote, cpc, result_signal>>
  BY DEF Merge, pipeVars, childVars
<1>2. PICK o \in Child : Owns(o) /\ result_signal = 0
  BY <1>1, HarnessAssumption DEF ReportOwned
<1>3. buf[1].from = o
  <2>1. 1 \in 1..Len(buf)
    BY <1>1, HarnessAssumption
  <2>2. buf[1] = Piece(o, 1)
    BY <1>2, <2>1 DEF Owns
  <2>. QED
    BY <2>2 DEF Piece
<1>4. wrote[o] = Chunks /\ Len(response) = 0
  BY <1>1, <1>2, HarnessAssumption DEF Owns, TypeOK
<1>5. response = <<>>
  BY <1>4, EmptySeq DEF TypeOK
<1>6. \A d \in Child : cpc[d] # "report"
  BY <1>2, <1>4, HarnessAssumption DEF Owns, Counters
<1>7. /\ Len(merged') = Len(merged) + 1 /\ Len(merged) \in Nat
      /\ \A n \in 1..Len(merged) : merged'[n] = merged[n]
      /\ merged'[Len(merged) + 1] = o
  <2>1. merged \in Seq(Child)
    BY DEF TypeOK
  <2>. QED
    BY <1>1, <1>3, <2>1, Written
<1>8. \A n \in 1..Len(merged') : n \in 1..Len(merged) \/ n = Len(merged) + 1
  BY <1>7
<1>9. /\ Len(merged) = pi
      /\ \A n \in 1..Len(merged) : wrote[merged[n]] = Chunks
      /\ \A m, n \in 1..Len(merged) : merged[m] = merged[n] => m = n
      /\ \A n \in 1..Len(merged) : merged[n] # o
  BY <1>1, <1>2 DEF ReportOwned, Owns, Collecting
<1>10. \A n \in 1..Len(merged') : wrote[merged'[n]] = Chunks
  BY <1>4, <1>7, <1>8, <1>9
<1>11. \A m, n \in 1..Len(merged') : merged'[m] = merged'[n] => m = n
  BY <1>7, <1>8, <1>9
<1>12. Len(merged') = pi'
  BY <1>1, <1>7, <1>9
<1>13. ReportIntact' /\ ~published
  BY <1>1 DEF ReportIntact, ReportOwned, Closed
<1>. QED
  BY <1>1, <1>2, <1>5, <1>6, <1>10, <1>11, <1>12, <1>13
     DEF ReportOwned, Collecting

\* In each step of the parent the pipe passes from one owner to the next.
LEMMA OwnedStep ==
  TypeOK /\ Counters /\ Buried /\ DoneCounted /\ ReportOwned
    /\ [Next]_vars => ReportOwned'
<1> USE DEF ReportOwned, ReportIntact, Collecting, Closed
<1> USE DEF parentVars, pipeVars, childVars
<1>1. ASSUME TypeOK, Counters, Buried, DoneCounted, ReportOwned, ForkCheck
       PROVE  ReportOwned'
  BY <1>1 DEF ForkCheck
<1>2. ASSUME TypeOK, Counters, Buried, DoneCounted, ReportOwned, Fork
       PROVE  ReportOwned'
  BY <1>2 DEF Fork
<1>3. ASSUME TypeOK, Counters, Buried, DoneCounted, ReportOwned, ForkedAll
       PROVE  ReportOwned'
  BY <1>3 DEF ForkedAll
<1>4. ASSUME TypeOK, Counters, Buried, DoneCounted, ReportOwned, ForkErrKill
       PROVE  ReportOwned'
  BY <1>4 DEF ForkErrKill, Alive, Gone
<1>5. ASSUME TypeOK, Counters, Buried, DoneCounted, ReportOwned, ForkErrWait
       PROVE  ReportOwned'
  BY <1>5 DEF ForkErrWait
<1>6. ASSUME TypeOK, Counters, Buried, DoneCounted, ReportOwned, Check
       PROVE  ReportOwned'
  BY <1>6 DEF Check
<1>7. ASSUME TypeOK, Counters, Buried, DoneCounted, ReportOwned, Abandon
       PROVE  ReportOwned'
  BY <1>7 DEF Abandon
<1>8. ASSUME TypeOK, Counters, Buried, DoneCounted, ReportOwned, ReadyAll
       PROVE  ReportOwned'
  BY <1>8 DEF ReadyAll
<1>9. ASSUME TypeOK, Counters, Buried, DoneCounted, ReportOwned, Start
       PROVE  ReportOwned'
  BY <1>9 DEF Start
<1>10. ASSUME TypeOK, Counters, Buried, DoneCounted, ReportOwned, DoneAll
       PROVE  ReportOwned'
  <2>1. /\ ppc = "done" /\ ppc' = "ask" /\ pi = P /\ pi' = 0
        /\ merged' = <<>>
        /\ UNCHANGED <<buf, response, result_signal, cpc, published>>
    BY <1>10 DEF DoneAll
  <2>2. result_signal = 0 /\ \A c \in Child : cpc[c] # "report"
    BY <1>10, <2>1 DEF DoneCounted, Stopping
  <2>3. Cardinality(Cooled) = Len(response) + P
    BY <1>10, <2>1 DEF DoneCounted
  <2>4. Cardinality(Cooled) \in 0..P /\ Len(response) \in Nat
    BY <1>10, AllChildren DEF Cooled, TypeOK
  <2>5. Len(response) = 0
    BY <2>3, <2>4, HarnessAssumption
  <2>6. response = <<>>
    BY <1>10, <2>5, EmptySeq DEF TypeOK
  <2>7. ~published
    BY <1>10, <2>1
  <2>. QED
    BY <1>10, <2>1, <2>2, <2>6, <2>7
<1>11. ASSUME TypeOK, Counters, Buried, DoneCounted, ReportOwned, Ask
       PROVE  ReportOwned'
  BY <1>11 DEF Ask
<1>12. ASSUME TypeOK, Counters, Buried, DoneCounted, ReportOwned, Gather
       PROVE  ReportOwned'
  BY <1>12, GatherOwned
<1>13. ASSUME TypeOK, Counters, Buried, DoneCounted, ReportOwned, Merge
       PROVE  ReportOwned'
  BY <1>13, MergeOwned
<1>14. ASSUME TypeOK, Counters, Buried, DoneCounted, ReportOwned, CollectedAll
       PROVE  ReportOwned'
  BY <1>14 DEF CollectedAll
<1>15. ASSUME TypeOK, Counters, Buried, DoneCounted, ReportOwned, IgnoreDeaths
       PROVE  ReportOwned'
  BY <1>15 DEF IgnoreDeaths
<1>16. ASSUME TypeOK, Counters, Buried, DoneCounted, ReportOwned, Release
       PROVE  ReportOwned'
  BY <1>16 DEF Release
<1>17. ASSUME TypeOK, Counters, Buried, DoneCounted, ReportOwned, SigPipe
       PROVE  ReportOwned'
  BY <1>17 DEF SigPipe
<1>18. ASSUME TypeOK, Counters, Buried, DoneCounted, ReportOwned, ParErrKill
       PROVE  ReportOwned'
  BY <1>18 DEF ParErrKill, Alive, Gone
<1>19. ASSUME TypeOK, Counters, Buried, DoneCounted, ReportOwned, ParErrWait
       PROVE  ReportOwned'
  BY <1>19 DEF ParErrWait
<1>20. ASSUME TypeOK, Counters, Buried, DoneCounted, ReportOwned, Reap
       PROVE  ReportOwned'
  BY <1>20 DEF Reap
<1>21. ASSUME TypeOK, Counters, Buried, DoneCounted, ReportOwned, CollectSignals("ready")
       PROVE  ReportOwned'
  BY <1>21 DEF CollectSignals, AtMost
<1>22. ASSUME TypeOK, Counters, Buried, DoneCounted, ReportOwned, CollectSignals("done")
       PROVE  ReportOwned'
  BY <1>22 DEF CollectSignals, AtMost
<1>23. ASSUME TypeOK, Counters, Buried, DoneCounted, ReportOwned, Alarm
       PROVE  ReportOwned'
  BY <1>23 DEF Alarm
<1>24. ASSUME TypeOK, Counters, Buried, DoneCounted, ReportOwned, ForkFails
       PROVE  ReportOwned'
  BY <1>24 DEF ForkFails, Fault
<1>25. ASSUME TypeOK, Counters, Buried, DoneCounted, ReportOwned, MallocFails
       PROVE  ReportOwned'
  BY <1>25 DEF MallocFails, Fault
<1>26. ASSUME TypeOK, Counters, Buried, DoneCounted, ReportOwned, ParentTerm
       PROVE  ReportOwned'
  BY <1>26 DEF ParentTerm, Fault, Owns
<1>27. ASSUME TypeOK, Counters, Buried, DoneCounted, ReportOwned, ParentKilled
       PROVE  ReportOwned'
  BY <1>27 DEF ParentKilled, Fault
<1>28. ASSUME TypeOK, Counters, Buried, DoneCounted, ReportOwned, Finished
       PROVE  ReportOwned'
  BY <1>28 DEF Finished, vars
<1>29. ASSUME TypeOK, Counters, Buried, DoneCounted, ReportOwned, NEW c \in Child,
              ChildStep(c) \/ Terminated(c) \/ Crash(c)
       PROVE  ReportOwned'
  BY <1>29, ChildOwned
<1>30. ASSUME TypeOK, Counters, Buried, DoneCounted, ReportOwned, UNCHANGED vars
       PROVE  ReportOwned'
  BY <1>30 DEF vars, Owns
<1>. QED
  BY <1>1, <1>2, <1>3, <1>4, <1>5, <1>6, <1>7, <1>8, <1>9, <1>10, <1>11,
     <1>12, <1>13, <1>14, <1>15, <1>16, <1>17, <1>18, <1>19, <1>20, <1>21,
     <1>22, <1>23, <1>24, <1>25, <1>26, <1>27, <1>28, <1>29, <1>30
     DEF Next, ParentStep

-----------------------------------------------------------------------------
(* The theorems.                                                           *)

LEMMA HarnessInit == Init => HarnessInv
<1>. SUFFICES ASSUME Init PROVE HarnessInv
  OBVIOUS
<1>1. BarrierInv
  BY BarrierInit
<1>. USE DEF Init
<1>2. DoneCounted
  BY DEF DoneCounted, Starting, Stopping, Collecting
<1>3. KindsCounted
  BY DEF KindsCounted
<1>4. ReportOwned
  BY DEF ReportOwned, ReportIntact, Collecting
<1>5. FailuresFirst
  BY DEF FailuresFirst
<1>. QED
  BY <1>1, <1>2, <1>3, <1>4, <1>5 DEF HarnessInv

\* Every reachable state satisfies the inductive invariant of the result
\* barrier: `done' is counted as `ready' is, the response pipe has one owner
\* while a report is collected, and before the exit signals only a failure
\* makes a child leave.
THEOREM HarnessInvariant == Spec => []HarnessInv
<1>1. HarnessInv /\ [Next]_vars => HarnessInv'
  <2>1. HarnessInv /\ [Next]_vars => BarrierInv'
    BY TypeStep, CountersStep, BuriedStep, ReadyStep
       DEF HarnessInv, BarrierInv
  <2>. QED
    BY <2>1, DoneStep, KindsStep, OwnedStep, FailuresStep
       DEF HarnessInv, BarrierInv
<1>. QED
  BY HarnessInit, <1>1, PTL DEF Spec

\* While the parent lives, no child of benchmp() stops its load to report
\* before every child has made all its measurements, for any number of
\* children and whatever fails: the result barrier.
THEOREM ResultBarrier == Spec => []LoadOutlastsMeasurement
<1>1. HarnessInv => LoadOutlastsMeasurement
  BY DEF HarnessInv, DoneCounted, Cooled, LoadOutlastsMeasurement
<1>. QED
  BY HarnessInvariant, <1>1, PTL

\* The bytes benchmp_parent() counts in a phase are of that phase, each child
\* takes one start signal, and a death noted before the exit signals is a
\* failure: for any number of children, signals and phases keep in step.
THEOREM SignalsKeepStep == Spec => []SignalsInStep
<1>1. HarnessInv => SignalsMatchPhase
  <2>. SUFFICES ASSUME HarnessInv, NEW n \in 1..Len(response)
                PROVE  /\ ppc \in Starting => response[n].kind = "ready"
                       /\ ppc = "done" => response[n].kind = "done"
                       /\ ppc = "gather" => response[n].kind = "piece"
                       /\ ppc \notin {"start", "ask", "collected", "release"}
    BY DEF SignalsMatchPhase, Starting
  <2>1. /\ ppc \in Starting => response[n].kind = "ready"
        /\ ppc = "done" => response[n].kind = "done"
    BY DEF HarnessInv, KindsCounted
  <2>2. response # <<>>
    OBVIOUS
  <2>3. ppc \notin {"start", "ask", "collected", "release"}
    BY <2>2 DEF HarnessInv, DoneCounted, ReportOwned
  <2>4. ASSUME ppc = "gather" PROVE response[n].kind = "piece"
    <3>1. PICK o \in Child : Owns(o)
      BY <2>2, <2>4 DEF HarnessInv, ReportOwned
    <3>2. response[n] = Piece(o, Len(buf) + n)
      BY <3>1 DEF Owns
    <3>. QED
      BY <3>2 DEF Piece
  <2>. QED
    BY <2>1, <2>3, <2>4
<1>2. HarnessInv => StartSignalsConserved
  <2>. SUFFICES ASSUME HarnessInv PROVE StartSignalsConserved
    OBVIOUS
  <2>1. ppc = "done" => start_signal = Cardinality(Warm)
    BY DEF HarnessInv, DoneCounted
  <2>2. ppc \in Collecting => start_signal = 0 /\ Cooled = Child
    BY DEF HarnessInv, DoneCounted
  <2>3. Cooled = Child => Warm = {}
    BY DEF Cooled, Warm
  <2>4. Cardinality({}) = 0
    BY FS_EmptySet
  <2>5. ppc \in Collecting => start_signal = Cardinality(Warm)
    BY <2>2, <2>3, <2>4
  <2>. QED
    BY <2>1, <2>5 DEF StartSignalsConserved, Warm, Collecting
<1>3. HarnessInv => DeathIsFailure
  BY DEF HarnessInv, FailuresFirst, DeathIsFailure
<1>4. HarnessInv => SignalsInStep
  BY <1>1, <1>2, <1>3 DEF SignalsInStep
<1>. QED
  BY HarnessInvariant, <1>4, PTL

\* P reports of different children are the reports of all children.
LEMMA AllMerged ==
  ASSUME TypeOK, Len(merged) = P,
         \A m, n \in 1..Len(merged) : merged[m] = merged[n] => m = n
  PROVE  \A c \in Child : \E n \in 1..P : merged[n] = c
<1>1. merged \in [Child -> Child]
  BY DEF TypeOK, Child
<1>2. merged \in Injection(Child, Child)
  BY <1>1 DEF Injection, IsInjective, Child
<1>3. merged \in Surjection(Child, Child)
  BY <1>2, ChildFinite, FS_Injection
<1>. QED
  BY <1>3 DEF Surjection, Child

\* What benchmp_parent() reads as one report is one child's, whole and in
\* order, and a result is published only if it holds every child's report
\* once: for any number of children and any size of report.
THEOREM ReportsWhole == Spec => []ResultsWhole
<1>1. HarnessInv => ReportIntact
  BY DEF HarnessInv, ReportOwned
<1>2. HarnessInv => PublishedIsComplete
  BY AllMerged
     DEF HarnessInv, BarrierInv, ReportOwned, PublishedIsComplete
<1>3. HarnessInv => ResultsWhole
  BY <1>1, <1>2 DEF ResultsWhole
<1>. QED
  BY HarnessInvariant, <1>3, PTL

-----------------------------------------------------------------------------
(* The promise of the harness: each step is one of Harness, or a stutter.  *)

promised == <<Readied, Begun, Cooled, Reported, Outcome>>

LEMMA OutcomeKept ==
  ASSUME UNCHANGED <<ppc, published>>
  PROVE  Outcome' = Outcome
  BY DEF Outcome, Failing

LEMMA PollWarmupPromise ==
  ASSUME TypeOK, Buried, ReadyCounted, DoneCounted, NEW c \in Child,
         PollWarmup(c)
  PROVE  Promise!Next \/ UNCHANGED promised
<1>1. /\ cpc[c] = "poll" /\ state[c] = "warmup"
      /\ UNCHANGED <<ppc, published, wrote>>
  BY PollWarmupCases
<1>2. Outcome' = Outcome /\ Reported' = Reported
  BY <1>1, OutcomeKept DEF Reported
<1>3. ~published /\ (ppc # "killed" => ~Closed)
  BY <1>1, NotCooled DEF Gone
<1>4. CASE need_warmup[c] /\ Closed
  <2>1. UNCHANGED <<state, need_warmup>>
    BY <1>4, PollWarmupCases
  <2>. QED
    BY <1>2, <2>1 DEF promised, Readied, Begun, Cooled
<1>5. CASE need_warmup[c] /\ ~Closed
  <2>1. start_signal = 0
    BY <1>5 DEF ReadyCounted, Readied, TypeOK
  <2>2. /\ state' = [state EXCEPT ![c] = "warmup"]
        /\ need_warmup' = [need_warmup EXCEPT ![c] = FALSE]
    BY <1>5, <2>1, PollWarmupCases
  <2>3. state' = state
    BY <1>1, <2>2 DEF TypeOK
  <2>4. Begun' = Begun /\ Cooled' = Cooled
    BY <2>3 DEF Begun, Cooled
  <2>5. Readied' = Readied \cup {c}
    BY <2>2 DEF Readied, TypeOK
  <2>6. Promise!BecomeReady(c)
    BY <1>2, <2>4, <2>5 DEF Promise!BecomeReady
  <2>. QED
    BY <2>6 DEF Promise!Next, Promise!Child, Child
<1>6. CASE ~need_warmup[c]
  <2>1. /\ state' = [state EXCEPT ![c] = IF start_signal > 0 \/ Closed
                                    THEN "timing_interval" ELSE "warmup"]
        /\ need_warmup' = [need_warmup EXCEPT ![c] = FALSE]
    BY <1>6, PollWarmupCases
  <2>2. Readied' = Readied
    BY <1>6, <2>1 DEF Readied, TypeOK
  <2>3. Cooled' = Cooled
    BY <1>1, <2>1 DEF Cooled, TypeOK
  <2>4. CASE start_signal > 0 \/ Closed
    <3>1. Begun' = Begun \cup {c}
      BY <2>1, <2>4 DEF Begun, TypeOK
    <3>2. start_signal > 0 => Readied = Child
      BY DEF ReadyCounted
    <3>3. ppc = "killed" => Outcome = "failed"
      BY <1>3 DEF Outcome, Failing
    <3>4. Readied = Child \/ Outcome = "failed"
      BY <1>3, <2>4, <3>2, <3>3
    <3>5. Promise!Begin(c)
      BY <1>2, <2>2, <2>3, <3>1, <3>4
         DEF Promise!Begin, Promise!Child, Child
    <3>. QED
      BY <3>5 DEF Promise!Next, Promise!Child, Child
  <2>5. CASE ~(start_signal > 0 \/ Closed)
    <3>1. state' = state
      BY <1>1, <2>1, <2>5 DEF TypeOK
    <3>. QED
      BY <1>2, <2>2, <3>1 DEF promised, Begun, Cooled
  <2>. QED
    BY <2>4, <2>5
<1>. QED
  BY <1>4, <1>5, <1>6

LEMMA PollTimingPromise ==
  ASSUME TypeOK, NEW c \in Child, PollTiming(c), ~Inert(c)
  PROVE  Promise!Next
<1>1. /\ state[c] = "timing_interval"
      /\ UNCHANGED <<ppc, published, wrote, need_warmup>>
      /\ state' = [state EXCEPT ![c] = "cooldown"]
  BY PollTimingCases
<1>2. Outcome' = Outcome /\ Reported' = Reported /\ Readied' = Readied
  BY <1>1, OutcomeKept DEF Reported, Readied
<1>3. Cooled' = Cooled \cup {c} /\ Begun' = Begun /\ c \in Begun
  BY <1>1 DEF Cooled, Begun, TypeOK
<1>4. Promise!Finish(c)
  BY <1>2, <1>3 DEF Promise!Finish
<1>. QED
  BY <1>4 DEF Promise!Next, Promise!Child, Child

LEMMA ReportPromise ==
  ASSUME TypeOK, Counters, DoneCounted, NEW c \in Child, Report(c), ~Inert(c)
  PROVE  Promise!Next \/ UNCHANGED promised
<1>1. /\ cpc[c] = "report" /\ ~Closed
      /\ wrote' = [wrote EXCEPT ![c] = wrote[c] + 1]
      /\ UNCHANGED <<ppc, published, state, need_warmup>>
  BY ReportCases
<1>2. /\ Outcome' = Outcome /\ Readied' = Readied /\ Begun' = Begun
      /\ Cooled' = Cooled
  BY <1>1, OutcomeKept DEF Begun, Readied, Cooled
<1>3. wrote[c] \in Nat /\ wrote[c] # Chunks
  BY <1>1, HarnessAssumption DEF Counters, TypeOK
<1>4. CASE wrote[c] + 1 = Chunks
  <2>1. Reported' = Reported \cup {c}
    BY <1>1, <1>4 DEF Reported, TypeOK
  <2>2. Cooled = Child
    BY <1>1 DEF DoneCounted, Stopping, Closed
  <2>3. Promise!Report(c)
    BY <1>2, <2>1, <2>2 DEF Promise!Report, Promise!Child, Child
  <2>. QED
    BY <2>3 DEF Promise!Next, Promise!Child, Child
<1>5. CASE wrote[c] + 1 # Chunks
  <2>1. Reported' = Reported
    BY <1>1, <1>3, <1>5 DEF Reported, TypeOK
  <2>. QED
    BY <1>2, <2>1 DEF promised
<1>. QED
  BY <1>4, <1>5

LEMMA ChildPromise ==
  ASSUME TypeOK, Counters, Buried, ReadyCounted, DoneCounted, NEW c \in Child,
         ChildStep(c) \/ Terminated(c) \/ Crash(c)
  PROVE  Promise!Next \/ UNCHANGED promised
<1>1. CASE UNCHANGED <<ppc, published, state, need_warmup, wrote>>
  BY <1>1, OutcomeKept DEF promised, Readied, Begun, Cooled, Reported
<1>2. CASE Inert(c)
  BY <1>1, <1>2 DEF Inert
<1>3. CASE PollCooldown(c) \/ TakeResultSignal(c)
  BY <1>1, <1>3 DEF PollCooldown, TakeResultSignal, parentVars
<1>. QED
  BY <1>2, <1>3, PlainStepInert, PollWarmupPromise, PollTimingPromise,
     ReportPromise DEF ChildStep

\* The parent alone decides the outcome, and once.
LEMMA ReleasePromise ==
  ASSUME TypeOK, ReportOwned, Release
  PROVE  Promise!Next
<1>1. /\ ppc = "release" /\ published' = TRUE
      /\ UNCHANGED <<state, need_warmup, wrote>>
  BY DEF Release, childVars
<1>2. ~published
  BY <1>1 DEF ReportOwned, Closed
<1>3. Outcome = "running" /\ Outcome' = "ok"
  BY <1>1, <1>2 DEF Outcome, Failing
<1>4. UNCHANGED <<Readied, Begun, Cooled, Reported>>
  BY <1>1 DEF Readied, Begun, Cooled, Reported
<1>5. Reported = Child
  <2>1. /\ Len(merged) = P
        /\ \A n \in 1..Len(merged) : wrote[merged[n]] = Chunks
        /\ \A m, n \in 1..Len(merged) : merged[m] = merged[n] => m = n
    BY <1>1 DEF ReportOwned, Collecting
  <2>2. \A c \in Child : \E n \in 1..P : merged[n] = c
    BY <2>1, AllMerged
  <2>. QED
    BY <2>1, <2>2 DEF Reported
<1>6. Promise!Succeed
  BY <1>3, <1>4, <1>5 DEF Promise!Succeed, Promise!Child, Child
<1>. QED
  BY <1>6 DEF Promise!Next

\* In any other step the parent only ever gives up.
LEMMA OtherPromise ==
  ASSUME published' = published, published => Closed,
         UNCHANGED <<state, need_warmup, wrote>>,
         ppc \in Failing \cup {"reap", "returned"} /\ ~published =>
             ppc' \in Failing \cup {"reap", "returned"}
  PROVE  Promise!Next \/ UNCHANGED promised
<1>1. UNCHANGED <<Readied, Begun, Cooled, Reported>>
  BY DEF Readied, Begun, Cooled, Reported
<1>2. Outcome' = Outcome \/ (Outcome = "running" /\ Outcome' = "failed")
  BY DEF Outcome
<1>3. CASE Outcome' = Outcome
  BY <1>1, <1>3 DEF promised
<1>4. CASE Outcome = "running" /\ Outcome' = "failed"
  <2>1. Promise!Fail
    BY <1>1, <1>4 DEF Promise!Fail
  <2>. QED
    BY <2>1 DEF Promise!Next
<1>. QED
  BY <1>2, <1>3, <1>4

LEMMA PromiseStep ==
  HarnessInv /\ [Next]_vars => [Promise!Next]_(Promise!vars)
<1>. SUFFICES ASSUME HarnessInv, [Next]_vars
              PROVE  Promise!Next \/ UNCHANGED promised
  BY DEF promised, Promise!vars
<1>0. /\ TypeOK /\ Counters /\ Buried /\ ReadyCounted /\ DoneCounted
      /\ ReportOwned /\ (published => Closed)
  BY DEF HarnessInv, BarrierInv, ReportOwned
<1>1. CASE \E c \in Child : ChildStep(c) \/ Terminated(c) \/ Crash(c)
  BY <1>0, <1>1, ChildPromise
<1>2. CASE Release
  BY <1>0, <1>2, ReleasePromise
<1>3. CASE \/ ForkCheck \/ Fork \/ ForkedAll \/ ForkErrKill \/ ForkErrWait
           \/ Check \/ Abandon \/ ReadyAll \/ Start \/ DoneAll
  BY <1>0, <1>3, OtherPromise
     DEF ForkCheck, Fork, ForkedAll, ForkErrKill, ForkErrWait, Check,
         Abandon, ReadyAll, Start, DoneAll, Failing, childVars
<1>4. CASE \/ Ask \/ Gather \/ Merge \/ CollectedAll \/ IgnoreDeaths \/ SigPipe
           \/ ParErrKill \/ ParErrWait \/ Reap \/ Alarm
  BY <1>0, <1>4, OtherPromise
     DEF Ask, Gather, Merge, CollectedAll, IgnoreDeaths, SigPipe,
         ParErrKill, ParErrWait, Reap, Alarm, Failing, childVars
<1>5. CASE \/ CollectSignals("ready") \/ CollectSignals("done")
           \/ ForkFails \/ MallocFails \/ ParentTerm \/ ParentKilled
  BY <1>0, <1>5, OtherPromise
     DEF CollectSignals, ForkFails, MallocFails, ParentTerm, ParentKilled,
         Failing, childVars
<1>6. CASE UNCHANGED vars
  BY <1>0, <1>6, OtherPromise DEF vars, parentVars, childVars
<1>. QED
  BY <1>1, <1>2, <1>3, <1>4, <1>5, <1>6 DEF Next, ParentStep, Finished

\* benchmp() implements the harness of doc/lmbench3.ms: its children become
\* ready, begin, finish and report behind the two barriers, and the outcome
\* is decided once, for any number of children and whatever fails.
THEOREM HarnessImplemented == Spec => PromiseKept
<1>1. Init => Promise!Init
  <2>. SUFFICES ASSUME Init PROVE Promise!Init
    OBVIOUS
  <2>1. Readied = {} /\ Begun = {} /\ Cooled = {} /\ Reported = {}
    BY HarnessAssumption DEF Init, Readied, Begun, Cooled, Reported
  <2>2. Outcome = "running"
    BY DEF Init, Outcome, Failing
  <2>. QED
    BY <2>1, <2>2 DEF Promise!Init
<1>. QED
  BY <1>1, PromiseStep, HarnessInvariant, PTL
     DEF Spec, PromiseKept, Promise!Spec
=============================================================================
