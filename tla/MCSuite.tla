------------------------------ MODULE MCSuite ------------------------------
(* Suite with the programs, command lines, chains and machines examined.   *)
EXTENDS Suite

MCBenchmarks ==
    {LatPipe, LatUnix, LatFifo, LatSem, LatFcntl, BwPipe, BwUnix, LatProc,
     LatCmd, LatPmake, LatFs, BwFileRd, BwMmapRd, LatMmap, LatPagefault,
     LatSelect, LatSig}

\* Copies with an odd end, touch= and skip=; patterns that are written, and
\* compared with mismatch= and padin=; fork= with output and without;
\* append=; rand= with norepeat=, with end=, with the end of the input and
\* with fork=; padin= in a copy; ipat= without input; blocks that are no power
\* of two, and no words; rand= of one block, which is an offset below zero, and
\* of two; end= without rand=, where a pattern begins within a word; norepeat=
\* without count=; and a pipe, copied, compared, positioned and overwritten by
\* a pattern.
MCCommands ==
    {[Command EXCEPT !.if = 18, !.of = 0],
     [Command EXCEPT !.if = 24, !.of = 0, !.touch = TRUE, !.skip = 1],
     [Command EXCEPT !.of = 0, !.opat = TRUE, !.count = 3, !.time = TRUE],
     [Command EXCEPT !.if = 24, !.ipat = TRUE, !.mismatch = 2],
     [Command EXCEPT !.if = 24, !.ipat = TRUE, !.mismatch = 2, !.padin = TRUE,
                     !.count = 2],
     [Command EXCEPT !.if = 24, !.of = 0, !.opat = TRUE, !.fork = TRUE],
     [Command EXCEPT !.if = 24, !.fork = TRUE],
     [Command EXCEPT !.of = 8, !.append = TRUE, !.opat = TRUE, !.count = 1],
     [Command EXCEPT !.if = 40, !.rand = 40, !.norepeat = TRUE, !.count = 4,
                     !.ipat = TRUE],
     [Command EXCEPT !.of = 0, !.opat = TRUE, !.rand = 32, !.end = 16,
                     !.start = 8, !.count = 4],
     [Command EXCEPT !.if = 24, !.of = 0, !.padin = TRUE],
     [Command EXCEPT !.of = 0, !.ipat = TRUE, !.mismatch = 2, !.count = 2],
     [Command EXCEPT !.if = 18, !.of = 0, !.rand = 32, !.touch = TRUE,
                     !.count = 3],
     [Command EXCEPT !.if = 40, !.of = 0, !.rand = 40, !.fork = TRUE,
                     !.count = 2],
     [Command EXCEPT !.if = 48, !.bs = 12, !.rand = 40, !.count = 2],
     [Command EXCEPT !.if = 14, !.of = 0, !.bs = 6, !.touch = TRUE],
     [Command EXCEPT !.if = 24, !.of = 0, !.rand = 8, !.touch = TRUE,
                     !.count = 2],
     [Command EXCEPT !.of = 0, !.opat = TRUE, !.rand = 8, !.count = 1],
     [Command EXCEPT !.if = 24, !.rand = 16, !.ipat = TRUE, !.mismatch = 1,
                     !.count = 2],
     [Command EXCEPT !.if = 18, !.of = 0, !.opat = TRUE, !.end = 12,
                     !.touch = TRUE, !.count = 3],
     [Command EXCEPT !.if = 24, !.rand = 32, !.start = 8, !.norepeat = TRUE],
     [Command EXCEPT !.if = 10, !.pipe = TRUE, !.of = 0],
     [Command EXCEPT !.if = 10, !.pipe = TRUE, !.ipat = TRUE, !.mismatch = 2],
     [Command EXCEPT !.if = 14, !.pipe = TRUE, !.of = 0, !.skip = 1,
                     !.count = 2],
     [Command EXCEPT !.if = 14, !.pipe = TRUE, !.of = 0, !.opat = TRUE,
                     !.skip = 1, !.count = 2]}

\* Every kind of chain, with lengths that end inside a line and a page, and
\* numbers of lines that are no power of two.
MCLayouts ==
    {[Layout EXCEPT !.kind = "stride", !.len = 7],
     [Layout EXCEPT !.kind = "thrash"],
     [Layout EXCEPT !.kind = "thrash", !.len = 4, !.line = 1],
     [Layout EXCEPT !.kind = "thrash", !.len = 6, !.line = 1],
     [Layout EXCEPT !.narrow = {4, 8, 12}],
     [Layout EXCEPT !.len = 12],
     [Layout EXCEPT !.len = 24, !.max = 24, !.page = 8, !.group = 2],
     [Layout EXCEPT !.kind = "line", !.narrow = {1, 2}],
     [Layout EXCEPT !.kind = "tlb", !.len = 24, !.max = 24]}

\* Every policy; more processors than processes, and fewer; processors that
\* may not be used; a list that runs on into the next environment string.
Policies == {"DEFAULT", "SINGLE", "BALANCED", "BALANCED_SPREAD", "UNIQUE",
             "UNIQUE_SPREAD", "CUSTOM", "CUSTOM_SPREAD"}
Four == [Host EXCEPT !.env = <<[nums |-> <<1, 0>>, digit |-> TRUE],
                               [nums |-> <<3>>, digit |-> FALSE]>>]
Eight == [Four EXCEPT !.online = 8, !.allowed = 0..6]
MCHosts ==
    {[Four EXCEPT !.policy = name] : name \in Policies}
    \cup {[Eight EXCEPT !.policy = name, !.partners = 2] :
             name \in {"UNIQUE", "BALANCED", "SINGLE"}}
    \cup {[Eight EXCEPT !.policy = name, !.allowed = {1, 2, 4, 6}] :
             name \in {"UNIQUE", "UNIQUE_SPREAD", "BALANCED"}}
    \cup {[Four EXCEPT !.policy = "UNIQUE", !.longer = TRUE],
          [Four EXCEPT !.policy = "UNIQUE", !.parallel = 3, !.partners = 0]}
=============================================================================
