-------------------------------- MODULE Lmdd --------------------------------
(***************************************************************************)
(* lmdd: the copying loop, with patterns, random offsets, fork= and the    *)
(* signals that end it.  Offsets are signed, as lseek() takes them.  Of a  *)
(* byte it is known of which integer it is, and which of its four bytes:   *)
(* a file has at each word its offset, as opat= writes it.                 *)
(***************************************************************************)
EXTENDS Integers, Sequences, FiniteSets, SequencesExt, Powers

CONSTANTS Commands,      \* command lines, records as Command below
          Words,         \* words of a file that are looked at
          RepeatSize,    \* norepeat[] without count=, 10<<10 in the code
          MaxDdFaults    \* failing calls and signals in a behaviour

ASSUME LmddAssumption == /\ Words \in Nat \ {0} /\ RepeatSize \in Nat \ {0}
                         /\ MaxDdFaults \in Nat

\* What main() insists on: a block is at least a word, with a pattern it is
\* whole words; end= is cut to rand=, when both are given.
ASSUME CommandsAssumption ==
    \A c \in Commands :
        /\ c.bs \in Nat /\ c.bs >= 4
        /\ {c.if, c.of, c.count, c.skip, c.mismatch, c.start, c.end, c.rand}
              \subseteq Nat \cup {-1}
        /\ {c.pipe, c.ipat, c.opat, c.touch, c.fork, c.padin, c.time,
            c.norepeat, c.append} \subseteq BOOLEAN
        /\ c.ipat \/ c.opat => c.bs % 4 = 0
        /\ c.rand # -1 => c.end <= c.rand

VARIABLES cmd,           \* the command line
          dpc,           \* where the loop is
          off, count, padin,
          inpos, outpos, \* file offsets
          buf, moved,    \* bytes of the buffer, and of the last read()
          out,           \* bytes of the output file
          intCount, misses,
          writer,        \* fork=: the child that writes, and its buffer
          frames,        \* calls of done() that are active, outermost first
          reports,       \* what has been printed, and by whom
          seen, norepeats, side, \* norepeat[], its index; start of end=
          visited,       \* (history) offsets chosen
          resets,        \* (history) choices after which norepeats was reset
          odds,          \* (history) blocks counted that were no whole words
          wrote, mishaps \* (history) bytes written, what went wrong

fileVars == <<inpos, outpos, out, wrote>>
randVars == <<seen, norepeats, side, visited, resets>>
doneVars == <<frames, reports>>
ddVars == <<cmd, dpc, off, count, padin, buf, moved, intCount, misses, writer,
            odds, mishaps, fileVars, randVars, doneVars>>

None == -1
Internal == None

\* if= and of= (the size of the file, or internal), whether the input is a
\* pipe, bs=, count=, skip=, the patterns, mismatch=, touch=, fork=, padin=,
\* time=, rand=, start=, end=, norepeat= and append=.
Command ==
    [if |-> Internal, pipe |-> FALSE, of |-> Internal, bs |-> 8,
     count |-> None, skip |-> None, ipat |-> FALSE, opat |-> FALSE, mismatch |-> None, touch |-> FALSE,
     fork |-> FALSE, padin |-> FALSE, time |-> FALSE, rand |-> None,
     start |-> None, end |-> None, norepeat |-> FALSE, append |-> FALSE]

Least(a, b) == IF a <= b THEN a ELSE b
WordsOf(bytes) == bytes \div 4
Randomly == cmd.rand # None \/ cmd.end # None

\* Byte j of the integer v; the byte of a file at p; byte i of the integers
\* from o on.
IntByte(v, j) == 4 * v + j
FileByte(p) == IntByte(p - (p % 4), p % 4)
Pattern(o, i) == IntByte(o + 4 * WordsOf(i - 1), (i - 1) % 4)

\* x & (b - 1); for a power of two, what is left over of a block.
CommonBits(x, b) ==
    {d \in 0..b - 1 : \A p \in 1..b - 1 :
        PowerOfTwo(p) => (d \div p) % 2
                            = ((x \div p) % 2) * (((b - 1) \div p) % 2)}
ASSUME LowBitsAssumption ==
    \A b \in {4, 8, 16}, x \in -20..40 : CommonBits(x, b) = {x % b}
LowBits(x) == IF PowerOfTwo(cmd.bs) THEN {x % cmd.bs} ELSE CommonBits(x, cmd.bs)

\* ALIGN(): a bit mask, which rounds up to blocks for powers of two only.
\* (Each is a set with one element.)
Masked(x) == {x - d : d \in LowBits(x)}
Align(x) == Masked(x + cmd.bs - 1)

\* Bytes of a file that are looked at.
LookedAt == 0..4 * Words - 1

\* A pipe cannot be positioned; the results of seekto() are not looked at.
DdStart(c) ==
    /\ cmd = c
    /\ dpc = "loop" /\ count = cmd.count /\ padin = cmd.padin
    /\ off = IF cmd.skip = None THEN 0 ELSE cmd.skip * cmd.bs
    /\ inpos = (IF cmd.pipe THEN 0 ELSE off) /\ outpos = off
    /\ buf = [i \in 1..cmd.bs |-> IntByte(0, (i - 1) % 4)] /\ moved = 0
    /\ out = [p \in {p \in LookedAt : cmd.append /\ p < cmd.of} |-> FileByte(p)]
    /\ intCount = 0 /\ misses = cmd.mismatch /\ writer = <<>>
    /\ frames = <<>> /\ reports = <<>>
    /\ seen = [i \in 0..Words |-> 0] /\ norepeats = -1 /\ side = 0
    /\ visited = <<>> /\ resets = {}
    /\ odds = 0 /\ wrote = 0 /\ mishaps = {}

DdInit == \E c \in Commands : DdStart(c)

Running(pc) == dpc = pc /\ frames = <<>>
Mishap(name) ==
    Cardinality(mishaps) < MaxDdFaults /\ mishaps' = mishaps \cup {name}

\* A call of done().
Done == frames' = Append(frames, "begin")

-----------------------------------------------------------------------------
(* The loop.                                                               *)

CountReached == count # None /\ count <= 0

LastBlock ==
    /\ Running("loop") /\ CountReached
    /\ Done
    /\ UNCHANGED <<cmd, dpc, off, count, padin, buf, moved, intCount, misses,
                   writer, odds, mishaps, fileVars, randVars, reports>>

Spend == count' = IF count = None THEN None ELSE count - 1

Sequential ==
    /\ Running("loop") /\ ~CountReached /\ ~Randomly
    /\ Spend /\ dpc' = "read"
    /\ UNCHANGED <<cmd, off, padin, buf, moved, intCount, misses, writer,
                   odds, mishaps, fileVars, randVars, doneVars>>

Offset0 == IF cmd.start = None THEN 0 ELSE cmd.start

\* drand48() * n, for n an unsigned number of 64 bits: below zero it is huge.
\* Bound: offsets that come of it are followed up to LookedAt on either side.
Drawn(n) == IF n > 0 THEN 0..n - 1 ELSE IF n = 0 THEN {0}
            ELSE -4 * Words..4 * Words

\* Offsets of rand=, and with end= those at either end of it in turn, from
\* `s' on.  rand= less a block is rounded to `size', and another block less.
Candidates(s) ==
    IF cmd.end # None
    THEN UNION {{a + s + Offset0 : a \in Align(x)} : x \in Drawn(cmd.end)}
    ELSE UNION {UNION {Align(x + Offset0) : x \in Drawn(size - cmd.bs)} :
                   size \in Align(cmd.rand - cmd.bs)}

\* been_there(): the first norepeats + 1 elements, set or not.
BeenThere(o) == \E i \in 0..norepeats : seen[i] = o

\* Mutant: the newest offset replaces the last one.
NoteLast(o) ==
    /\ norepeats' = 0 /\ UNCHANGED resets
    /\ seen' = IF norepeats = -1 THEN seen ELSE [seen EXCEPT ![norepeats] = o]

\* norepeat[norepeats++] = off, with norepeats initially -1: the first
\* offset is stored before the array.  Without count= the array is begun anew
\* when it is full.
Full == cmd.count = None /\ norepeats + 1 = RepeatSize
Note(o) ==
    /\ seen' = IF norepeats = -1 THEN seen ELSE [seen EXCEPT ![norepeats] = o]
    /\ norepeats' = IF Full THEN 0 ELSE norepeats + 1
    /\ resets' = IF Full THEN resets \cup {Len(visited) + 1} ELSE resets

\* What is below zero, lseek() refuses; without rand= the other end of it is
\* at the largest number there is, which is -1.
Seek(o) == /\ inpos' = IF o < 0 \/ cmd.pipe THEN inpos ELSE o
           /\ outpos' = IF o < 0 THEN outpos ELSE o

Random ==
    /\ Running("loop") /\ ~CountReached /\ Randomly
    /\ Len(visited) < Words
    /\ side' = IF cmd.end = None \/ side # 0 THEN 0 ELSE cmd.rand - cmd.end
    /\ \E o \in Candidates(side') :
          /\ cmd.norepeat => ~BeenThere(o)
          /\ IF cmd.norepeat THEN Note(o)
             ELSE UNCHANGED <<seen, norepeats, resets>>
          /\ off' = o /\ Seek(o)
          /\ visited' = Append(visited, o)
    /\ Spend /\ dpc' = "read"
    /\ UNCHANGED <<cmd, padin, buf, moved, intCount, misses, writer, odds,
                   mishaps, out, wrote, doneVars>>

\* read(): all there is up to a block, of a pipe possibly less, or an error;
\* internal input leaves the buffer alone.
Available == Least(cmd.bs, cmd.if - inpos)
Readable == IF Available <= 0 THEN {0}
            ELSE IF cmd.pipe THEN 1..Available ELSE {Available}
Filled(n) ==
    [i \in 1..cmd.bs |-> IF i <= n THEN FileByte(inpos + i - 1) ELSE buf[i]]

Read ==
    /\ Running("read")
    /\ IF cmd.if = Internal
       THEN moved' = cmd.bs /\ UNCHANGED <<buf, inpos>>
       ELSE \E n \in Readable :
               moved' = n /\ buf' = Filled(n) /\ inpos' = inpos + n
    /\ dpc' = IF padin /\ cmd.if # Internal THEN "pad" ELSE "check"
    /\ UNCHANGED <<cmd, off, count, padin, intCount, misses, writer, odds,
                   mishaps, outpos, out, wrote, randVars, doneVars>>

ReadFails ==
    /\ Running("read") /\ cmd.if # Internal /\ Mishap("read")
    /\ moved' = -1 /\ dpc' = IF padin THEN "pad" ELSE "check"
    /\ UNCHANGED <<cmd, off, count, padin, buf, intCount, misses, writer,
                   odds, fileVars, randVars, doneVars>>

\* padin=: the first read is not counted, nor its result looked at; off stays
\* where it was.
Padding ==
    /\ Running("pad")
    /\ padin' = FALSE /\ dpc' = "loop"
    /\ count' = IF count = None THEN None ELSE count + 1
    /\ UNCHANGED <<cmd, off, buf, moved, intCount, misses, writer, odds,
                   mishaps, fileVars, randVars, doneVars>>

\* Words of the block that are not what ipat= expects.
Wrong ==
    Cardinality({k \in 0..WordsOf(moved) - 1 :
                    \E i \in 4 * k + 1..4 * k + 4 : buf[i] # Pattern(off, i)})

\* touch= zeroes the first byte of every 4096 that were moved.
Touched(b) ==
    [i \in DOMAIN b |->
        IF cmd.touch /\ i <= moved /\ (i - 1) % 4096 = 0
        THEN IntByte(0, 0) ELSE b[i]]

\* End of file ends the loop; ipat= compares, and mismatch= ends it.  touch=
\* comes before the buffer is written.
Check ==
    /\ Running("check")
    /\ IF moved <= 0 THEN Done /\ UNCHANGED <<dpc, misses, buf>>
       ELSE LET wrong == IF cmd.ipat THEN Wrong ELSE 0
                stops == misses \in 1..wrong
            IN  /\ misses' = IF cmd.mismatch = None THEN misses
                             ELSE misses - wrong
                /\ IF stops THEN Done /\ UNCHANGED <<dpc, buf>>
                   ELSE /\ UNCHANGED frames
                        /\ buf' = IF cmd.if = Internal THEN buf
                                  ELSE Touched(buf)
                        /\ dpc' = IF cmd.of = Internal THEN "count"
                                  ELSE IF cmd.fork THEN "fork" ELSE "write"
    /\ UNCHANGED <<cmd, off, count, padin, moved, intCount, writer, odds,
                   mishaps, fileVars, randVars, reports>>

\* What write() takes: the pattern of opat= in whole words, or the buffer.
Written(b) ==
    IF cmd.opat
    THEN [i \in 1..cmd.bs |->
             IF i <= 4 * WordsOf(moved) THEN Pattern(off, i) ELSE b[i]]
    ELSE b

\* append=: at the end of the file, whatever the offset.
Place == IF cmd.append THEN cmd.of + wrote ELSE outpos

Put(b, n) ==
    /\ out' = [p \in DOMAIN out \cup (LookedAt \cap (Place..Place + n - 1)) |->
                 IF p \in Place..Place + n - 1 THEN b[p - Place + 1] ELSE out[p]]
    /\ outpos' = Place + n /\ wrote' = wrote + n

Write ==
    /\ Running("write")
    /\ Put(Written(buf), moved)
    /\ buf' = Touched(Written(buf)) /\ dpc' = "count"
    /\ UNCHANGED <<cmd, off, count, padin, moved, intCount, misses, writer,
                   odds, mishaps, inpos, randVars, doneVars>>

\* A short or failed write ends the loop.
WriteFails ==
    /\ Running("write") /\ Mishap("write")
    /\ \E n \in 0..moved - 1 : Put(Written(buf), n)
    /\ Done
    /\ UNCHANGED <<cmd, dpc, off, count, padin, buf, moved, intCount, misses,
                   writer, odds, inpos, randVars, reports>>

\* With fork= and nothing to write nobody is forked, and lmdd takes itself
\* for the child: it exits after a block, without a report.
Count ==
    /\ Running("count")
    /\ off' = off + moved /\ intCount' = intCount + WordsOf(moved)
    /\ odds' = IF moved % 4 = 0 THEN odds ELSE odds + 1
    /\ dpc' = IF cmd.fork /\ cmd.of = Internal THEN "exited" ELSE "loop"
    /\ UNCHANGED <<cmd, count, padin, buf, moved, misses, writer, mishaps,
                   fileVars, randVars, doneVars>>

-----------------------------------------------------------------------------
(* fork=: a child writes while the parent reads on.                        *)

\* Mutant: without waiting for the last one.
ForkAtOnce ==
    /\ Running("fork")
    /\ writer' = <<[buf |-> Written(buf), moved |-> moved, count |-> intCount]>>
    /\ dpc' = "count"
    /\ UNCHANGED <<cmd, off, count, padin, buf, moved, intCount, misses,
                   odds, mishaps, fileVars, randVars, doneVars>>

\* The last one is waited for first.
ForkWriter ==
    /\ Running("fork") /\ writer = <<>>
    /\ writer' = <<[buf |-> Written(buf), moved |-> moved, count |-> intCount]>>
    /\ dpc' = "count"
    /\ UNCHANGED <<cmd, off, count, padin, buf, moved, intCount, misses,
                   odds, mishaps, fileVars, randVars, doneVars>>

\* -1 is taken for a child: the block counts as written.
ForkFails ==
    /\ Running("fork") /\ writer = <<>> /\ Mishap("fork")
    /\ dpc' = "count"
    /\ UNCHANGED <<cmd, off, count, padin, buf, moved, intCount, misses,
                   writer, odds, fileVars, randVars, doneVars>>

\* The child writes at the offset it shares with the parent, and exits.
ChildWrites ==
    /\ writer # <<>>
    /\ Put(writer[1].buf, writer[1].moved) /\ writer' = <<>>
    /\ UNCHANGED <<cmd, dpc, off, count, padin, buf, moved, intCount, misses,
                   odds, mishaps, inpos, randVars, doneVars>>

\* Or fails to, and reports what had been moved when it was born.
ChildFails ==
    /\ writer # <<>> /\ Mishap("child")
    /\ reports' = Append(reports,
                         [by |-> "child", bytes |-> 4 * writer[1].count])
    /\ writer' = <<>>
    /\ UNCHANGED <<cmd, dpc, off, count, padin, buf, moved, intCount, misses,
                   odds, fileVars, randVars, frames>>

-----------------------------------------------------------------------------
(* done(), called by the loop and by the handlers of SIGALRM and SIGINT;   *)
(* a signal may come while it runs.                                        *)

Frame == Len(frames)

Shift ==
    /\ Frame > 0 /\ frames[Frame] = "begin"
    /\ intCount' = 4 * intCount
    /\ frames' = [frames EXCEPT ![Frame] = "print"]
    /\ UNCHANGED <<cmd, dpc, off, count, padin, buf, moved, misses, writer,
                   odds, mishaps, fileVars, randVars, reports>>

PrintOut ==
    /\ Frame > 0 /\ frames[Frame] = "print"
    /\ reports' = Append(reports, [by |-> "parent", bytes |-> intCount])
    /\ frames' = [frames EXCEPT ![Frame] = "exit"]
    /\ UNCHANGED <<cmd, dpc, off, count, padin, buf, moved, intCount, misses,
                   writer, odds, mishaps, fileVars, randVars>>

ExitDone ==
    /\ Frame > 0 /\ frames[Frame] = "exit"
    /\ dpc' = "exited" /\ frames' = <<>>
    /\ UNCHANGED <<cmd, off, count, padin, buf, moved, intCount, misses,
                   writer, odds, mishaps, fileVars, randVars, reports>>

Signal(sig) ==
    /\ dpc # "exited" /\ sig \notin mishaps /\ Mishap(sig)
    /\ sig = "alarm" => cmd.time
    /\ Done
    /\ UNCHANGED <<cmd, dpc, off, count, padin, buf, moved, intCount, misses,
                   writer, odds, fileVars, randVars, reports>>

DdStep ==
    \/ LastBlock \/ Sequential \/ Random \/ Read \/ Padding \/ Check \/ Write
    \/ Count \/ ForkWriter \/ ChildWrites \/ Shift \/ PrintOut \/ ExitDone

DdNext == \/ DdStep \/ ReadFails \/ WriteFails \/ ForkFails \/ ChildFails
          \/ \E sig \in {"alarm", "int"} : Signal(sig)

DdSpec == DdInit /\ [][DdNext]_ddVars /\ WF_ddVars(DdStep)

-----------------------------------------------------------------------------
(* Properties.                                                             *)

\* What is printed is what was moved, in whole words: no more than what was
\* written, and less by no more than the block whose write had not been
\* counted when a signal came, and the odd bytes of each block that was read
\* short.  With fork= the last block may still have to be written, and is
\* lost when fork() or the child fails.  For each signal that comes while
\* done() runs the count may be multiplied again.
Signals == mishaps \cap {"alarm", "int"}
Uncounted == cmd.bs + 3 * odds
Unwritten == IF cmd.fork THEN cmd.bs ELSE 0
ReportTrue ==
    \A i \in 1..Len(reports) :
        reports[i].by = "parent" /\ cmd.of # Internal
            /\ mishaps \cap {"fork", "child"} = {}
        => \E n \in 0..Cardinality(Signals),
              whole \in wrote - Uncounted..wrote + Unwritten :
                 reports[i].bytes = <<1, 4, 16>>[n + 1] * whole

\* Bytes that touch= may zero: one in 4096 of each block.
Refused == \E i \in 1..Len(visited) : visited[i] < 0
Spoiled(p) ==
    /\ cmd.touch
    /\ \/ cmd.pipe \/ Refused
       \/ ~Randomly /\ (p % cmd.bs) % 4096 = 0
       \/ \E i \in 1..Len(visited) :
             /\ p \in visited[i]..visited[i] + cmd.bs - 1
             /\ (p - visited[i]) % 4096 = 0

\* The offset is not where the input is, as a pipe cannot be positioned; no
\* file is there, or no word begins there.
Displaced == cmd.pipe /\ (cmd.skip # None \/ Randomly)
Astray == \/ cmd.pipe /\ odds > 0
          \/ \E i \in 1..Len(visited) : visited[i] < 0 \/ visited[i] % 4 # 0
OddBytes == cmd.if # Internal /\ (cmd.pipe \/ cmd.if % 4 # 0)

\* The output has the pattern of opat= at every word it has; a file that is
\* copied has its input, but what touch= has zeroed, and so have odd bytes
\* after a pattern.  Exempt is what comes after a block lost by fork() or is
\* appended to a file; a copy that padin= begins a block late; a pattern
\* whose offset is astray; and fork= with random offsets, where the parent
\* moves the offset it shares with the child before the child has written.
OutputFaithful ==
    \A p \in DOMAIN out :
        \/ out[p] = FileByte(p)
        \/ /\ ~cmd.opat \/ OddBytes
           /\ cmd.if = Internal \/ cmd.padin \/ Displaced \/ Spoiled(p)
        \/ cmd.opat /\ Astray
        \/ cmd.append /\ p >= cmd.of
        \/ cmd.fork /\ Randomly
        \/ mishaps \cap {"fork", "child"} # {}

\* A file written by opat= passes ipat=, unless padin= has read a block
\* without moving the offset on, or the offset is not where the input is.
NoMismatch ==
    cmd.ipat /\ cmd.if # Internal /\ ~cmd.padin /\ ~Displaced /\ ~Astray
        => misses = cmd.mismatch

\* What lmdd reports, writes and compares is what it has moved.
CopyFaithful == ReportTrue /\ OutputFaithful /\ NoMismatch

\* norepeat=: no offset is chosen twice but the first, or without count= what
\* was chosen before the array was begun anew.  No block begins further than
\* start= and a block after rand=; and none reaches past it by more than
\* start= and what an offset within end= is rounded up, if blocks are a power
\* of two.  Exempt is a rand= so short that less a block it is below zero, and
\* end= without it.
Underflow == \/ cmd.rand = None
             \/ /\ cmd.end = None
                /\ \E size \in Align(cmd.rand - cmd.bs) : size < cmd.bs
RoundedTo(x) == ((x + cmd.bs - 1) \div cmd.bs) * cmd.bs
OffsetsApart ==
    /\ cmd.norepeat =>
          \A i, j \in 1..Len(visited) :
             i < j /\ visited[i] = visited[j]
             => i = 1 \/ \E k \in resets : i <= k /\ k < j
    /\ ~Underflow =>
          \A i \in 1..Len(visited) :
             /\ visited[i] < cmd.rand + Offset0 + cmd.bs
             /\ PowerOfTwo(cmd.bs) =>
                   visited[i] + cmd.bs <=
                       cmd.rand + RoundedTo(Offset0)
                       + (IF cmd.end = None THEN 0
                          ELSE RoundedTo(cmd.end) - cmd.end + cmd.bs)

\* The program ends when its input or its count does, and when it is told
\* to; but norepeat= may run out of offsets to choose.
Endless == \/ cmd.count = None /\ (cmd.if = Internal \/ Randomly)
           \/ cmd.norepeat
LmddEnded == dpc = "exited" \/ Endless
=============================================================================
