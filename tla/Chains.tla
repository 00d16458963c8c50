------------------------------- MODULE Chains -------------------------------
(***************************************************************************)
(* The pointer chains of lib_mem.c and what is done to them: the memory    *)
(* benchmarks walk them, line_test(), measure() and regroup() relink them, *)
(* and free() and malloc() may put a new chain where an old one was.       *)
(* Addresses are offsets from the base of the buffer, in words.            *)
(***************************************************************************)
EXTENDS Powers, Sequences, FiniteSets, Functions

CONSTANTS Layouts,       \* chains that are built, records as Layout below
          Addresses,     \* what malloc() may return
          Unroll,        \* pointers followed in an iteration (100)
          Builds,        \* chains built in a behaviour
          Uses           \* uses of a chain

ASSUME ChainsAssumption ==
    /\ Builds \in Nat /\ Unroll \in Nat \ {0} /\ Uses \in Nat
    /\ Addresses \subseteq Nat

\* What the callers see to: loads() skips a stride that is larger than the
\* size, line_test() narrows to fewer lines than a page has.  The rest is
\* bounds of this module, which no caller checks.  thrash: no stride above a
\* page at whole-page sizes, where nothing would be linked.  mem: pages of
\* whole lines, two lines at least, without which there is no first pointer.
\* cache: whole pages, and sizes measured in whole lines, since measure() links
\* the last line of the last page.  What is regrouped is whole pages.
ASSUME LayoutsAssumption ==
    \A l \in Layouts :
        /\ l.kind \in {"stride", "thrash", "mem", "line", "tlb"}
        /\ {l.len, l.line, l.page, l.max, l.group} \subseteq Nat \ {0}
        /\ l.len <= l.max /\ l.narrow \subseteq Nat
        /\ l.kind \in {"stride", "thrash"} => l.line <= l.len
        /\ l.kind = "thrash" /\ l.len % l.page = 0 => l.line <= l.page
        /\ l.kind = "tlb" => l.page <= l.len
        /\ l.kind \in {"mem", "line"} => l.page % l.line = 0
        /\ l.kind = "mem" => 2 * l.line <= l.page /\ 2 * l.line <= l.len
        /\ l.kind = "line" => \A n \in l.narrow : n \in 1..(l.page \div l.line) - 1
        /\ l.kind = "mem" /\ l.narrow # {} =>
              /\ l.len = l.max /\ l.len % l.page = 0
              /\ \A n \in l.narrow : n \in 1..l.len /\ n % l.line = 0
        /\ l.group > 1 =>
              l.kind = "mem" /\ l.len % l.page = 0 /\ l.narrow = {}

VARIABLES layout,        \* the chain there is
          phase, part,   \* none, raw, built, narrow, loose; what it is now
          addr, pages, mem,
          p,             \* state->p: where each pointer starts
          lanes,         \* how many of them the next benchmark follows
          rerun,         \* mem_benchmark_rerun
          saved,         \* per benchmark, addr_save and the pointers kept
          builds, uses

chainVars == <<layout, phase, part, addr, pages, mem, p, lanes, rerun, saved,
               builds, uses>>

\* len, line, page and max (maxlen) in words; group: pages that regroup()
\* takes together; narrow: line sizes and sizes that are tried afterwards.
Layout == [kind |-> "mem", len |-> 16, line |-> 2, page |-> 8, max |-> 16,
           group |-> 1, narrow |-> {}]

Nil == -1
CeilDiv(a, b) == (a + b - 1) \div b
Lesser(a, b) == IF a <= b THEN a ELSE b

NWords == layout.line
NLines == layout.page \div layout.line
NPages == CeilDiv(layout.len, layout.page)
NPointers == layout.len \div layout.line
InPart == layout.kind = "thrash" /\ layout.len % layout.page # 0

-----------------------------------------------------------------------------
(* The order of words, lines and pages.                                    *)

\* Mutant: the bits are reversed in a field one bit too narrow.
WordNarrow(max, scale, i) ==
    scale * Reversed[IF NBits(max) = 0 THEN 0 ELSE NBits(max) - 1][i]

\* words_initialize(): i with its bits reversed, times scale.  Bits beyond
\* NBits(max), that an i has when max is no power of two, are left out.
Word(max, scale, i) == scale * Reversed[NBits(max)][i]

LineAt(j) == Word(NLines, layout.line, j)
WordAt(k) == Word(NWords, 1, k)

\* permutation(): any order of the pages; tlb_initialize() keeps page 0.
Orders(l) ==
    LET n == CeilDiv(l.max, l.page)
    IN  {f \in [0..n - 1 -> {l.page * i : i \in 0..n - 1}] :
            /\ \A i, j \in 0..n - 1 : f[i] = f[j] => i = j
            /\ l.kind = "tlb" => f[0] = 0}

-----------------------------------------------------------------------------
(* What each initializer links, as pairs of an address and its successor.  *)

Linked(m, pairs) ==
    LET from == {x[1] : x \in pairs}
    IN  [a \in DOMAIN m \cup from |->
            IF a \in from THEN (CHOOSE x \in pairs : x[1] = a)[2] ELSE m[a]]

StrideLinks ==
    {<<a, IF a + layout.line < layout.len THEN a + layout.line ELSE 0>> :
        a \in {x \in 0..layout.len - 1 : x % layout.line = 0}}

\* A length that is no multiple of a page: one run over all lines.  When two
\* words coincide the later link replaces the earlier one.
ThrashPartLinks ==
    LET n == NPointers
        w(i) == Word(n, layout.line, i)
        last(a) == CHOOSE i \in 0..n - 1 :
                      w(i) = a /\ \A j \in i + 1..n - 1 : w(j) # a
    IN  {<<a, IF last(a) = n - 1 THEN 0 ELSE w(last(a) + 1)>> :
            a \in {w(i) : i \in 0..n - 1}}

\* Else: another page at every access.
ThrashLinks ==
    {<<pages[i] + LineAt((i + j) % NLines),
       IF i < NPages - 1 THEN pages[i + 1] + LineAt((i + j + 1) % NLines)
       ELSE pages[0] + LineAt((j + 1) % NLines)>> :
        i \in 0..NPages - 1, j \in 0..NLines - 1}

\* mem_initialize() stops inside page i when it has linked enough lines.
LinesIn(i) ==
    LET left == NPointers - (1 + i * (NLines - 1))
    IN  IF left < 0 THEN 0 ELSE Lesser(NLines - 1, left)
NextWord(k) == IF k = NWords - 1 THEN 0 ELSE k + 1

MemLinks ==
    (UNION {{<<pages[i] + LineAt(j) + k, pages[i] + LineAt(j + 1) + k>> :
                j \in 0..LinesIn(i) - 1, k \in 0..NWords - 1} :
            i \in 0..NPages - 1})
    \cup {<<pages[i] + LineAt(LinesIn(i)) + WordAt(k),
            pages[i + 1] + LineAt(0) + WordAt(k)>> :
               i \in 0..NPages - 2, k \in 0..NWords - 1}
    \cup {<<pages[NPages - 1] + LineAt(LinesIn(NPages - 1)) + WordAt(k),
            pages[0] + LineAt(0) + WordAt(NextWord(k))>> : k \in 0..NWords - 1}

LineLinks ==
    {<<pages[i] + LineAt(j),
       IF j < NLines - 1 THEN pages[i] + LineAt(j + 1)
       ELSE pages[IF i < NPages - 1 THEN i + 1 ELSE 0] + LineAt(0)>> :
        i \in 0..NPages - 1, j \in 0..NLines - 1}

\* A word of each page, the next one in the next page.
TlbLinks ==
    LET n == layout.len \div layout.page
        at(i) == pages[i] + Word(layout.page, 1, i % layout.page)
    IN  {<<at(i), IF i < n - 1 THEN at(i + 1) ELSE pages[0]>> : i \in 0..n - 1}

\* regroup(): within a group, the same word of the next page; the last page
\* of a group goes back to the first one for its own successors.
GroupOf(i) == (i \div layout.group) * layout.group
LastOf(i) == Lesser(GroupOf(i) + layout.group, NPages) - 1
InPage(i, a) == a \in pages[i]..pages[i] + layout.page - 1
Regrouped(m) ==
    IF layout.group = 1 THEN m
    ELSE Linked(m,
           {<<pages[i] + k,
              IF i < LastOf(i) THEN pages[i + 1] + k
              ELSE IF InPage(i, m[pages[i] + k])
                   THEN pages[GroupOf(i)] + m[pages[i] + k] - pages[i]
                   ELSE m[pages[i] + k]>> :
               i \in 0..NPages - 1, k \in 0..layout.page - 1})

Links == CASE layout.kind = "stride" -> StrideLinks
           [] layout.kind = "thrash" ->
                 IF InPart THEN ThrashPartLinks ELSE ThrashLinks
           [] layout.kind = "mem" -> MemLinks
           [] layout.kind = "line" -> LineLinks
           [] layout.kind = "tlb" -> TlbLinks

\* state->p[0].
First == IF layout.kind = "stride" THEN 0
         ELSE IF InPart THEN 0 ELSE pages[0]

-----------------------------------------------------------------------------

ChainsInit ==
    /\ layout = Layout /\ phase = "none" /\ part = 0 /\ addr = Nil
    /\ pages = <<>> /\ mem = <<>> /\ p = <<>> /\ lanes = 1 /\ rerun = FALSE
    /\ saved = [n \in 1..2 |-> [addr |-> Nil, at |-> <<>>]]
    /\ builds = 0 /\ uses = 0

\* base_initialize() and the rest, in a block that may have been used before.
Build ==
    /\ phase = "none" /\ builds < Builds
    /\ layout' \in Layouts /\ pages' \in Orders(layout') /\ addr' \in Addresses
    /\ phase' = "raw" /\ builds' = builds + 1 /\ uses' = 0
    /\ UNCHANGED <<part, mem, p, lanes, rerun, saved>>

\* The addresses of a walk of n pointers.
Follow(m, a) == IF a \in DOMAIN m THEN m[a] ELSE Nil
Path(m, a, n) ==
    LET at[i \in 0..n] == IF i = 0 THEN a ELSE Follow(m, at[i - 1]) IN at
Walk(m, a, n) == Path(m, a, n)[n]

\* The initializers but two run through the chain once, to clear the cache;
\* how many pointers they follow, in whole iterations.
Runs == layout.kind \notin {"stride", "thrash"}
WholeRuns(n) == ((n + Unroll) \div Unroll) * Unroll
RunLength == CASE layout.kind = "mem" -> NWords * NPointers
               [] layout.kind = "line" -> NLines * NPages
               [] OTHER -> layout.len \div layout.page

\* What mem_benchmark_N() keeps when it has followed n pointers from each of
\* the places where it starts.
Kept(m, from, n) ==
    [addr |-> addr, at |-> [i \in DOMAIN from |-> Walk(m, from[i], n)]]

\* Mutant: without mem_reset().
LinkOnly ==
    /\ phase = "raw" /\ phase' = "built"
    /\ LET chain == Linked([a \in 0..layout.max - 1 |-> Nil], Links)
           from == IF rerun /\ saved[1].addr = addr THEN saved[1].at
                                                    ELSE <<First>>
       IN  /\ mem' = Regrouped(chain)
           /\ saved' =
                 IF Runs THEN [saved EXCEPT ![1] =
                                 Kept(chain, from, WholeRuns(RunLength))]
                 ELSE saved
    /\ p' = <<First>> /\ lanes' = 1 /\ rerun' = (rerun \/ Runs)
    /\ UNCHANGED <<layout, part, addr, pages, builds, uses>>

\* The links, mem_reset(), the first run and, in lat_dram_page, regroup().
Link ==
    /\ phase = "raw" /\ phase' = "built"
    /\ LET chain == Linked([a \in 0..layout.max - 1 |-> Nil], Links)
       IN  /\ mem' = Regrouped(chain)
           /\ saved' =
                 IF Runs THEN [saved EXCEPT ![1] =
                                 Kept(chain, <<First>>, WholeRuns(RunLength))]
                 ELSE saved
    /\ p' = <<First>> /\ lanes' = 1 /\ rerun' = Runs
    /\ UNCHANGED <<layout, part, addr, pages, builds, uses>>

\* stride_initialize() and thrash_initialize() do not look whether they are
\* called for another interval: they link the chain again.
LinkAgain ==
    /\ phase = "built" /\ ~Runs
    /\ mem' = Linked(mem, Links) /\ p' = <<First>> /\ rerun' = FALSE
    /\ UNCHANGED <<layout, phase, part, addr, pages, lanes, saved, builds,
                   uses>>

\* benchmark_loads() of lat_mem_rd: state->p[0] follows the walk.
Loads ==
    /\ phase = "built" /\ ~Runs /\ uses < Uses
    /\ p' = <<Walk(mem, p[1], Unroll * (NPointers \div Unroll + 1))>>
    /\ uses' = uses + 1
    /\ UNCHANGED <<layout, phase, part, addr, pages, mem, lanes, rerun, saved,
                   builds>>

\* mem_benchmark_N(): it goes on where it stopped, if that was here and
\* nothing was reset since.  (cache has one of its own, without the
\* comparison of addresses; measure() resets it.)
Benchmark ==
    /\ \/ phase = "built" /\ layout.kind \in {"mem", "tlb"}
       \/ phase = "narrow" /\ layout.kind = "mem"
    /\ layout.group = 1 /\ uses < Uses
    /\ LET from == IF rerun /\ saved[lanes].addr = addr
                   THEN saved[lanes].at ELSE p
       IN  saved' = [saved EXCEPT ![lanes] = Kept(mem, from, Unroll)]
    /\ rerun' = TRUE /\ uses' = uses + 1
    /\ UNCHANGED <<layout, phase, part, addr, pages, mem, p, lanes, builds>>

\* par_mem(): pointers evenly spaced over the chain, and a first run.
Spread(n, j) ==
    LET line == j * (NPointers \div n)
        word == (j * NWords) \div n
    IN  pages[line \div NLines] + LineAt(line % NLines) + WordAt(word % NWords)

ParMem ==
    /\ phase = "built" /\ layout.kind = "mem" /\ layout.group = 1
    /\ layout.len % layout.page = 0 /\ uses < Uses
    /\ \E n \in 1..2 :
          LET from == [j \in 1..n |-> Spread(n, j - 1)]
          IN  /\ lanes' = n /\ p' = from
              /\ saved' = [saved EXCEPT ![n] =
                              Kept(mem, from, WholeRuns(layout.len))]
    /\ rerun' = TRUE /\ uses' = uses + 1
    /\ UNCHANGED <<layout, phase, part, addr, pages, mem, builds>>

\* line_test(): the first n lines of each page only,
LineTest(n) ==
    /\ phase = "built" /\ layout.kind = "line" /\ uses < Uses
    /\ mem' = Linked(mem, {<<pages[i] + LineAt(n - 1),
                             pages[(i + 1) % NPages] + LineAt(0)>> :
                             i \in 0..NPages - 1})
    /\ phase' = "narrow" /\ part' = n /\ uses' = uses + 1
    /\ UNCHANGED <<layout, addr, pages, p, lanes, rerun, saved, builds>>

\* and the full path again.
LineRestore ==
    /\ layout.kind = "line" /\ phase = "narrow"
    /\ mem' = Linked(mem, {<<pages[i] + LineAt(part - 1),
                             pages[i] + LineAt(part)>> : i \in 0..NPages - 1})
    /\ phase' = "built"
    /\ UNCHANGED <<layout, part, addr, pages, p, lanes, rerun, saved, builds,
                   uses>>

\* cache: measure() links as many pages as the size takes, and of the last
\* one the lines that are left, and runs through them;
Part(size) == IF size % layout.page = 0 THEN NLines
              ELSE (size % layout.page) \div layout.line
LastPage(size) == CeilDiv(size, layout.page) - 1

SizeLinks(size) ==
    {<<pages[i] + LineAt(NLines - 1) + k, pages[i + 1] + LineAt(0) + k>> :
        i \in 0..LastPage(size) - 1, k \in 0..NWords - 1}
    \cup {<<pages[LastPage(size)] + LineAt(Part(size) - 1) + WordAt(k),
            pages[0] + LineAt(0) + WordAt((k + 1) % NWords)>> :
               k \in 0..NWords - 1}

Measure(size) ==
    /\ phase \in {"built", "loose"} /\ layout.kind = "mem" /\ uses < Uses
    /\ mem' = Linked(mem, SizeLinks(size))
    /\ p' = <<pages[0]>> /\ lanes' = 1 /\ rerun' = TRUE
    /\ saved' = [saved EXCEPT ![1] = Kept(mem', p', WholeRuns(size))]
    /\ phase' = "narrow" /\ part' = size /\ uses' = uses + 1
    /\ UNCHANGED <<layout, addr, pages, builds>>

\* and gives the last page its other lines back; its end and the others'
\* are left to the next measure().
RestLinks(size) ==
    IF Part(size) = NLines THEN {}
    ELSE {<<pages[LastPage(size)] + LineAt(Part(size) - 1) + k,
            pages[LastPage(size)] + LineAt(Part(size)) + k>> :
             k \in 0..NWords - 1}

Measured ==
    /\ layout.kind = "mem" /\ phase = "narrow"
    /\ mem' = Linked(mem, RestLinks(part))
    /\ phase' = "loose"
    /\ UNCHANGED <<layout, part, addr, pages, p, lanes, rerun, saved, builds,
                   uses>>

\* Two pages change places (remove_chunk()); measure() links them again.
Swap ==
    /\ phase = "loose"
    /\ \E i, j \in DOMAIN pages :
          i < j /\ pages' = [pages EXCEPT ![i] = pages[j], ![j] = pages[i]]
    /\ UNCHANGED <<layout, phase, part, addr, mem, p, lanes, rerun, saved,
                   builds, uses>>

\* mem_cleanup().
Cleanup ==
    /\ phase \in {"built", "loose"}
    /\ phase' = "none"
    /\ UNCHANGED <<layout, part, addr, pages, mem, p, lanes, rerun, saved,
                   builds, uses>>

ChainsNext ==
    \/ Build \/ Link \/ LinkAgain \/ Loads \/ Benchmark \/ ParMem
    \/ LineRestore \/ Measured \/ Swap \/ Cleanup
    \/ \E n \in layout.narrow : LineTest(n) \/ Measure(n)

ChainsSpec == ChainsInit /\ [][ChainsNext]_chainVars

-----------------------------------------------------------------------------
(* Properties.                                                             *)

\* How many words the chain is to visit: when it has been built (a length
\* that ends inside a page makes mem_initialize() link one line too many for
\* each page before), and when it is narrowed.
Whole ==
    CASE layout.kind = "stride" -> CeilDiv(layout.len, layout.line)
      [] layout.kind = "thrash" ->
            IF InPart THEN NPointers ELSE NPages * NLines
      [] layout.kind = "line" -> NPages * NLines
      [] layout.kind = "tlb" -> layout.len \div layout.page
      [] OTHER -> NWords * Lesser(NPointers + NPages - 1, NPages * NLines)

Expected == IF phase # "narrow" THEN Whole
            ELSE IF layout.kind = "line" THEN NPages * part ELSE part

\* (Between two measure() the ends of the pages are not linked.)
Complete == phase \in {"built", "narrow"}

\* words_initialize() gives each word once only if it has a power of two of
\* them to give.
Distinct ==
    /\ InPart => PowerOfTwo(NPointers)
    /\ layout.kind \in {"thrash", "mem", "line"} /\ ~InPart =>
          PowerOfTwo(NLines)
    /\ layout.kind = "mem" => PowerOfTwo(NWords)

\* From its first pointer the chain goes once through all it is to visit
\* and comes back, unless words coincide.
ChainCovers ==
    Complete /\ Distinct =>
        LET path == Path(mem, First, Expected)
        IN  /\ path[Expected] = First
            /\ Cardinality(Range(path)) = Expected

\* A benchmark starts at a word of the chain there is now, and goes on from
\* one, not from a word of a chain that was at the same address.
WalkOnChain ==
    Complete /\ (Distinct \/ InPart) =>
        LET chain == Range(Path(mem, First, Expected))
        IN  /\ Range(p) \subseteq chain
            /\ /\ rerun /\ saved[lanes].addr = addr
               /\ phase = "built" \/ layout.kind = "mem"
               => Range(saved[lanes].at) \subseteq chain
=============================================================================
