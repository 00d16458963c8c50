---------------------------- MODULE CacheSearch ----------------------------
(***************************************************************************)
(* cache: the search for the sizes at which latency jumps, the exchange of *)
(* pages that collide, and the levels that are found; tlb: the binary      *)
(* search of find_tlb().  Every measurement may come out at any of Times.  *)
(* Latencies are whole numbers and ratios are in percent.                  *)
(***************************************************************************)
EXTENDS Powers, Sequences, FiniteSetsExt

CONSTANTS Samples,       \* sizes, from 512 bytes (4 units) on
          PageUnits,     \* units of a page
          Times,         \* what measure() may return, 0 for no result
          Fan,           \* parts that test_chunk() makes of a chunk (20)
          MaxFixups,     \* bound on the chunks that fixup_chunk() is given
          Passes,        \* times a sample's pages are gone through (8)
          IntSize, WordSize,    \* sizeof(int) and sizeof(size_t)
          TlbStart, TlbPages    \* find_tlb()'s first and last size

ASSUME SearchAssumption ==
    /\ Samples \in Nat \ {0, 1} /\ PageUnits \in Nat \ {0}
    /\ Fan \in Nat \ {0, 1}
    /\ Times \subseteq Nat
    /\ MaxFixups \in Nat /\ Passes \in Nat \ {0}
    /\ TlbStart \in Nat \ {0, 1} /\ TlbPages \in Nat

VARIABLES prog,          \* cache or tlb
          spc,           \* where it is
          samples,       \* samples that are left
          lat, ratio,    \* of each sample: latency, -1 if none; to the next
          work,          \* calls of search() to come, innermost first
          pageset, avail,  \* state->pages; available_index
          base, nodiff, pass, modified,     \* a sample: its baseline, etc.
          at, chunk, low,       \* the part that is tried, its baseline
          chunkEnd,      \* end of the chunk that is gone through by parts
          outer,         \* calls of test_chunk() that wait for this one
          fixups, fj, fk, lats, savedPages, swapped,     \* fixup_chunk()
          backedOut,     \* (history) has it restored the list
          levels, from,  \* cache levels; where the next one is looked for
          ti, lower, upper, verdict             \* find_tlb()

sampleVars == <<samples, lat, ratio, work>>
chunkVars == <<base, nodiff, pass, modified, at, chunk, low, chunkEnd,
               outer>>
fixVars == <<fixups, fj, fk, lats, savedPages, swapped, backedOut>>
levelVars == <<levels, from>>
tlbVars == <<ti, lower, upper, verdict>>
searchVars == <<prog, spc, sampleVars, pageset, avail, chunkVars, fixVars,
                levelVars, tlbVars>>

\* Sizes of the samples, in units: four steps to a doubling.
LenOf(s) == (4 + (s % 4)) * TwoTo[s \div 4]
PagesOf(s) == (LenOf(s) + PageUnits - 1) \div PageUnits
Total == PagesOf(Samples - 1)

SearchStart(name) ==
    /\ prog = name
    /\ spc = IF prog = "cache" THEN "last" ELSE "double"
    /\ samples = Samples
    /\ lat = [s \in 0..Samples - 1 |-> -1]
    /\ ratio = [s \in 0..Samples - 1 |-> -1]
    /\ work = <<>>
    /\ pageset = [i \in 0..Total - 1 |-> i] /\ avail = 0
    /\ base = 0 /\ nodiff = 0 /\ pass = 0 /\ modified = FALSE
    /\ at = 0 /\ chunk = 0 /\ chunkEnd = 0 /\ low = 0 /\ outer = <<>>
    /\ fixups = 0 /\ fj = 0 /\ fk = 0 /\ lats = <<>> /\ savedPages = <<>>
    /\ swapped = 0
    /\ backedOut = FALSE
    /\ levels = <<>> /\ from = 0
    /\ ti = TlbStart /\ lower = 0 /\ upper = 0
    /\ verdict = [i \in 0..TlbPages |-> "none"]

SearchInit == \E name \in {"cache", "tlb"} : SearchStart(name)

-----------------------------------------------------------------------------
(* collect_data() and search().                                            *)

\* The largest size first; when it gives nothing it is measured again and
\* then taken off whatever comes, with which the next one is looked at that
\* is not measured yet: so on to the one before the first.
LastSample ==
    /\ spc = "last"
    /\ IF lat[samples - 1] = -1 /\ samples = Samples
       THEN /\ \E t \in Times : lat' = [lat EXCEPT ![samples - 1] = t]
            /\ spc' = IF lat'[samples - 1] > 0 THEN "first" ELSE "last"
            /\ UNCHANGED samples
       ELSE /\ samples' = samples - 1 /\ UNCHANGED lat
            /\ spc' = IF samples' = 0 THEN "undefined" ELSE "last"
    /\ UNCHANGED <<prog, ratio, work, pageset, avail, chunkVars, fixVars,
                   levelVars, tlbVars>>

FirstSample ==
    /\ spc = "first"
    /\ \E t \in Times : lat' = [lat EXCEPT ![0] = t]
    /\ work' = <<<<0, samples - 1>>>> /\ spc' = "search"
    /\ UNCHANGED <<prog, samples, ratio, pageset, avail, chunkVars, fixVars,
                   levelVars, tlbVars>>

Left == work[1][1]
Right == work[1][2]
Middle == Left + (Right - Left) \div 2

\* A sample that is slower than a larger one is a bad data point.
Percent == (100 * lat[Right]) \div lat[Left]
Bad == lat[Left] > 0 /\ Percent < 98
NewLat == IF Bad THEN [lat EXCEPT ![Left] = lat[Right]] ELSE lat
NewRatio == IF Bad THEN [ratio EXCEPT ![Left] = 100]
            ELSE IF lat[Left] > 0 THEN [ratio EXCEPT ![Left] = Percent]
            ELSE ratio

Splits(r) == Middle # Left /\ (r > 135 \/ r < 97)

\* Mutant: the left half is searched first, against a latency in the middle
\* that may still be corrected.
LeftFirst == <<<<Left, Middle>>, <<Middle, Right>>>>
Halves == <<<<Middle, Right>>, <<Left, Middle>>>>

\* search(left, right): the ratio, and if it shows a jump a sample in the
\* middle and both halves, the right one first.
Search ==
    /\ spc = "search" /\ work # <<>>
    /\ lat' = NewLat /\ ratio' = NewRatio
    /\ IF Splits(NewRatio[Left])
       THEN /\ work' = Halves \o Tail(work)
            /\ spc' = "sample"
       ELSE work' = Tail(work) /\ UNCHANGED spc
    /\ UNCHANGED <<prog, samples, pageset, avail, chunkVars, fixVars,
                   levelVars, tlbVars>>

SearchDone ==
    /\ spc = "search" /\ work = <<>>
    /\ spc' = "levels"
    /\ UNCHANGED <<prog, sampleVars, pageset, avail, chunkVars, fixVars,
                   levelVars, tlbVars>>

-----------------------------------------------------------------------------
(* collect_sample() and test_chunk().                                      *)

\* The sample that is taken, between the two halves, and its pages.
Taken == Max({work[1][1], work[2][1]})
N == PagesOf(Taken)
Spare == Total - N
PartsOf(n) == (n + Fan - 1) \div Fan

Sample ==
    /\ spc = "sample"
    /\ \E t \in Times : base' = t /\ nodiff' = t
    /\ pass' = 0 /\ modified' = FALSE /\ at' = 0
    /\ chunk' = PartsOf(N) /\ chunkEnd' = N /\ outer' = <<>>
    /\ spc' = IF N > 1 THEN "test" ELSE "sampled"
    /\ UNCHANGED <<prog, sampleVars, pageset, avail, low, fixVars, levelVars,
                   tlbVars>>

ThisChunk == Min({chunk, chunkEnd - at})
\* Places at the end of the sample's pages, where a chunk is moved to.
ChunkSlot(j) == N - ThisChunk + j
Faster(t) == 100 * t < 99 * base /\ 1000 * t < 999 * nodiff

\* remove_chunk(): without these pages it is no faster, in one of two tries.
KeepChunk ==
    /\ spc = "test" /\ at < chunkEnd /\ \E t \in Times : ~Faster(t)
    /\ at' = at + ThisChunk
    /\ UNCHANGED <<prog, spc, sampleVars, pageset, avail, base, nodiff, pass,
                   modified, chunk, chunkEnd, low, outer, fixVars, levelVars,
                   tlbVars>>

\* Or it is, and what has more than Fan pages is gone through part by part.
DivideChunk ==
    /\ spc = "test" /\ at < chunkEnd /\ ThisChunk > Fan
    /\ \E t \in Times :
          /\ Faster(t)
          /\ outer' = <<[chunk |-> chunk, chunkEnd |-> chunkEnd,
                        nodiff |-> nodiff, modified |-> modified,
                        low |-> t]>> \o outer
    /\ chunkEnd' = at + ThisChunk /\ chunk' = PartsOf(ThisChunk)
    /\ nodiff' = base /\ modified' = FALSE
    /\ UNCHANGED <<prog, spc, sampleVars, pageset, avail, base, pass, at, low,
                   fixVars, levelVars, tlbVars>>

\* Back to the call that divided it.
PartDone ==
    /\ spc = "test" /\ at >= chunkEnd /\ outer # <<>>
    /\ LET call == outer[1]
       IN  /\ chunk' = call.chunk /\ chunkEnd' = call.chunkEnd
           /\ modified' = (modified \/ call.modified)
           /\ nodiff' = IF modified THEN call.nodiff ELSE call.low
    /\ outer' = Tail(outer)
    /\ UNCHANGED <<prog, spc, sampleVars, pageset, avail, base, pass, at, low,
                   fixVars, levelVars, tlbVars>>

\* Mutant: the page that was there is forgotten.
CopiedOver(list, i, j) == [list EXCEPT ![i] = list[j]]
Swapped(list, i, j) == [list EXCEPT ![i] = list[j], ![j] = list[i]]
MoveChunk(list) ==
    LET after[j \in 0..ThisChunk] ==
          IF j = 0 THEN list
          ELSE Swapped(after[j - 1], at + j - 1, ChunkSlot(j - 1))
    IN  IF at + ThisChunk < N THEN after[ThisChunk] ELSE list

\* A chunk of no more than Fan pages is given to fixup_chunk(), which saves
\* the list and moves the chunk to the end of the sample's pages.
SuspectChunk ==
    /\ spc = "test" /\ at < chunkEnd /\ ThisChunk <= Fan /\ fixups < MaxFixups
    /\ fixups' = fixups + 1
    /\ \E t \in Times : Faster(t) /\ low' = t
    /\ savedPages' = pageset /\ pageset' = MoveChunk(pageset)
    /\ fj' = 0 /\ fk' = ThisChunk /\ swapped' = 0
    /\ lats' = [j \in 0..ThisChunk - 1 |-> 0]
    /\ avail' = IF avail >= Spare THEN 0 ELSE avail
    /\ spc' = "keep"
    /\ UNCHANGED <<prog, sampleVars, base, nodiff, pass, modified, at, chunk,
                   chunkEnd, outer, backedOut, levelVars, tlbVars>>

\* All pages gone through: again while something was changed.
NextPass ==
    /\ spc = "test" /\ at >= chunkEnd /\ outer = <<>>
    /\ IF modified /\ pass + 1 < Passes
       THEN /\ pass' = pass + 1 /\ modified' = FALSE
            /\ at' = 0 /\ nodiff' = base
            /\ UNCHANGED spc
       ELSE spc' = "sampled" /\ UNCHANGED <<pass, modified, at, nodiff>>
    /\ UNCHANGED <<prog, sampleVars, pageset, avail, base, chunk, chunkEnd,
                   low, outer, fixVars, levelVars, tlbVars>>

Sampled ==
    /\ spc = "sampled"
    /\ lat' = [lat EXCEPT ![Taken] = base] /\ spc' = "search"
    /\ base' = 0 /\ nodiff' = 0 /\ pass' = 0 /\ modified' = FALSE /\ at' = 0
    /\ chunk' = 0 /\ chunkEnd' = 0 /\ low' = 0 /\ outer' = <<>>
    /\ UNCHANGED <<prog, samples, ratio, work, pageset, avail, fixVars,
                   levelVars, tlbVars>>

-----------------------------------------------------------------------------
(* fixup_chunk(): the last ThisChunk pages of the sample.                  *)

\* pagesort() of the chunk's pages from first on: each place in turn is
\* compared with every one behind it.  The two loops are one count.  For no
\* pages the first loop's bound, less than none, is huge, but there is nothing
\* to compare.
PageSort(list, ls, first) ==
    LET sorted[c \in 0..ThisChunk * ThisChunk] ==
          IF c = 0 THEN [pages |-> list, lats |-> ls]
          ELSE LET s == sorted[c - 1]
                   i == (c - 1) \div ThisChunk
                   j == (c - 1) % ThisChunk
               IN  IF first <= i /\ i < j /\ s.lats[i] > s.lats[j]
                   THEN [pages |-> Swapped(s.pages, ChunkSlot(i), ChunkSlot(j)),
                         lats |-> Swapped(s.lats, i, j)]
                   ELSE s
    IN  sorted[ThisChunk * ThisChunk]

\* Which pages can be kept: the others go to the end, then are sorted.
KeepPages ==
    /\ spc = "keep" /\ fj < fk
    /\ \E t \in Times :
          IF 995 * t <= 1000 * low
          THEN /\ lats' = [lats EXCEPT ![fj] = t] /\ fj' = fj + 1
               /\ UNCHANGED <<fk, pageset>>
          ELSE /\ lats' = [lats EXCEPT ![fk - 1] = t] /\ fk' = fk - 1
               /\ pageset' = Swapped(pageset, ChunkSlot(fj), ChunkSlot(fk - 1))
               /\ UNCHANGED fj
    /\ UNCHANGED <<prog, spc, sampleVars, avail, chunkVars, savedPages,
                   swapped, fixups, backedOut, levelVars, tlbVars>>

\* With no page spare but one it divides by zero.  With none, the others
\* would be looked for among the sample's own pages and beyond; but when all
\* can be kept it goes on.
SortBad ==
    /\ spc = "keep" /\ fj = fk
    /\ lats' = PageSort(pageset, lats, fj).lats
    /\ pageset' = PageSort(pageset, lats, fj).pages
    /\ fk' = 0
    /\ spc' = CASE Spare = 0 /\ fj < ThisChunk -> "undefined"
              [] Spare = 1 -> "trapped"
              [] OTHER -> "replace"
    /\ UNCHANGED <<prog, sampleVars, avail, chunkVars, fj, savedPages, swapped,
                   fixups, backedOut, levelVars, tlbVars>>

\* A spare page in its place: it stays if that is faster than the worst.
Replace ==
    /\ spc = "replace" /\ fj < ThisChunk /\ fk < 2 * N
    /\ LET spare == N + Spare - 1 - ((fk + avail) % (Spare - 1))
       IN  \E t \in Times :
              LET better == t < lats[ThisChunk - 1]
                  sorted == IF better
                            THEN PageSort(Swapped(pageset, N - 1, spare),
                                          [lats EXCEPT ![ThisChunk - 1] = t],
                                          fj)
                            ELSE [pages |-> pageset, lats |-> lats]
                  keep == 995 * sorted.lats[fj] <= 1000 * low
              IN  /\ lats' = sorted.lats /\ pageset' = sorted.pages
                  /\ fj' = IF keep THEN fj + 1 ELSE fj
                  /\ swapped' = IF keep THEN swapped + 1 ELSE swapped
    /\ fk' = fk + 1
    /\ UNCHANGED <<prog, spc, sampleVars, avail, chunkVars, savedPages,
                   backedOut, fixups, levelVars, tlbVars>>

\* bcopy(saved_pages, pages, sizeof(int) * ntotalpages): elements are of
\* WordSize bytes.
Restored == [i \in 0..Total - 1 |->
                IF i < (IntSize * Total) \div WordSize
                THEN savedPages[i] ELSE pageset[i]]

\* The exchange is kept if it pays; else it is backed out.
Replaced ==
    /\ spc = "replace" /\ (fj >= ThisChunk \/ fk >= 2 * N)
    /\ avail' = IF Spare = 0 THEN fk + avail ELSE (fk + avail) % (Spare - 1)
    /\ \/ /\ swapped = 0 /\ nodiff' = low
          /\ UNCHANGED <<pageset, base, modified, backedOut>>
       \/ \E t \in Times :
             /\ swapped > 0
             /\ IF 1000 * t >= 999 * base
                THEN /\ pageset' = Restored /\ backedOut' = TRUE
                     /\ nodiff' = low
                     /\ UNCHANGED <<base, modified>>
                ELSE /\ pageset' = MoveChunk(pageset) /\ base' = t
                     /\ modified' = TRUE
                     /\ UNCHANGED <<nodiff, backedOut>>
    /\ at' = at + ThisChunk /\ spc' = "test"
    /\ low' = 0 /\ fj' = 0 /\ fk' = 0 /\ lats' = <<>> /\ savedPages' = <<>>
    /\ swapped' = 0
    /\ UNCHANGED <<prog, sampleVars, pass, chunk, chunkEnd, outer, fixups,
                   levelVars, tlbVars>>

-----------------------------------------------------------------------------
(* find_cache() and the levels that main() finds.                          *)

\* The last jump before a sample twice its size, from start on.
Jumps(i) == {j \in from..i : lat[j] >= 0 /\ ratio[j] > 150}
Ends == {i \in from..samples - 1 :
            /\ lat[i] >= 0 /\ Jumps(i) # {}
            /\ LenOf(Max(Jumps(i))) * 2 <= LenOf(i)}
Found == Max(Jumps(Min(Ends)))

\* Sizes of 5/4 and 7/4 of a power of two are no caches.
Legal(s) == IF s % 4 \in {1, 3} THEN s + 1 ELSE s

Level ==
    /\ spc = "levels"
    /\ IF Ends = {} \/ 100 * lat[Found] > 50 * lat[samples - 1]
          \/ Legal(Found) >= samples
       THEN spc' = "done" /\ UNCHANGED levelVars
       ELSE /\ levels' = Append(levels, Legal(Found))
            /\ from' = Legal(Found) + 1
            /\ UNCHANGED spc
    /\ UNCHANGED <<prog, sampleVars, pageset, avail, chunkVars, fixVars,
                   tlbVars>>

-----------------------------------------------------------------------------
(* find_tlb().                                                             *)

\* compute_times(): is a page a time slower than a line a time.
Tries(slow) == verdict' = [verdict EXCEPT ![ti] = slow]

Double ==
    /\ spc = "double" /\ ti <= TlbPages
    /\ \/ /\ Tries("slow") /\ spc' = "halve"
          /\ lower' = ti \div 2 /\ upper' = ti
          /\ ti' = lower' + (upper' - lower') \div 2
       \/ Tries("fast") /\ ti' = 2 * ti /\ UNCHANGED <<spc, lower, upper>>
    /\ UNCHANGED <<prog, sampleVars, pageset, avail, chunkVars, fixVars,
                   levelVars>>

NoTlb ==
    /\ \/ spc = "double" /\ ti > TlbPages
       \/ spc = "halve" /\ ti >= TlbPages
    /\ spc' = "none"
    /\ UNCHANGED <<prog, sampleVars, pageset, avail, chunkVars, fixVars,
                   levelVars, tlbVars>>

Halve ==
    /\ spc = "halve" /\ ti < TlbPages /\ lower + 1 < upper
    /\ \/ Tries("slow") /\ upper' = ti /\ UNCHANGED lower
       \/ Tries("fast") /\ lower' = ti /\ UNCHANGED upper
    /\ ti' = lower' + (upper' - lower') \div 2
    /\ UNCHANGED <<prog, spc, sampleVars, pageset, avail, chunkVars, fixVars,
                   levelVars>>

TlbFound ==
    /\ spc = "halve" /\ ti < TlbPages /\ lower + 1 >= upper
    /\ spc' = "done"
    /\ UNCHANGED <<prog, sampleVars, pageset, avail, chunkVars, fixVars,
                   levelVars, tlbVars>>

SearchNext ==
    \/ LastSample \/ FirstSample \/ Search \/ SearchDone \/ Sample \/ KeepChunk
    \/ DivideChunk \/ PartDone \/ SuspectChunk \/ NextPass \/ Sampled
    \/ KeepPages \/ SortBad \/ Replace \/ Replaced \/ Level
    \/ Double \/ NoTlb \/ Halve \/ TlbFound

SearchSpec ==
    SearchInit /\ [][SearchNext]_searchVars /\ WF_searchVars(SearchNext)

-----------------------------------------------------------------------------
(* Properties.                                                             *)

APermutation(list) == {list[i] : i \in DOMAIN list} = 0..Total - 1

\* The list of pages has every page once, whatever fixup_chunk() tries, as
\* long as nothing had to be backed out.
PagesKept == ~backedOut => APermutation(pageset)

\* Changes that are no benefit are backed out: the list is what it was.
BacksOut == [][backedOut' /\ ~backedOut => pageset' = savedPages]_searchVars

HasLatency(s) == lat[s] > 0
Gap(l, r) == l < r /\ HasLatency(l) /\ HasLatency(r)
             /\ \A s \in l + 1..r - 1 : lat[s] = -1

\* When search() is done there is no jump left between sizes that are not
\* neighbours; the levels that are found ascend and each is a jump, or the
\* legal size behind one.
\* tlb: the size that is returned was fast, or is half the first one, which
\* is not tried, and the next one slow.
SearchComplete ==
    /\ prog = "cache" /\ spc \in {"levels", "done"} =>
         /\ \A l, r \in 0..samples - 1 :
               Gap(l, r) => /\ ratio[l] = (100 * lat[r]) \div lat[l]
                            /\ r > l + 1 => ratio[l] <= 135
         /\ \A i \in 1..Len(levels) :
               /\ i > 1 => levels[i - 1] < levels[i]
               /\ \E s \in {levels[i], levels[i] - 1} :
                     s >= 0 /\ ratio[s] > 150
    /\ prog = "tlb" /\ spc = "done" =>
         /\ verdict[lower + 1] = "slow"
         /\ verdict[lower] = "fast" \/ lower = TlbStart \div 2

\* Both searches end.
SearchEnded == spc \in {"done", "none", "undefined", "trapped"}
=============================================================================
