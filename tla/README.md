# A verification project for lmbench 3 and its container campaign

This directory models the parts of `src/lmbench-3.0-a9/src` in which several
processes, pipes, sockets and signals meet, the memory structures the benchmarks
build, and the numbers they produce. The modules are TLA+, checked with TLC on
small instances; the theorems in `*Proofs.tla` hold for all values of the
constants and are checked by TLAPS. `PROJECT.json` lists the runs, what each
checks, the source lines behind each definition, and the hazards that decide
which properties are worth stating.

## 1. The system

The repository runs lmbench micro-benchmarks on a host, in Docker and in
Kubernetes, and records times, `perf` profiles and `strace` logs. The logic is in
lmbench; the scripts on top loop over it and compute statistics.

| Component | State | Operations | Interacts with | Module |
|---|---|---|---|---|
| `benchmp()` harness (`lib_timing.c` 77-762) | parent: phase, flags of SIGTERM/SIGCHLD, alarm, result buffers; child: `benchmp_child_state`; four shared pipes | fork, collect `ready`, start, collect `done`, ask and gather, release, reap; a child's `benchmp_interval()` in `warmup`, `timing_interval`, `cooldown` | every benchmark, through `initialize`, `benchmark`, `cleanup` | `BenchMP` |
| samples (`lib_timing.c` 646-732, 1199-1291) | `result_t`, the count of iterations, the time and count published | `insertsort`, merge, `save_median`, calibration | harness, callers (`gettime()`, `get_n()`) | `Samples` |
| context switch ring (`lat_ctx.c`) | pipes, daemons, SIGCHLD disposition | create pipes and daemons, lap, cleanup | harness (runs inside one of its children) | `CtxRing` |
| TCP, Unix-socket and HTTP servers and clients (`lat_tcp.c`, `bw_tcp.c`, `lat_connect.c`, `lat_unix_connect.c`, `lat_http.c`, `lmhttp.c`, `lib_tcp.c`, `lib_unix.c`) | listening socket, a child per connection, its zombies | accept, fork, serve, shut down, reap; connect with retries, exchange, `-S` | each other over sockets; harness in the client | `Streams` |
| UDP and RPC (`lat_udp.c`, `bw_udp.c`, `lat_rpc.c`, `lib_udp.c`) | sequence numbers on both sides, an alarm, calls that are repeated | send, receive, resynchronise, time out, shut down | as above | `Datagrams` |
| one-peer exchanges, transfers, jobs and files (`lat_pipe.c`, `lat_unix.c`, `lat_fifo.c`, `lat_sem.c`, `lat_fcntl.c`, `bw_pipe.c`, `bw_unix.c`, `lat_proc.c`, `lat_cmd.c`, `lat_pmake.c`, `lat_fs.c`, `bw_file_rd.c`, `bw_mmap_rd.c`, `lat_mmap.c`, `lat_pagefault.c`, `lat_select.c`, `lat_sig.c`) | a partner process or jobs, two channels, semaphores, locks, files | `initialize`, `benchmark`, `cleanup`, the signal handlers of the harness's child | harness | `Hooks` |
| `lmdd` (`lmdd.c`) | offsets, buffer, counters, child that writes | read, check a pattern, write, fork a writer, random offsets, `done()` | signals, its own children | `Lmdd` |
| memory (`lib_mem.c`, `lat_mem_rd.c`, `line.c`, `tlb.c`, part of `cache.c`) | pointer chains through a buffer, the pointers kept from one measurement to the next | build, walk, relink, free | harness | `Chains` |
| `cache` and `tlb` (`cache.c`, `tlb.c`) | sizes with their latencies, the list of pages, bounds | search, exchange of pages, levels | memory | `CacheSearch` |
| scheduling (`lib_sched.c`) | a static mask and list per process | choose a processor, pin | harness, every benchmark that forks | `Placement` |
| suite (`scripts/lmbench`) | the program that runs | one program after the other | all programs | `Suite` |
| clock (`lib_timing.c` 1296-1553, `enough.c`) | cached overheads and `enough` | `compute_enough`, `find_N`, `time_N`, `t_overhead`, `l_overhead` | harness | - |
| statistics (`lib_stats.c`), options (`getopt.c`) | none, or a scan position | pure computations | everything | - |
| campaign scripts (`host_perf.sh`, `docker_perf.sh`, `docker_perf_production.sh`, `k8s_perf.sh`) | values collected | warm up, run, extract a metric, statistics, profile | the benchmarks, as programs | - |

How a measurement goes. `benchmp()` makes four pipes and forks `parallel`
children. A child runs `initialize(0)`, then `benchmark(n)` again and again,
and `benchmp_interval()` between two of those calls. It says `ready`, waits in
`warmup` for a start byte, times its repetitions in `timing_interval`, says
`done` and goes on running the benchmark in `cooldown`, so that the others stay
under load, until it takes a byte that asks for its results. It writes its
`result_t`, runs `cleanup(0)` and blocks for a byte that lets it exit. The bytes
in the pipes have no sender and no kind: *whoever reads first gets it*. If
`parallel > 1` a whole call for one child comes first and sizes the iterations.

What is hard to test: which child takes which byte; a child that dies, or a
signal that comes, between any two of those steps; whether everybody ends in
every such case; counts that belong to another interval than the time; rings,
partners and jobs that outlive their benchmark, or a `cleanup()` that kills a
process that is not its own; servers with several connections, one of which asks
them to go; datagrams that come late, twice or never; chains that miss a word
when a length is odd. `PROJECT.json` lists them as hazards, each with the line
where it bites and the properties that would notice, or the reason why none does.

What makes each component correct:

- **harness**: no child measures unless all are past their initialisation;
  none stops producing load while another measures; reports are not mixed;
  what is published is complete, or nothing is; everything ends, whoever fails.
- **samples**: no sample lost, none out of order, none beyond its buffer; time
  and count belong together; the search for the count of iterations settles.
- **ring**: exactly one message; a lap is one pass of each daemon; all ready
  before timing; no daemon left behind; the head's own kills are not failures.
- **servers and clients**: a server goes when it is told and not before; its
  handler never blocks it; a round counted is a round; every client ends.
- **hooks of the benchmarks**: `cleanup()` kills the child's own processes and
  leaves none behind; one hand-over at a time; child and partner end.
- **lmdd**: reported, written and compared is what was moved.
- **memory**: a chain is one cycle through all it is to visit, and a
  measurement walks the chain there is.
- **cache, tlb**: no jump is left between sizes that were skipped; no page is
  lost in an exchange; the search ends.
- **scheduling**: processes a policy separates are separate.
- **scripts**: a value recorded is the metric of the run it is recorded for.

## 2. Modules

| Module | What it is |
|---|---|
| `BenchMP` | One call of `benchmp()`: the parent, `P` children, the four pipes, signals and failures. One action per statement or block between two points at which another process can be noticed. |
| `Harness` | The abstract promise of a call: children initialise, measure, stop, the call ends and publishes all results or none. `BenchMP` implements it (`PromiseKept`). |
| `MCBenchMP` | `BenchMP` for TLC. |
| `BenchMPProofs` | TLAPS: types, the start barrier, the result barrier, the signals, whole reports, and `Harness` implemented. |
| `Samples` | The numbers: calibration, samples kept, sorted, merged, the median, the step from baseline to load. |
| `MCSamples` | `Samples` for TLC: costs and noises. |
| `SamplesProofs` | TLAPS: types, order, capacity, times with their counts, nothing lost in merging, the median and the length of the loaded pass. |
| `CtxRing` | The ring of `lat_ctx` inside one child of `benchmp()`. |
| `CtxRingProofs` | TLAPS: types, the ring is ready when it is timed, one message goes around, nobody is left behind, the head fails for a reason. |
| `Streams` | The connection-oriented servers and their clients; a record per program. |
| `Datagrams` | The datagram servers and their clients over a network that loses, doubles and reorders; a record per program. |
| `MCServices` | One behaviour is one program of `Streams` or of `Datagrams`. |
| `ServicesProofs` | TLAPS: the invariants of `Streams` and of `Datagrams`, and the safety properties of `services`. |
| `Hooks` | `initialize`, `benchmark` and `cleanup` of seventeen benchmarks with the processes and files they make, inside one child of `benchmp()`; a record per program. |
| `Lmdd` | The copying loop of `lmdd` with its child, its signals and its report. |
| `Powers` | Powers of two and reversed bits, as `words_initialize()` and `reverse_bits()` compute them. |
| `Chains` | The pointer chains of `lib_mem.c` and what its callers do to them. |
| `CacheSearch` | The searches of `cache` and `tlb`. |
| `Placement` | `handle_scheduler()` and `sched_pin()` for the processes of one benchmark. |
| `Suite` | The programs that run alone, composed: the variable `program` says which of `Hooks`, `Lmdd`, `Chains`, `CacheSearch`, `Placement` is running, as `scripts/lmbench` runs one after the other. |
| `MCSuite` | `Suite` for TLC: the benchmarks, command lines, chains and machines. |
| `HooksProofs` | TLAPS: whom `cleanup()` kills, what it leaves behind, one hand-over at a time. |
| `LmddProofs` | TLAPS: the offsets of `lmdd`, and that what it reports, writes and compares is what it has moved. |
| `ChainsProofs` | TLAPS: a chain is one circle through all it is to visit, and benchmarks stay on it. |
| `SuiteProofs` | TLAPS: what the searches of `cache` and `tlb` find, the list of pages, the placement of processes; all of it, `HooksProofs`, `LmddProofs` and `ChainsProofs` for the composition. |

### BenchMP: state and code

`ppc` is where the parent is in `benchmp()` and `benchmp_parent()`; `pi` is its
loop counter `i`. `flags` are `benchmp_sigterm_received` and
`benchmp_sigchld_received`. Each pipe of signal bytes is a number of bytes; the
response pipe is the sequence of bytes and pieces of reports in it. `cpc[c]` is
where child `c` is in `benchmp_child()` and `benchmp_interval()`; `state`,
`need_warmup`, `runs` are the fields of `benchmp_child_state` of that meaning.
Every read of a byte pipe is a race: `TakeResultSignal` is the `read()` that
follows the `select()` of `PollCooldown`, a step of its own.

Data that the control does not look at is left out: the report of a child is
`Chunks` pieces with their sender. `longEnough` in `PollTiming` is the outcome of
the comparison `result > 0.95 * enough`; `Samples` has the numbers behind it.

Failures are `Faults`: a child crashes, `fork` or `malloc` fails in the parent,
the parent is sent SIGTERM (`term`) or killed (`kill`), at most `MaxFaults` of
them together. `Nested` says that `benchmp()` has run in this process before. That
matters, because the SIGTERM handler it installs is never restored, so that
children of a later call inherit one that only sets a flag.

### Samples: state and code

An interval is one step (`Measure`), with the time an operation of `cost` takes
under some `noise`. `InsertSort`, `Position`, `Median` are `insertsort()` and
`save_median()` on sequences. `Gather`, `Merge`, `Publish` are the end of
`benchmp_parent()`, sample by sample; `StartLoad` is the step from the baseline to
the loaded call. `double` arithmetic is done in integers, rounded where the code
truncates. `insertsort()` compares the quotients `u/(double)n` of two samples; the
model compares them exactly (`Slower`, by cross products), so it tells apart two that
differ by less than a `double` holds, and orders all others as the code does.

### CtxRing: state and code

`hpc` is where the head is in `initialize`, `benchmark`, `benchmp_interval` and
`cleanup`, `dpc[d]` where a daemon is in `create_daemons` and `doit`, `p[q]` the
number of messages in pipe `q`. Who holds which end of a pipe follows from those
(`Open`, `Readers`, `Writers`), and from that follow end of file and SIGPIPE. A
pending SIGCHLD is handled before the head's next statement (`Interrupted`).
`benchmp_child_sigchld()` hands `cleanup()` the harness's own state instead of the
benchmark's: the fields it reads as pids and pipes are none, and the outcome in any
build is that the head dies without killing a daemon (`Sigchld`).

### Streams and Datagrams: state and code

A program is a record of what its two sides do, so that `LatTcp`, `BwTcp` and the
others are short and the handlers are written once. In `Streams` a connection is a
record: what it carried first (which decides what the server makes of it), the
units under way each way, what the client has received, and which ends are open.
`listening` are the processes that hold the listening socket, `worker[i]` the child
that serves connection `i`. `sigchld` and `reaping` are the two halves of
`sigchld_wait_handler()`: the signal is one bit, and merged when children die
together. A child of `fork()` keeps the listening socket, so that a `connect()` can
succeed when nobody accepts any more (`SomeoneHolds`). `lmhttp` ignores SIGPIPE;
when its client dies while a file is sent, `rdwr()` subtracts the failures of
`write()` from its count until that is negative, and exits with the whole server
(`InlineWriteFails`). Faults: a client dies at any
step, a server's `fork()` fails, a message arrives in parts, and the hour's alarm
of a server goes off.

In `Datagrams` the network is a set of datagrams: any of them may be taken next
(reordering), one may be lost, or taken and left (doubled). The client's `alarm(15)`
of `lat_udp` may end any wait. `clnt_call()` is external and modelled by what it
does for `lat_rpc`: it sends again, matches answers to calls by number, and gives up
after its total time. `Ntohl` swaps the digits of a number that was sent as it was,
which is what happens to the control words of `bw_udp` on a little-endian machine.

### Hooks: state and code

What is between a child of `benchmp()` and the things it creates. A program is a
record with the steps of its `initialize()` and `cleanup()` (`Try`, `Make`, `Drop`,
`Fork`, `Hello`, `Kill`, `Reap`), each with what the code does when the call fails,
and with the kind of its iteration: a question and its answer, turns on two
semaphores, locks on two files, a stream, jobs, or copies. `apc` is where the child
is, `pid` what it believes of its partner: none, its own, or the -1 of a failed
`fork()`. `kills` collects whom it has killed, `res` what outlives it in the file
system or the kernel. The child's handlers of SIGTERM and SIGCHLD are those of
`benchmp_child()`, with their wrong argument.

`lat_cmd` does not tell the child of `fork()` apart, which goes on with the loop, the
control pipes and the rest of the measurement, while the original is in `waitpid()`.
The variables are those of the innermost copy, and `waiting` is the stack of the
originals, each with the iterations it has left; `Wake` is the return of its
`waitpid()`, after which it goes on itself. The harness knows the first of them only,
so its signals reach that one (`OriginalDies`).

Faults: any call fails, the partner dies, the parent dies, SIGTERM comes. What the
code makes of a failure that it only reports is followed to its end. Without a
semaphore set both sides of `lat_sem` fail in `semop()` and exit. Without a socket
pair `lat_unix` and `bw_unix` work on the descriptors their memory held
(`NoChannel`, `PartnerFails`): a call fails, or works on something else, or blocks;
`lat_unix` then calls `cleanup()` itself, and `bw_unix`, whose count is unsigned, takes
an error for all of the data. The partner's exit is a SIGCHLD, whose handler runs
`cleanup()` on the state of the harness. In `lat_proc` the -1 of a failed `fork()` is
in the global from there to the `exit()` (`ForkJobFails`, `GiveUp`), and SIGTERM in
between makes `kill(-1, SIGKILL)` of it.

A transfer is whole units, so the total that `bw_unix` rounds up (`bw_unix.c:175`, to
more than the next multiple) is not seen, nor is that of `bw_udp` in `Datagrams`.

### Lmdd: state and code

One action per step of the loop in `main()`. The buffer and the files are bytes. Of a
byte it is known of which integer it is, and which of its four bytes (`IntByte`): the
word at offset 4k of a file, or of a pattern, is the integer 4k, so that a block
written at a wrong place, or from within a word, shows. `touch=` zeroes one byte in
4096 (`Touched`). `writer` is the child of `fork=` with its copy of the buffer. `done()`
is a stack of frames, because a signal may call it while it runs (`frames`); `Shift` is
its `int_count <<= 2`.

`ALIGN()` is a mask (`Masked`), which rounds up to a block only if that is a power of
two; `LowBits` says what it takes off. Offsets are signed, as `lseek()` takes them, and
one below zero leaves the file where it was (`Seek`). `rand=` less two blocks may be
below zero, and an unsigned number of 64 bits that `drand48()` multiplies: `Drawn`
follows the offsets that come of it up to `4 * Words` on either side of zero. With
`rand=` of two blocks the range is empty and the offset its start. `end=` without
`rand=` alternates with -1 less `end=`. `norepeat[]` has its first offset stored before
the array, and without `count=` begins anew when full (`Full`).

An input is a file, a pipe or internal. `read()` of a pipe takes any part of a block
there is (`Readable`), and a pipe cannot be positioned. With `padin=` the first `read()`
is not looked at, an error included (`ReadFails`, `Padding`).

`CopyFaithful` says for which command lines a copy is one, and its exceptions are
what the code does: `padin=` reads a block that it does not count and moves no
offset on, so that a copy starts a block late; with `fork=` and `rand=` the parent
seeks the offset it shares with its child before the child has written; `append`
writes at the end of the file; `touch=` spoils a byte per 4096; a block that is read
short loses its odd bytes from the report, up to three each time (`odds`), and the
blocks after it begin within a word of the pattern (`Astray`), as they do after an
offset that is no multiple of four; where the offset is not where a pipe is
(`Displaced`) there is nothing to compare. `OffsetsApart` exempts a `rand=` that
underflows or is missing (`Underflow`).

Bounds of the model: one buffer (`bufs=1`), an output that is a file and no pipe, no
`move=`.

### Chains and CacheSearch: state and code

`mem` maps an address (a word offset) to the address it points to; `Link` is an
initializer with the first run it makes, `LinkAgain` those that are called for every
interval, `Benchmark`, `Loads`, `ParMem`, `LineTest`, `Measure`, `Swap` (the exchange
of two groups of pages) are the callers. `saved` are the static `addr_save` and
`p_save` of each `mem_benchmark_N()`, and `Build` may give a new buffer the address
of an old one. `words_initialize()` and `permutation()` are `Word` and `Orders`, the
first by bit reversal (`Reversed` of `Powers`) and the second by its result: any order.
`LayoutsAssumption` says which chains are built. What the code sees to is that
`loads()` skips a stride that is larger than the size, and that `line_test()` narrows to
fewer lines than there are. The rest are bounds of the model, which no caller checks,
and outside of which the properties of chains need not hold: with `lat_mem_rd -t` and a
stride above a page, at a size of whole pages, `thrash_initialize()` links nothing; a
page of fewer than two lines has no first pointer; `measure()` links the last line of the
last page, which is `lines[-1]` if that page holds less than one (`cache.c:416`); a
buffer that `cache` or `lat_dram_page` rearranges is taken to be whole pages. The walk
of `lat_dram_page` over its regrouped chain starts at the base of the buffer
(`lat_dram_page.c:88`), not at the first pointer, and is not modelled; the chain is.

`CacheSearch` has the program as a sequence of measurements, each of which may come
out at any of `Times`. `work` is the recursion stack of `search()`, `outer` that of
`test_chunk()`, which divides a chunk that makes a difference into `Fan` parts until one
is small enough for `fixup_chunk()` (`DivideChunk`, `PartDone`). `pageset` is the
list of pages that `test_chunk()`, `fixup_chunk()` and `pagesort()` reorder.
`Restored` copies back as many bytes as the code does. Where the code divides by the
number of spare pages less one, the model stops (`SortBad`): with one it traps, with
none it looks for pages beyond the list, unless all that were there can be kept.

### Placement and Suite: state and code

`pin[q]` is the set of processors process `q` may use, `cpumask`, `cpus` and
`values` are the static variables of `sched_pin()` and `custom()`, which each process
has for itself and inherits over `fork()`. Shifts wrap at `IntBits` as they do on
x86.

`Suite` composes the programs that run alone. They share no state, so their
composition is a sum: `program` chooses one, and the others rest. That keeps the
number of runs at the number of questions asked.

## 3. Runs

| Run | Instance | What it shows |
|---|---|---|
| `benchmp_faults` | 3 children, 1 repetition, 2 faults of any kind | all safety of the harness; the promise of `Harness` |
| `benchmp_live` | 3 children, no cleanup function, parent may be killed | without failure all get through; if the parent dies all children end |
| `benchmp_first` | 1 child, first call, 3 faults of any kind | the call ends, whatever fails |
| `samples_load` | 2 children, 3 repetitions, three costs, noise of 5% | samples and calibration |
| `ctx_ring` | 4 processes, 3 batches of 2 laps, 2 faults of any kind | the ring, its end and its failures |
| `services` | each of 12 client and server programs, 2 clients with 2 rounds, one mishap | servers stop when told and never block in their handler; a round is a round; clients end |
| `suite` | 17 benchmarks with up to 3 faults, 25 command lines of `lmdd` with up to 2, 9 chains, the searches of `cache` and `tlb`, 16 placements | what `cleanup()` kills and leaves; what is copied; what chains visit; what the searches find; who shares a processor; that programs end |
| `benchmp_goal`, `benchmp_sigpipe`, `benchmp_hang`, `samples_median`, `cache_backs_out` | as above | a text of the repository that the code does not keep, with a trace |

The last line are the findings of `PROJECT.json`:

1. `doc/lmbench3.ms` guarantees that during any timing interval all other
   children *run the benchmark*. The code guarantees that they are *initialised*
   (`MeasuredUnderLoad`, proved); `ready` is sent before the first call of the
   benchmark (`OthersRunBenchmark` fails).
2. "We allow children to die now, without it causing an error" - but if all do, the
   write of the exit bytes raises SIGPIPE (`DeathsAllowed` fails).
3. "We wait twice the timing interval plus two seconds" - the error exits wait
   before that alarm is set, and children of a later call only note SIGTERM
   (`ErrorsEnd` fails; `Ends` holds for a first call).
4. "Reports the median result" - with an even number of samples of a lone child,
   whose counts differ, what is reported need not lie in the middle
   (`MedianReported` fails; `LoadMeasured` says what holds under load).
5. "No benefit to these changes; back them out" - half of the list of pages is
   saved and half restored, so that a page may be listed twice afterwards
   (`BacksOut` fails; `PagesKept` holds as long as nothing was backed out).

Properties that hold say exactly for whom, and so record what the code does
otherwise. `OnlyOwnChildren` names the programs whose `cleanup()` may do
`kill(-1, SIGKILL)` after a failed `fork()`: `lat_pipe`, `lat_unix` and `lat_sem` when
their parent dies, `lat_unix` when its socket pair failed too, `lat_proc` when SIGTERM
comes before its `exit()`; `HooksEnded` those that may not end (`lat_fifo`, `lat_pmake`,
...), `StopsOnRequest` the client of `lat_tcp` whose death the server takes for the
request to go and that of `lmhttp` whose death ends it, `OwnProcessor` the processors
from the sign bit on and the numbers that are no power of two,
`RoundsCarryMessages` what a message in parts does to `lat_tcp`, `PeersEnded` the
programs with no timer, `ChainCovers` the lengths for which a chain is one cycle.
None of these is a finding, because no text of the repository says otherwise.

### Bounds and why they are enough

- Three children are the fewest for which one can be ahead, one behind and one
  dead; two faults are a failure and another during its handling. `Chunks = 2` is the
  smallest report that can be split.
- Four processes give the ring a daemon with daemons on both sides, whose pipe ends
  neither it nor the head alone decides; two laps per batch exercise the loop and its
  end, three batches the calls of `benchmp_interval()` before, at and after the change
  of the SIGCHLD handler.
- The costs of `samples_load` reach each branch of the calibration: long enough at
  once, scaled by ratio, multiplied by eight, given up.
- `services`: `Clients`/`Peers` 2, so that one client is served while another
  connects or has just died; `Rounds`, `Calls` 2 and `Size` 2, the least with a
  second round and a part of a message; `MaxTries = 1` for the 10 of `tcp_connect()` and
  `Attempts = 2` for the sends of one RPC, so that a first try and a last one differ;
  `MaxStreamFaults = 1`, `MaxMishaps = 1` besides the alarms and timeouts, which are
  always possible; datagrams of up to `MaxDgram = 3` so that the default size of
  `bw_udp` is too large, as it is for UDP.
- `suite`, benchmarks: `Intervals = 2` and `Laps = 2`, so that a hand-over can be left
  over between laps and between intervals; `MaxHookFaults = 3`, the number it takes to
  see `kill(-1)` with a signal besides.
- `suite`, `lmdd`: blocks of 8 bytes, and of 12 and 6, which are no power of two and no
  words; files of up to 48 bytes (`Words = 16`), at most two mishaps of those that a
  command line can have. Each option that changes the loop is in one command line at
  least, and those that interact are together; `rand=` is one, two, and more blocks.
  `RepeatSize = 2` stands for the 10240 offsets after which `norepeat[]` begins anew.
- `suite`, chains: `Builds = 2` (a chain and one after it at the same address),
  `Uses = 3`, `Unroll = 3` for the 100 pointers of an iteration, lengths of up to three
  pages of eight words that end in the middle of a line and of a page.
- `suite`, searches: eight sizes are two doublings, so that `search()` splits twice on
  both sides. `Times` are no result, a fast value and a slow one; their ratio is above
  1.5, and a split that is no jump (a ratio between 1.35 and 1.5) is left to the proof.
  `Fan = 2` for the 20 parts of a chunk: with pages of two units the larger samples have
  five and six of the seven, so that a chunk is divided again, as it is from 401 pages
  on in the code. `Passes = 2` for 8, `MaxFixups = 1` exchange. A sample with one spare
  page is among them; one with none, which may go on, occurs in `cache_backs_out`, with
  nine sizes and pages of four units.
- `suite`, placement: `IntBits = 8`, `LongBits = 16` keep the ratio of 32 to 64. Up to
  eight processors, with and without some the process may not use.

Deadlock is checked except where the system really may stop: `benchmp_faults` (an
error exit of a later call may wait for ever, finding 3), `ctx_ring` (a daemon
that dies when the handler is gone leaves the head blocked in `read()`, which is a
hazard and no finding: no text promises otherwise), `services` and `suite` (the
programs end, and the ones named above stop earlier). The violation runs do not
check it either.

### Fairness

`FairSpec` of `BenchMP` and `CtxRing` is weak fairness of the parent, of each child
and of each daemon: the kernel runs a process that can run. No fault is fair. In
`Samples` it is weak fairness of the whole next-state relation: something runs. No
fairness makes a particular child win a race for a byte: `Completes` holds whoever
does. `Completes` of `BenchMP` is stated for behaviours without faults, and ends with
"everything is published and all children are gone, for good".

`StreamFairness` and `DgramFairness` are weak fairness of the disjunction of the steps
of all processes, which is less than fairness of each: as long as any process
can go on, one does. It is enough because the work is finite (`Rounds`, `Calls`, and
a bounded number of stop datagrams), and it does not let a process starve another
except for that time. The alarm of `lat_udp` and the timeout of `lat_rpc` are steps
of their clients: timers go off. In `Suite` the child of `benchmp()`, its partner and
each job are fair separately, since a partner that spins must not keep the child
from its `kill()`; `lmdd` and the searches are one process each.

## 4. Proofs

All proofs are checked from nothing; no fact is assumed but the `ASSUME`s of the
modules, which say what the constants are: positive numbers of children,
repetitions, processes, rounds and calls; `P > 1 => Nested`; the services,
programs and benchmarks are the ones the modules define (`ServiceAssumption`,
`ProgramAssumption`, `BenchmarkAssumption`), in any selection; a datagram client is
not called `server` or `stopper`; measured times are natural numbers
(`SearchAssumption`); the options of `lmdd` are numbers, flags or missing, a block is a
word at least and with a pattern whole words, and `end=` is not above `rand=`, where
both are given, because `main()` cuts it (`CommandsAssumption`); no more processors are
allowed to a process than are online, and `sched_getaffinity()` returns none outside the
mask it was given (`HostsAssumption`); chains are built as section 2 says, which leaves
out some that callers could ask for (`ChainsAssumption`, `LayoutsAssumption`); the suite
has something to run (`SuiteAssumption`).

**The start barrier** (`BenchMPProofs`). `MeasuredUnderLoad` (no child has left
warm-up unless all have said `ready`, while the parent lives) is not inductive. The
strengthening is `BarrierInv`, in three parts besides the types. `ReadyCounted`: until
the parent writes the start bytes there are none, no child has left warm-up, and the
children that have said `ready` are as many as the bytes counted and those still in
the pipe; from the start bytes on all have said it. `Counters` keeps the loop and
per-child counters in range. `Buried` says which children the parent's error loops
have waited for, so that no step of theirs is mistaken for a `ready`. The parent
cannot tell senders apart, so the argument is one of counting: a lemma on cardinality
says that a child's first `ready` adds one to a set and one to a sequence, and when
`P` bytes are counted the set is all of `Child`. `TypeCorrect` and `StartBarrier` are
read off the invariant.

**The rest of the harness** (`BenchMPProofs`). `HarnessInv` adds four parts to
`BarrierInv`, and `benchmp_faults` checks it. `DoneCounted` is the second barrier: the
start bytes left are for the children still in warm-up, `done` bytes are counted
against the children that are in their cool-down, and nobody stops before all are
there (`LoadOutlastsMeasurement`). `KindsCounted`: while signals are counted the
response pipe holds signals of that kind (`SignalsInStep`). `ReportOwned`: during one
report either the byte that asks for it waits to be taken, or one child owns the
pipe, and what the parent has read and what is in the pipe together are, in order,
what that child has written; so reports are whole and each child's comes once
(`ResultsWhole`). `FailuresFirst`: until the exit bytes a signal the parent gets is
the sign of a failure.

`HarnessImplemented` is the refinement of `Harness`: the phases of `BenchMP` map to
the abstract ones, and every action is a step of `Harness` or a stutter. The steps
that need `HarnessInv` are the ones that publish (everything was gathered, each child
once), that stop a child (nobody measures any more), and that start one (all are
initialised).

**Samples** (`SamplesProofs`). `Sorted`: the place `Position` finds exists (the
least index at which the new sample is slower; well-foundedness of `<` on `Nat`) and
inserting there keeps a descending sequence descending; the cross-multiplied
comparison needs its own arithmetic lemmas, transitivity of "not slower" for positive
counts among them. `Fits`: from `Bounded`, which ties a child's samples to its `i` and
`i` to `repetitions`, and the merged samples to the number of reports gathered.
`TimesMatch`: each sample was recorded with the count its time was taken with.
`NoneLost` needs `Conserved`: the values in the reports gathered are, each as often,
those in `merged_results` and those of the report at hand that are still to come;
inserting at any place adds one occurrence. `MedianOfLoad`: under load all counts are
the same, so that the average of the two middle samples is between them.
`LoadIsMeasured` has a hypothesis, `OddBaseline`: a lone child ends its baseline with
an odd number of measurements or none. Then, by `BaselineInv` (it keeps and reports
each measurement it records), the pace of the loaded pass is one that was measured.
With the eleven repetitions of TRIES, or the three of `samples_load`, the hypothesis
fails only if the child gives up after an even number. It cannot be dropped: with two
samples of 4850 and 9700 after one and two iterations `save_median()` makes 7275
after one of them, and the three iterations that follow from that take less than SHORT.

**The ring** (`CtxRingProofs`). `ReadyRing` is a barrier again, but along the ring:
while daemon `d` is not ready no message is in pipe `d` or beyond and no later
daemon holds one (`ReadyInv`), so when the head reads the message back all are.
`CleanEnd` follows the loop of `cleanup()`: the pids stored are those of all
daemons, and those below the counter are reaped. `NoFalseAlarm`: without a failure no
daemon ends while the handler is in place, because until then the head has the pipes
open and kills nobody. `OneRound` needs `MessageInv`: a message in a pipe, in
the hands of a daemon or with the head has passed the daemons before that place once
more than those behind it (`InPipe`, `InHand`, `WithHead`, with `PassedBy`), so there
cannot be two, and the laps a daemon has seen never exceed those of the one before it
(`InOrder`). All need the same case split over the actions, and `TypeInv`, which adds
to `TypeOK` what bounds the loop counters.

**Connections** (`ServicesProofs`). `StreamInv` has six parts. `BaseInv` is the types
and what makes the model's bound on connections no restriction: each connection made
is one of a round of a client, or the stopper's (`Dialled`, `ConnBounded`), a client at
work has one of its own (`Sockets`) and rounds left. `QueueInv`: a connection is
accepted once, so no child is forgotten before it is waited for. `ReapInv`: SIGCHLDs
pending and handlers that run are never more than the zombies, each of which
is waited for by one handler only; `WaitNeverBlocks` follows. `ClientFirst` and
`StopInv`: a server that has gone was asked to, where a connection to `lat_tcp` that
is closed and brought nothing belongs to a client that died (`Unsaid`), and so does one
to `lmhttp` that brought a request and has no reader (`LeftUnread`), as a client that
lives closes after the server (`FileClients`). `RoundInv`
accounts for the messages of a connection: `lat_tcp` has one message under way while
it waits and as many received as rounds done (`EchoFlow`), what `bw_tcp` has
received and what it still waits for are its rounds (`PushFlow`). Each lemma takes one
part through the actions; `ClientTouches` and `ServerTouches` say once which
connections and counters an action can change.

**Datagrams** (`ServicesProofs`). `DgramInv` has for each client what it has done
(`CallsLeft`), the account of `bw_udp` (what was to be moved is what has come and
what is owed, `Account`), the number of the last answer of `lat_udp` and `lat_rpc`
(`Answered`) and `Quiet`, which it depends on: while no datagram comes twice,
`lat_udp` has at most one on its way, the question or the answer to the call it waits
for. That is how much its sequence numbers are good for, and `RoundsHold` says no
more. The module also carries the parts to the composition `MCServices`: a
behaviour runs one half, and the other rests in a state that satisfies its invariant.

**Hooks** (`HooksProofs`). The seventeen programs are records, and what the proofs
need to know of them is said once and checked program by program (`Regular`): each
resource made in `initialize()` is removed by a step of `cleanup()` or by a later step
of `initialize()` that no failure skips; a program forks one partner, and a `Kill` is
followed by a `Reap`. `HookInv` is types, bounds and where each hook is (`Phases`), and
nine parts more. `Resources`: what was made is removed by a step still to come.
`OnePartner`: between `fork()` and `waitpid()` the child has a partner, and in
`cleanup()` the `waitpid()` is still ahead. `JobsIdle`: outside an iteration no job runs.
`Originals`: only `lat_cmd` has processes that wait for copies of themselves.
`NothingLeft` is read off these four. `ForkFailed` is what `OnlyOwnChildren` hangs on: a
child whose `fork()` failed waits for an answer that does not come, never completes a
lap and so measures no interval, and comes to `kill(-1)` only if its parent dies before,
or if it has no socket to wait at (`Unpaired`: then it may also be in `cleanup()` with
its SIGCHLD handler in place). `Reasons` and `JobKnown` do the same for signals: a stray
`cleanup()` has a signal that came for a reason, a stranger is killed by `lat_proc` alone
and only on SIGTERM, and the -1 of its failed `fork()` is in the global only on the way to
`exit()`. `Asking` and `TurnsTaken` count the units of a request and its answer that are
under way (`Under`), and give `OneHandover`.

**Searches** (`SuiteProofs`). `search()` works right to left on a stack of calls. The
calls to come are for adjoining parts that reach down to the first sample, nothing
inside a part is measured yet (`Adjoining`), and right of the part on top every
pair of neighbours has its ratio and no jump that was not looked into (`GapsDone`); a
sample in the middle is measured when both its halves are on the stack, and a bad
data point changes the left end only, whose ratio is still to come. With the stack
empty that is all of the samples, and the levels found afterwards ascend
(`LevelsAscend`). `TlbInv` is the bracket of a binary search: `lower` was fast, or half
of the first size, and `upper` slow.

**The list of pages** (`SuiteProofs`). A list that holds every page and has as many
places as there are pages is a rearrangement (`Arranged`), and an exchange of two
places keeps that (`SwappedArranged`). `test_chunk()` exchanges a run of places
(`MoveArranged`) and `pagesort()` is an exchange sort (`SortArranged`), each a recursive
function whose value is followed step by step: a first value and a step give a
function (`RecursionExists`), and a smallest step at which a claim fails contradicts
the one before (`LeastNatural`), which stands in for an induction. `PagesInv` says that
chunks stay within the list, those of the calls of `test_chunk()` that wait on `outer`
too (`Calls`): the parts of a chunk lie in it (`PartsIn`, `ChunkDivided`), and when the
last is done the call before goes on behind it (`PartEnds`). `PagesKept` follows until
something is backed out (finding 5).

**Offsets of `lmdd`** (`LmddProofs`). `Noted`: what `norepeat=` remembers is, in order,
the offsets visited since its array was begun anew but the first, so that an offset
that is chosen again was chosen first or before that. `Fits`: how far an offset goes.
For blocks of any size `ALIGN()` takes off less than a block; for powers of two it
rounds up, and blocks end where the rounded range does. `rand=` less two blocks is not
below zero unless `Underflow`.

**Copies of `lmdd`** (`LmddProofs`). `CopyInv` is `DdTypes`, `DdShape` (which options lead
where) and three accounts. `Inputs`: while the loop runs, only the last block of a file
is short (`Blocks`); an offset of `rand=` is where it has been (`BeenHere`); of a pipe only
a block with odd bytes puts the next one between words (`InPipe`), and nothing does in a
file that is words (`InWords`); the buffer has what the input has there, but what `touch=`
has zeroed, and the input is at the offset (`Reading`). `Outputs`: where the output goes
next, together with what a child still has to write, is where the loop is (`InPlace`),
and each byte a child has still to write is the one for its place, or excused
(`Handed`); so each byte that arrives is (`OutputFaithful`), and a comparison finds no
word wrong (`NoMismatch`). `Counting`: four times the words counted, shifted once for
each `done()` that has begun to print, is what was written less what is `Uncounted`, three
bytes at most for each block that was no whole words (`Counted`); frames are no more than
the signals and the loop's own call. The command lines are not told apart one by one:
the options occur in these as hypotheses, which is why the exceptions of `CopyFaithful`
are the ones its proof needs.

**Placement** (`SuiteProofs`). The sizes of sets carry it: the places of a mask have
ranks 0, 1, ... (`RankExists`, `BelowHighest`), so `Slot` is defined for each number
below the count and one-to-one; below the sign bit a shift is the identity (`LowBit`),
hence as many ranks as there are processors are processors (`SlotAllowed`), and what a
process asks for is what it is given (`GivenSlot`); `child * (n + 1) + process` numbers
the processes without repetition (`UniqueNumbers`). `PlaceInv` says that each process
that is placed has what its policy gives it, with the count it took or inherited.
Under the policies that spread, reversing bits exchanges the numbers below a power of
two (`SpreadApart`, from `ReversedApart`), and `NumbersApart` holds for both.

**Chains** (`ChainsProofs`). The argument has four layers.

1. *Numbers.* `NBits` of a power of two is its exponent (`NBitsOfPower`), reversing the
   low bits of a number gives a number with as many, and no two the same
   (`ReversedBelow`, `ReversedApart`), so the lines of a page, and the words of a line,
   come once each (`TurnedApart`). An address is a page, a line and a word in one way
   only (`AddressApart`).
2. *Circles.* `Circle(m, a, n, S)`: from `a` the pointers of `m` go through the `n`
   addresses in `S`, once each, and come back. `SectionsCircle` gives one for any
   table of cells in rounds and sections of any lengths, if each cell points to
   the next in its section, each section to the next, and each round to the next; to
   number the cells takes the least-number principle in place of an induction.
3. *What is linked.* Each initializer builds such a table: `StrideCircle`,
   `ThrashCircle`, `LinesCircle`, `TlbCircle`, and `MemCircle`, whose rounds are the
   words of a line and whose sections are the pages, the last of which may be
   cut short. `LineNarrowed` and `LineWidened` are `line_test()`, `SizeCircle` and
   `RestLinked` are `measure()`, `RegroupedCircle` is `regroup()`, whose sections are
   groups of pages that are gone through line by line.
4. *The invariant.* `ChainInv` has six parts: `Covered`, the chain is such a circle;
   `OnChain`, the pointers, and those kept for this address, are on it; `LineKept`,
   `PagesLinked` and `MemOnce`, what `line_test()`, `measure()` and `par_mem()` build on.
   Without `PagesLinked` the invariant is not inductive: between two calls
   `measure()` leaves the ends of the pages as they are, and what the next call
   needs is that everything inside the pages is linked.

Where words coincide (a stretch of `thrash` whose number of lines is no power of two)
the chain is not a circle, but it is closed: a walk of `n` steps among `n` words has
been wherever it can get (`PathClosed`), so a benchmark that goes on does not leave it.
`CoversEveryWord` and `WalksOnTheChain` are read off the invariant.

`SuiteKeeps` carries hooks, searches, copies, chains and placement to `SuiteSpec`: a step
of the suite is a step of each program or leaves it as it is.

Only model-checked: what is temporal with fairness (`Completes`, `OrphansDie`,
`Ends`, `CallEnds`, `DaemonsFollow`, `HeadEnds`, `EveryoneEnds`,
`EveryProgramEnds`), which the prover cannot do. Every invariant that a passing run
checks is a theorem.

## 5. Plan

Done: `BenchMP`, `Harness`, `Samples`, `CtxRing`, `Streams`, `Datagrams` and
`services`, `Hooks`, `Lmdd`, `Chains`, `CacheSearch`, `Placement` and `suite`, with
their runs; the safety invariants of all of these as theorems.

Left: `WaitNeverBlocks` and its like are proved for each half of `services`; stating the
servers' abstract promise (a round is answered, a stop is obeyed) as a module of its
own, which `Streams` and `Datagrams` implement.

A later model, if the scripts grow: a campaign loop with its extraction of a metric.

## 6. Not modelled

The reasons are in `PROJECT.json`, per component. In short:

- `init_timing`, `compute_enough`, `find_N`, `time_N`, the overheads, `mhz`, `memsize`
  and `enough`: searches whose every step compares floating-point values of a real
  clock; what they settle on depends on the noise alone. `lib_stats.c`: floating-point
  formulae, and TLC has no reals.
- benchmarks of one operation in a loop (`lat_ops`, `par_ops`, `lat_syscall`, `bw_mem`,
  `stream`, `lat_usleep`, ...): no state from one iteration to the next. The harness
  that runs them is modelled.
- `disk`, `seek`, `flushdisk`, `clock`, `lmdd`'s timing options and label formats:
  wall-clock measurement and formatting; `getopt.c`, `lib_debug.c`.
- `lmhttp`'s directory listings, MIME types and log; `lat_rpc` over TCP and the errors
  of the RPC dispatcher (the library is external); `line_find()` and the choice of sizes
  in `lat_mem_rd`; the walk of `lat_dram_page` over its regrouped chain; `lmdd` with an
  output that is a pipe, several buffers or `move=`.
- the campaign, build, configuration and report scripts, recorded results and papers.

Within the modelled parts: `_DEBUG` output, wall-clock time (an alarm may come at any
time it is set), failure of the control pipes themselves (an immediate return), and
`save_minimum()`.
