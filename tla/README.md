# A TLA+ model of tailslayer_win32

`tailslayer` hides the latency of DRAM refreshes by keeping copies of the same
data on several memory channels and reading them in parallel ("hedged reads").
This repository is its Windows port: a library (`src/tailslayer`), a benchmark
that shows the effect (`src/benchmark`), a probe, an example and a sandbox.
This directory models the parts with behaviour worth checking, checks them with
TLC, and proves with TLAPS, for every value of the constants, the safety of the
thread manager, the topology it is built on, the benchmark arm, the pairing and
the percentiles, the hedged reader, the page allocators and the region search, the
program, and the probe's recording and analysis.

    tlc -config ThreadManager.cfg MCThreadManager      one run
    tlapm ThreadManagerProofs.tla                      the proofs of one component

`PROJECT.json` lists every run, the mutant that each property detects, the
source lines of every definition, and the hazards each property is for.

## 1. Inventory

| component | state it keeps | operations | what makes it hard |
|---|---|---|---|
| **thread manager** `proc.cpp` 424-606 | topology `m_map`, core-to-threads map, completely-free map, partially-free map, two counters | `initialize` (2), `destroy`, `allocateProcessor`, `freeProcessor`, `allocateThread`, `freeThread` | redundant state: two maps and two counters that gate each other; clients free by ID |
| **topology** `proc.cpp` 11-62, 137-337, `proc.hpp` 37-156 | vector of logical processors, three counts; while it is filled, two maps from records to IDs | `initialize`, `destroy`, `copy`, counts, `getPhysicalCoreThreadAffinity` | three passes over records in an order nobody promises; processor groups; counts that outlive the vector |
| **benchmark arm** `benchmark.cpp` 9-256 | an atomic signal that outlives the arm; per arm: samples, contexts, `go`/`stop`, thread vectors | `run_arm`, measurement/stress/processing threads, `reset` | many threads, busy-wait flags, pointers to locals, setup that may fail |
| **pairing, statistics** `benchmark.cpp` 300-392, `stats.cpp` | one window per channel; the paired latencies | `pair_samples_n`, `compute_percentiles` | a greedy loop over independent clocks; index arithmetic |
| **hedged reader** `hedged_reader.hpp` | page, logical index, shift and mask, workers | constructor, `insert`, `start_workers`, `worker_func`, destructor | address arithmetic; workers race inserts and destruction; assertions with effects |
| **large pages** `utilities.hpp` 349-560 | an `AllocationRequest` | `allocateLargePageMin`, `..Max`, `allocateLargePage`, `freeLargePage` | dozens of attempts, each may fail or be too small |
| **physical regions** `utilities.hpp` 240-346 | the best and the current run of pages | `FindLargestPhysicalRegion`, `verifyHugePageIsContiguous` | one pass, early exits, unmapped pages |
| **program** `main.cpp`, `app_config.cpp` | the configuration, allocations, handles of cores | parse, set up, allocate cores, run arms, clean up | failure half way; combinations of arms; checks that are assertions |
| **OS helpers** `utilities.hpp` 70-175 | a global privilege flag, a VMM handle | privilege, pinning, priority | return values, and a core number, that mean something else than their callers think |
| **tREFI probe** `trefi_probe.cpp` | the page, the privilege; a bounded vector of spikes, the counts and the histogram made from it | set up, calibrate, read, analyse, clean up | many exits; a vector that fills up; edges of bands and bins |
| **sandbox**, **example** | - | sequential clients | - |

How they interact. `main` parses the command line, which fills the thread
manager from the topology and takes a core for the main thread. It sets up the
privilege and the physical-memory reader, obtains large pages (the page
allocator calls the region search on each attempt and returns the region it
found), places the replicas and the stress page in that region, takes a core
per channel and a thread per stress thread from the thread manager, and runs
the arms. An arm starts one thread per channel and per stress thread, which
share atomic flags and arrays with the main thread and are all joined before
it returns. The hedged reader is a client of the page allocator and of the
region search on its own account. Nothing is persisted; there are no messages.
The hard behaviours are interleavings of threads inside an arm and inside a
reader, partial failure of a setup made of many calls, redundant counters,
index arithmetic, and values that are stale or overwritten when used.

What makes each component correct:

* thread manager - no logical processor is lost or owned twice; counters and maps
  agree; it refuses only when it must; only a foreign handle can break it.
* arm - samples, contexts and flags are used only while they exist and only by
  one side at a time; measurement runs under the arm's load; everything ends.
* pairing - only samples within the gap are paired, each once, and no possible
  pair is lost; percentile indices exist and cover their share.
* reader - all copies of every inserted element survive, on different channels;
  no worker outlives the page.
* pages and regions - the result is live, contiguous and large enough, or
  absent; nothing else stays allocated; the region is the largest there is.
* topology - every logical processor is listed once; two have the same core or
  package ID exactly if they share it; counts and copies describe the list.
* probe - the spikes kept are the first ones in order; each interval is counted
  once; the page is released on every way out.
* program - a passed check suffices; each arm gets what it needs; everything is
  released whichever step fails.

## 2. Modules

| module | models | state and actions in terms of the code |
|---|---|---|
| `ProcessorPool` | the abstract thread manager | the set `avail` of free threads; take or give back a thread or a core |
| `ThreadManager` | `DynamicThreadManager` | one action per method and outcome. A `ThreadIdxList` is a set, because the order of `unordered_map::begin()` and `back()` is an accident: any key, any member. `operator[]`'s insertion of missing keys is kept (`At`, `Put`). `ub` records a read past a vector's end |
| `BenchmarkArm` | `run_arm`, its threads, `reset` | `pc` is the main thread's place in `run_arm`; each thread has a state of its own; a loop is one stay in a state; contexts have a storage number, which a reallocation changes |
| `ReaderLayout` | the reader's address arithmetic | operators; `Ctz` and `And` are what `__builtin_ctzll` and `&` do |
| `HedgedReader` | the life of a reader | extends `ReaderLayout`; the page as a function from element addresses to values, an insert as one step per replica, one process per worker |
| `PairSamples` | `pair_samples_n`, `compute_percentiles` | one action per kind of loop iteration; `paired` is a history variable |
| `PhysicalRegion` | the region search and the contiguity check | `Call`, then one action per page and outcome; addresses count from the start of the allocation |
| `LargePages` | the page allocators | one action per attempt and outcome; allocations are numbered, `live` is the operating system's view. It instantiates `PhysicalRegion`: each attempt of `allocateLargePageMin` picks a translation and runs the search, and two more "strategies" are direct calls of the search and of the check |
| `Topology` | `ProcessorConfigurationVector` (Windows) | a mask is the set of its bits; the records are a sequence fixed in `Init`; what the process may run on (`runnable`), the group of the asking thread (`primary`), the mask of the process (`affinity`) and its groups (`groups`, as a set) are picked anew by each `Query`, which also lets the unchecked calls for the groups fail; one action per record of the scan (`Scan`), per bit and per entry of the pass over the cores (`Emit`, `NextEntry`), per package (`AssignPackages`), then `Finish`; a list of offsets is a list of places; `copied` is a second object |
| `Pinning` | `SetCurrentThreadProcessorID` | extends `Topology`; threads that were given elements of `m_proc` on different cores pin themselves; `AffinityMask` is what the `int` shift gives on a machine that takes shift counts modulo 32 |
| `RefreshProbe` | the tREFI probe's `main` | one action per setup step, per read, per loop iteration of the analysis; real comparisons multiplied out to integers; `probes` is a history variable, the calibration is its median |
| `BenchmarkMain` | `main` and the command line | one action per phase and exit; composes the thread manager (as numbers of free cores and threads), the page allocator (as its contract) and the arms (as what they need) |
| `MC...` | - | the constants of the runs |
| `...Proofs` | - | the theorems of section 5 about the module in front. `LargePagesProofs` also has those about `PhysicalRegion`, because `LargePages` makes the calls of the search |

`LargePages` runs `PhysicalRegion` itself, and `Pinning` runs on what `Topology`
reads. Otherwise, modules that compose interacting parts do so through
contracts that other modules establish: `BenchmarkMain` uses the counters that
`ThreadManager` shows exact; `HedgedReader` and `BenchmarkMain` take from an
allocation what `LargePages` shows of `allocateLargePageMin`
(`MinSatisfiesRequest`); `ThreadManager` starts from threads with a
`uniqueCoreID` that tells cores apart, which `Topology` shows (`CoresIdentified`).

Every mutant used to test the properties sits before the definition it
replaces and is marked "mutant".

## 3. Runs

### Properties that hold

| run | properties | bounds, and why they are enough |
|---|---|---|
| `manager` | the maps' and counters' invariants, `NoThreadLostOrShared`, `RefusedOnlyWhenExhausted`, `ImplementsPool`, for a client (`Spec`) that frees a core only when none of its threads is listed as partially free | two 2-thread cores and one 1-thread core: a core can be whole, broken or exhausted while the others are in each other state, and a single-thread core goes from whole to exhausted without being broken |
| `manager_any_handle` | `ThreadCountCovers`, `OnlySentinelBreaks`, for a client (`SpecAnyHandle`) that frees any core and the failure sentinel too | the same; `CountBound` = 7 (more than the 5 threads) bounds the counter that drifts upwards; the model ends at undefined behaviour, so deadlock is not checked |
| `arm` | `SamplesSafe`, `LocalsOutliveThreads`, `NoEarlyMeasurement`, `LoadMatchesArm`, `Termination` | a quiet hedged arm, a single stress arm and a hedged stress arm in a row, with 2 channels and 2 stress threads: two of each kind show every race of a thread with another of its kind and of another kind; three arms show that `reset` is enough between a quiet and a loaded and between two loaded arms |
| `reader` | `CopiesHold`, `ReplicasOnDifferentChannels`, `NoWorkerOutlivesThePage`, `WorkersReturn` | 16 elements, chunks of 4, 2 channels: 2 strides, so a sequence of inserts crosses a chunk; 2 readers in a row for what the first leaves behind |
| `pairing` | `PairsAreSound`, `FindsMostPairs`, `PercentilesCover` | 2 channels, 3 samples, all increasing timestamps in 4..9 and the zeros of a failed thread, a gap of 2: differences below, at and above the gap, and windows that fall behind by one or two samples |
| `pages` | `RegionIsContiguous`, `FindsLargest`, `VerdictIsExact`, `NothingLeftBehind`, `MinSatisfiesRequest`, `Termination` | direct searches: every translation of 1 and of 4 pages to 5 frames or to nothing, with sizes of zero, below, at and between whole pages: runs of each length at the start, middle and end, with holes. Allocators: multipliers 78..81 and 80, 40: several attempts, the last one, and rounding to pages; memory and translations that differ between attempts |
| `main` | `EveryChannelHasACore`, `LoadMatchesArm`, `PagesInsideRegion`, `CheckSuffices`, `ReleasedAtExit` | one arm at a time, 1, 2 or 4 channels, stress -1, 0, 2, 4, 30 on 6 two-thread cores: enough and not enough of both kinds |
| `topology` | `EveryProcessorOnce`, `CoresIdentified`, `CountsDescribe`, `UsableIsRunnable` | three machines of two or three processors: threads of one core, masks that are equal in different groups, a package across two groups, a record of another kind; every order of the records; the process confined to any set of processors, in part of one group or of two, the asking thread on any of them, the mask that of either group or empty, and group queries that fail; two calls of `initialize`, so that one can fail after one that succeeded |
| `probe` | `RecordsFirstSpikes`, `EveryIntervalClassified`, `PeakIsMode`, `ReleasedAtExit` | no, negative and 5 reads, at most 4 spikes kept (so the vector fills), 3 needed for the analysis, 4 bins; T = 20 and distances 6, 17, 24 and their sums (17 and 23 are the edges of the first band, 34 and 46 of the second); no tREFI (T = 0), a manual threshold |

Deadlock is not checked where the modelled program ends or is aborted
(`reader`, `pages`, `pairing`, `main`, `probe`, `manager_any_handle` and the violation runs of `BenchmarkMain` and `Pinning`); `BenchmarkArm` has
an explicit step for the finished state, a topology can always be destroyed or copied,
and the thread manager never stops without undefined behaviour.

### Where the code and its documentation disagree

Three runs each check one statement of the repository that TLC refutes with a
behaviour of the code (PROJECT.json quotes the statements):

| run | statement | what happens |
|---|---|---|
| `arm_barrier` | thread setup is over before measurement (`benchmark.cpp:31`) | the signal does not wait for the threads |
| `main_all` | a hedged arm has `1 + n_channels` cores (`main.cpp:313`) | with `--all` a single core is taken for all arms |
| `pinned_cores` | channels have physical cores of their own (`main.cpp:287`), and the mask of a processor is the one to pin with (`proc.hpp:93`) | `1 << m_coreID` takes the number of a core for that of a processor: with two threads per core, cores 0 and 1 become the two threads of core 0 |

Modelling turned up more of the kind, which the models contain as the code has them but
no run states:

* `proc.cpp:533`: freeing a partially free core counts its free threads again; with all
  threads handed out `allocateThread` then takes the branch that the comment at line 551
  calls unreachable (false for `SpecAnyCore`; section 5 proves it for `Spec`).
* `proc.cpp:276-278`: for a process in several groups `m_usable` (`proc.hpp:89-90`: which
  cores the process has access to) is not exact. Of the other groups every processor is
  usable ("accessible by default", line 268), also those that a job object or an affinity
  takes from the process. The processors of the asking thread's group are compared with the
  mask of the primary group, which is another one if the thread runs elsewhere, or empty;
  then some that it may run on are refused and others let through.
  `UsableIsRunnable` says within what limits it errs.
* `proc.cpp:190-192`: neither call for the groups is checked. If they fail, or the number of
  groups changes between them, group 0 is taken for one of the process, or it has none, and
  `m_usable` says nothing.
* `hedged_reader.hpp:83`: `setup_memory` is called inside an assertion; without assertions
  (`NDEBUG = TRUE`) `insert` stores through a null page, although line 105 relies on it.
* `trefi_probe.cpp:126-133`: without a page the probe returns past the clean-up and keeps the
  privilege; `293-304`: an empty histogram reports a peak, the centre of bin 0.
* `utilities.hpp:164`: core 31 gives a mask with bits 31 to 63 set (`int` sign extension).
* `benchmark.cpp:20`, `73`: the result of pinning is compared with `< 0`, while a
  failure is 0; a thread that was not pinned measures, and one that was pinned
  gives up when bit 31 of the old mask is set.
* `proc.cpp:439`: `initialize()` always returns false, its own call finds `m_map` filled.
* `hedged_reader.hpp:77`: for a chunk of a length that is no power of two the shift
  and the mask make elements overwrite each other (`CopiesHold` fails with
  `ChannelOffset = 3`); the assertion at line 68 does not exclude it.
* `hedged_reader.hpp:106`: `insert` refuses the last element for which there is room.
* `hedged_reader.hpp:208`: the region is compared with the size of the attempt,
  not of the request.
* `utilities.hpp:115`: the flag that the privilege is held is never cleared; a
  second reader in a process trusts it, and cannot get memory.
* `utilities.hpp:317-318`: a translation to 0 counts as a page.
* `utilities.hpp:384`: the search over a refused attempt starts at address 0. If pages there
  are translated and contiguous enough, the loop ends as if it had succeeded: no further
  attempt, a null address, and a block that names memory nobody allocated.
* `utilities.hpp:461`: a too small allocation is not released, since another pointer is passed.
* `main.cpp:241` and `72`: after a failed replica setup the memory is released twice.
* `main.cpp:269`: with `--all` no stress thread is taken for the loaded arms.
* `main.cpp:280`: the utilisation check counts a channel as an average core, but the manager
  hands out whichever core comes first. With five one-thread and five two-thread cores
  (`Machine = <<5, 5>>`), five channels and five stress threads, `CheckSuffices` fails: the
  channels get the larger cores, and a stress thread is refused although the check passed.
* `main.cpp:300`: without assertions (`NDEBUG = TRUE`) a failed allocation is not noticed.

## 4. Fairness

Safety runs assume none. `BenchmarkArm` assumes weak fairness of the main
thread and of each started thread: they are operating-system threads that never
block on anything but each other (busy-waiting or joining), and Windows runs
every ready thread eventually (a boost reaches starved ones); the counts of the
loops are finite. `HedgedReader` assumes it of the workers, and that
`wait_work` returns, which the class requires of its client; nothing is assumed
of the client, who need never destroy the reader. `LargePages`, with
the search it runs, is a sequential function: a started call keeps running, and
`Termination` would fail if a page or a multiplier stayed where it is. The other
modules state safety only.

## 5. What is proved

Each theorem holds for every value of the constants that satisfies the named
assumption of the module. Those listed with a hypothesis need it, and it is said
what happens without it.

| module | theorem | property | hypothesis |
|---|---|---|---|
| `ThreadManagerProofs` | `AnyCoreTypeOK` | `TypeOK`; with it the `uint32_t` counters never go below zero | |
| | `AnyCoreState` | `CoreState` | |
| | `AnyCoreCountExact` | `CoreCountExact` | |
| | `AnyCoreRefusedOnlyWhenExhausted` | `RefusedOnlyWhenExhausted` | |
| | `AnyCoreNoThreadLostOrShared` | `NoThreadLostOrShared` | |
| | `AnyCoreThreadCountCovers` | `ThreadCountCovers` | |
| | `AnyCoreDefined` | `OnlySentinelBreaks`: no undefined behaviour from real handles | |
| | `AnyCoreImplementsPool` | `ImplementsPool`, the refinement | |
| | `ExactCount`, `ExactCountBranch` | `ThreadCountExact`, `CountBranchUnreachable` | the client of `Spec` |
| `BenchmarkArmProofs` | `ArmSamplesSafe` | `SamplesSafe` | |
| | `ArmLocalsOutliveThreads` | `LocalsOutliveThreads` | |
| | `ArmNoEarlyMeasurement` | `NoEarlyMeasurement` | |
| | `ArmLoadMatches` | `LoadMatchesArm` | |
| `TopologyProofs` | `MachineTypeOK` | `TypeOK`, with the widths of the fields: no ID or count is cut off | |
| | `MachineEveryProcessorOnce` | `EveryProcessorOnce` | |
| | `MachineCoresIdentified` | `CoresIdentified` | |
| | `MachineCountsDescribe` | `CountsDescribe` | |
| | `MachineUsableIsRunnable` | `UsableIsRunnable` | |
| `PairSamplesProofs` | `PairingIsSound` | `PairsAreSound` | |
| | `PairingFindsMost` | `FindsMostPairs` | |
| | `PercentilesDoCover` | `PercentilesCover` | |
| `HedgedReaderProofs` | `ReaderNoWorkerOutlives` | `NoWorkerOutlivesThePage` | |
| | `ReaderCopiesHold` | `CopiesHold` | `ChunkIsPowerOfTwo` |
| | `ReaderDifferentChannels` | `ReplicasOnDifferentChannels` | `ChunkIsPowerOfTwo` |
| `LargePagesProofs` | `PagesRegionIsContiguous` | `RegionIsContiguous` | |
| | `PagesNothingLeftBehind` | `NothingLeftBehind` | |
| | `PagesMinSatisfiesRequest` | `MinSatisfiesRequest` | |
| | `PagesVerdictIsExact` | `VerdictIsExact` | |
| | `PagesFindsLargest` | `FindsLargest` | |
| `BenchmarkMainProofs` | `MainReleasedAtExit` | `ReleasedAtExit` | |
| | `MainPagesInsideRegion` | `PagesInsideRegion` | |
| | `MainEveryChannelHasACore` | `EveryChannelHasACore` | `OneArmAtATime` |
| | `MainLoadMatchesArm` | `LoadMatchesArm` | `OneArmAtATime` |
| | `MainCheckSuffices` | `CheckSuffices` | `UniformCores` |
| `RefreshProbeProofs` | `ProbeReleasedAtExit` | `ReleasedAtExit` | |
| | `ProbeEveryIntervalClassified` | `EveryIntervalClassified` | |
| | `ProbeRecordsFirstSpikes` | `RecordsFirstSpikes` | |
| | `ProbePeakIsMode` | `PeakIsMode` | |

None of these properties is inductive by itself. The invariants, and why they
are needed:

**Thread manager** (`AnyCoreInv`; assumption `TopologyAssumption`: a non-empty
finite set of threads, each on a core, every core with a thread, and sentinels
that are neither). About `SpecAnyCore`, the client that may free any core or
thread at any time. That `allocateThread` keeps every thread in one place needs
that the entry it takes from is a non-empty part of one core (shape), that the
other map has no entry for that core (disjointness), and that what is listed is
not held. `Inv` is the conjunction of `TypeOK`, `~ub`, `Shape` (each entry of
`free` is a whole core, each entry of `partial` a proper non-empty part of one,
no core in both), `Idle \/ Running` (the topology and the core map are both empty
or both complete), `NoThreadLostOrShared`, `CoreCountExact` and
`ThreadCountCovers`. Counting is kept in a few lemmas about the cardinality of
what the maps list after an entry is erased or put. `RefusedOnlyWhenExhausted` follows for
the drifting client too: the counter errs on the side that does not refuse, and the map of
broken cores has no empty entries. The refinement maps `avail`
to the threads that are listed and `open` to a filled topology; each method then
is a pool step or a stutter. `ExactCount` and `ExactCountBranch` are false for
`SpecAnyCore` (section 3): the proof needs the client's restraint exactly in
`freeProcessor`, where the invariant gives that none of the core's threads was
counted.

**Topology** (`Inv` of `TopologyProofs`; assumption `BuffersAssumption`: the records are
well formed, cores do not overlap, packages do not either, each core lies in one, there
are no more packages than 16-bit numbers for them, and a group has a 16-bit number and at most
64 processors, fewer than there are 32-bit numbers). For every number and order of records
and any calls. While the records are scanned, the two lists enumerate the places before the
current one, and each map numbers its list (`Known`): two records of a kind share no
processor, so their first entries, the keys, differ. In the pass over the cores what is in
the vector is what was passed, once, in the order of the cores (`Emitted`); that this is
everything at the end is what `AllThere` says. In the pass over the packages a processor has
its number exactly if its package comes before the current one (`InPackages`). An object
with processors then describes the machine (`Describes`, with the lists as witnesses), and
a copy describes what its original does; the four properties are consequences. That the
masks returned for a core ID are those of one core needs that the last processor has the
highest core ID, which is why the vector's order is part of the invariant. `Affinity` says
how the group of the asking thread, the mask and the groups that the operating system
reports relate to what the process may run on; `UsableIsRunnable` needs nothing else of
`Query`, and it says what `m_usable` is worth: exact in one group, and with several it
errs only towards processors of groups the process has, and away from those of the asking
thread's group.

`Inv` says of IDs and counts only that they are numbers. That they stay inside the fields
that hold them (`TypeOK`: 32 bits for positions, cores and counts, 16 for packages and
groups) is proved from it: each ID is the place of something in a list, and no list is longer
than the machine has processors (`MachineSize`, `ListsFit`), at each stage of
the passes (`EmittedFits`, `AssignedFits`) and in what they leave (`DescribedFits`).

**Arm** (`ArmInv`). For every plan, any number of channels and stress threads.
The invariant ties everything the threads share to the place of the main thread
in `run_arm`: a kind of thread is alive only in its phases (`ThreadsInPhase`), the
flags have the value that phase gives them (`FlagsInPhase`), all contexts are in
the storage that `reserve` made (`ContextsInPlace`), and a sample array is zero,
written or complete by phase and thread (`SamplesInPhase`). Without the phases,
"nobody reads while another writes" does not follow from the step that makes it
true, a join several steps earlier.

**Pairing** (`Inv` of `PairSamplesProofs`). Whatever the timestamps: each pair is
close, successive pairs move forward on every channel, and the windows are past
the last pair; the last conjunct is what the next pair needs. That none could be missed
(`MostInv`) is an exchange argument, for timestamps that do not decrease, as those of a
thread are: when *k* pairs were found, the pair *k + 1* of any other way to pair samples is
not behind the windows (`NoneMissed`), because the lagging window, which the loop moves on,
is too early for every sample at or past the other windows. The percentiles (`ValuesNat`)
need that sorting permutes: all values up to the index have a place of their own.

**Reader** (`ReaderInv`). `LifeInv` (types, and page and allocation by phase)
needs nothing of the layout. The copies need that no two of them share an address
and none leaves the page: the lemmas on the layout show an address to be
`chunk * stride + replica * chunk length + offset` with a bounded remainder at
each level, so address, replica and index determine each other. That shift and
mask do this division is the hypothesis `ChunkIsPowerOfTwo`; `MCHedgedReader`
states it as an assumption, so TLC evaluates it on its instance, and with
`ChannelOffset = 3` it is false and so is `CopiesHold`. The index stays inside the
capacity also while an insert is half done (`IndexInsideCapacity`,
`InsertInProgress`).

**Pages and search** (`PagesInv`; `PagesAssumption`). `SearchInv` names the pages
each block is made of: block *v*, *n* is pages *v* to *v + n - 1*, they are
contiguous, and the block in progress ends at the page looked at next. The sizes
and addresses in bytes that the code computes follow from that. `HeldInPhase` says
what the operating system has given at each place of the code, `MinInPhase` that
the block belongs to the attempt that is still held. For the answers of the
searches `VerifyInv` says what the verdict means after each page, and `FindInv`
that no block that ends earlier is larger than the one kept and none that ends
here larger than the one in progress; when the loop leaves early the block is
already as large as asked for. That the longest run exists is
proved with the well-founded ordering of finite subsets.

**Program** (`MainResources`, `MainArms`). `Resources` follows the memory and the
physical-memory reader through every exit, for any command line. What the arms
need holds under `OneArmAtATime`: assertions are compiled in and each choice of
arms has at most one. With `--all` it is false (run `main_all`), and without
assertions too (section 3). `SufficeInv` carries the utilisation check through the
allocations: what is still to be allocated, with cores counted in threads, fits into what is
free (`Room`), which each allocation keeps when a core is worth the average, that is, when
all cores have the same number of threads (`UniformCores`). Where they have not, it is false
(section 3).

**Probe** (`ProbeInvariant`). The reads are ordered in time, so intervals are
positive; then the bands exclude each other also for an expected tREFI of
zero, and the counts so far are those of the intervals looked at. A slow read is kept at
the place it has among the slow reads (`Recorded`). The histogram (`Peaking`) counts, after
each interval, those so far that lie within half a bin of each centre; that the bin the code
computes is that one is arithmetic about the truncated quotient, in steps of its own.

Only model-checked: liveness (`Termination` of the arms and of the page allocators,
`WorkersReturn`), which is out of the prover's reach. What a violation run refutes has no
theorem either; `Pinning` is there for one of those.
`SpecAnyCore` itself has no
passing run: the client of `manager_any_handle` includes its client.

## 6. Not modelled

* The sandbox (`sandbox/tailslayer_alloc.cpp`): two allocators over
  `AllocateUserPhysicalPages` that nothing uses, since `main` returns at line 447
  before the code that would, and line 410 names `ProcessorConfigurationVector` in
  a namespace that does not have it, so the file does not compile at this commit.
  There is no behaviour of a program to be faithful to. (Line 207 inverts each status
  and would skip the releases after a successful unmap.) What `main` runs before
  that is `initialize`, printing and `destroy` of the vector, which is `Topology`.
* `allocateLargePageMax` has no caller; it is modelled, but `NothingLeftBehind` leaves it
  out, because of `utilities.hpp:461` (section 3).
* CPUID leaves and instruction wrappers (`cpuid.hpp`): no control state.
* CPU sets, which `proc.hpp:90` mentions: no call of the code asks for them, so `runnable`
  is what affinity and job objects allow.
* `out.pageSize` (`utilities.hpp:366`, `552`), which repeats a constant.
* The size of the record buffer changing between the two queries (`proc.cpp:43-57`): the
  second then fails, which is `QueryFails`.
* Timing: sleeps, TSC calibration, the latencies themselves.
* Names, messages, CSV rows, raw dumps, option spellings.
* The Linux branches, which the build does not compile.
* Exceptions of `std::thread` and of allocation, except where
  a caller would survive them (`start_workers`).
* Physical addresses of the benchmark's replicas (`--channels` and
  `--channel-bit` beyond the page), and the channel check that is commented out.
* The example's own code (a client of `HedgedReader` and of `SetCurrentThreadProcessorID`), scripts
  and build files.

## 7. Plan

Done: `ThreadManager` with its proofs and `ProcessorPool`, then `BenchmarkArm`,
`HedgedReader` over `ReaderLayout`, `PairSamples`, `LargePages` over
`PhysicalRegion`, `BenchmarkMain`, `Topology` and `Pinning`, `RefreshProbe`.

To model next: the byte layout of the benchmark's replicas in `BenchmarkMain`,
if the project decides which `--channels` and `--channel-bit` go together;
`ThreadManager` over the vector that `Topology` reads, instead of a set of threads.

To prove next: `ChunkIsPowerOfTwo` from a power-of-two chunk; that what `Topology` reads
satisfies the `TopologyAssumption` of `ThreadManager`; that threads pinned to the masks of
`getPhysicalCoreThreadAffinity`, instead of to core numbers, share no core.
