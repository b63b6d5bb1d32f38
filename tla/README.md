# Verification of LowLevel

TLA+ models of this repository, model-checked with TLC, and theorems about them checked by
TLAPS. The repository is a collection of learning projects: small programs that are written,
break-and-fix labs with their scripts, a C test harness, and many modules that are still stubs
(their bodies are `TODO`, `todo!()` or a panic). A stub of C has one behaviour: it does not
compile. So the models cover the code that is written, and the workflow that
leads a stub from red to green.

## 1. Inventory

### Programs with state

| Component | State | Operations | What is hard | What makes it correct |
|---|---|---|---|---|
| Worker pool, `go/workerpool/workerpool.go` | the result slice, the job channel, the wait group, the goroutines | `Process(items, workers, fn)` | workers race for jobs, finish in any order and write one slice without a lock; channel, close and wait group must not deadlock | every answer at its item's place; nobody outlives the return; it returns |
| LRU cache, `python/exercises/lru.py` | one insertion-ordered dict, a length kept by hand | `get`, `put`, `len` | long sequences: the counter drifts, the order is not the order of use, a falsy value looks missing | holds the `capacity` most recently used keys |
| C test harness, `tests/ctest.h` (one file, six copies) | counters, current section, abort flag, list of failed sections, the alarm | `SECTION`, `CHECK_*`, `CTEST_END`, the SIGALRM handler | the signal arrives between any two steps; sections are entered again; lists fill up | exit status and summary say exactly what failed; a hang ends |
| Lab scripts, `linux/breakfix/NN-*/{setup,check,teardown}.sh` | units, files, processes, ports, cron, the clock of one machine | the three scripts of each lab, the player's commands, what systemd and cron do by themselves | scripts interleave with cron, systemd and restarts; scripts run again in any state; reboots | setup breaks the machine, check tells fixed from not fixed, teardown leaves nothing |
| ProperC, `src/*.c` (but `memory.c`, `strings.c`) | the arrays, words and nodes of one call | seven array routines, a sort, bounded string copies, byte orders, checked arithmetic, a linked list | empty arrays, sizes of 0 and at the top of `size_t`, odd and even lengths, lists tied into a cycle, sequences of calls | no access outside, results as the headers promise where the routine is written, no node lost or leaked, every call returns |
| Benchmark, `ProperMachine/bench/bench.c` | an array, a shuffled list, a matrix, their sums | allocate, shuffle, link, walk, free | the shuffle and the links must keep every node for the comparison to mean anything | both halves of each experiment do the same work |
| The build, `Makefile` of the six C projects, and their stubs | sources, time stamps, binaries, what make still has to do | `make`, `make test`, `make test-<m>`, `make clean`, an editor that saves at any moment | a save while the compiler runs; flags and headers that are no prerequisites | what make calls up to date, passed or failed is so |

The lab scripts do not call each other: a lab interacts with its surroundings through the shared
state of the machine (`/etc`, systemd, cron, ports). The harness is linked into every C test
program and is called by its macros; the Makefiles build one such program per module and run
them in order, stopping at the first that fails. The Go and Python programs and the C routines are
called as libraries by their tests. The benchmark stands alone.

### Pure code

| Component | What it computes |
|---|---|
| `go/dupes/dupes.go` | the repeated elements (by ranging over a map) and the counts of each |
| `python/exercises/{duplicates,logparse,word_freq}.py` | repeats, a summary of log lines, a word ranking |
| `python/testwriting/*.py` | binary search, merged intervals, slugs; programs to write tests against |

### Stubs

`ProperDS`, `ProperOS` (threads, allocator, scheduler), `ProperNet`, `ProperInterview/src`, the
predictions of `ProperMachine`, and `memory.c` and `strings.c` of ProperC are to be written by the reader of
the course. Each routine is a `TODO`, which is a failing `_Static_assert`, or a
`TODO_PREDICT`, a name declared nowhere: there is no function body to model, but what each stub does
to the build is modelled (`Stubs`, `Build`). `go/counter` and `ProperRust` panic when called.

## 2. Modules

| Module | Models | Role |
|---|---|---|
| `ParallelMap` | what a caller of `Process` is promised: answers appear in any order, each once, then it returns | abstract specification |
| `WorkerPool` | `workerpool.go` | detailed; implements `ParallelMap` |
| `MCWorkerPool` | values for the constants | TLC |
| `WorkerPoolProofs` | | theorems |
| `Recency` | lists of keys in order of use | operators shared by the next two |
| `LruContract` | the docstring of `lru.py`: a cache that never forgets and shows the newest keys | abstract specification |
| `LruCache` | `lru.py` | detailed; implements `LruContract` |
| `LruProofs` | | theorems |
| `CRoutine` | one call of a C routine: its variables, the sanitizers, the store, the return | frame of the next five |
| `Pointers`, `FuncPtr`, `Safety` | `pointers.c`, `funcptr.c`, `safety.c`, one step per iteration | |
| `ArrayRoutines` | the three together | |
| `Words` | `bits.c`, `structs.c`, `ub.c` on integers of fixed width | |
| `RoutineProofs` | | the invariants of `ArrayRoutines` and `Words` |
| `LinkedList` | `linkedlist.c` and a client that calls it in any legal order | |
| `Bench`, `BenchProofs` | `bench.c` | model, and its invariant |
| `MCProperC` | one of a call on arrays or words, a list client, or the benchmark | composition, TLC |
| `ProperCProofs` | | the invariant of the list, and the theorems about `MCProperC` |
| `Build`, `BuildProofs` | the Makefiles, the editor and the compiler | model and theorems |
| `Stubs` | which routines of each project do not compile or are wrong as shipped, and the modules in Makefile order | constants of the next |
| `MCBuild` | make given two neighbouring modules of one project | TLC |
| `Systemd` | what the labs use of systemd: unit states, start, what follows a failure (external) | shared by the labs that have units |
| `PortConflict` | lab 03 | |
| `DnsSabotage` | lab 04 | |
| `RunawayProcess` | lab 06 | |
| `CertExpired` | lab 08 | |
| `MCLabs` | the labs on one machine, one at a time | composition, TLC |
| `LabProofs` | | theorems about `MCLabs` |
| `CTest`, `CTestProofs` | `ctest.h` | model and theorems |

A definition whose name begins with `Bug` is a plausible slip in the code (a dropped guard, a
missing reset, a swapped order). None is part of a specification: each takes the place of the
definition that follows it in the module, to see that the property it is meant for fails.

### WorkerPool

One action per statement that another goroutine can observe. The caller: `ReturnEmpty`,
`Setup` (normalise the count, `wg.Add`, `make(chan)`), `Spawn` (one turn of the loop),
`EndSpawn`, `Deliver` (a send and the receive it meets: an unbuffered channel makes them one
event), `CloseJobs`, `WaitReturn`. A worker: `Call` (of `fn`), `Store`, `Exit` (end of the range loop
and the deferred `wg.Done`). `Call` and `Store` are separate, so answers can be computed
and not yet written. Indices are 1-based. `fn` is total and has no side effects: a panicking or
endless `fn` is out of scope.

### LruCache

`get` is `GetHit` or `GetMiss` by the truth of what `dict.get` found (`if not res`), so a stored 0 is a
miss, as in the code. `put` is `PutUpdate` (pop and re-insert), `PutNew` or `PutEvict` (drop
`next(iter(dict))`). The counter is the code's. `recent` and `stored` are history: every key ever
put in order of use, and its last value. The contract works on them alone, and the cache
implements it. The two debugging prints are left out. The list operators are indexed functions,
not recursions, so that they can be proved about.

### CTest

The variables are the header's statics. `BeginSection`/`EndSection` are the label and the arming of
`SECTION`; `BeginCheck`/`EndCheck` are a `CHECK_*` before and after its expression is evaluated;
`End` is `CTEST_END`; `Tick` is the clock of `alarm(2)` and, at zero, the handler. Any statement may never
come to its end (only the clock is fair). What the comparison of each macro computes is one
boolean. The texts are left out except the names they show. Sections
are compared by pointer, as in the code.

### RunawayProcess (lab 06)

`shell` is the command the operator's script is at; each command of `setup.sh`, `check.sh`
and `teardown.sh` that changes or reads the machine is a step. `spawner.sh` is a process of its own,
of which two runs can overlap: cron's and setup's. `Pgrep` looks, `Copy` is `cp` and `chmod` and the
end of the script, `Launch` is the background child (`setsid bash`), which becomes a hog, or nothing if the copy is gone by then; a run is in
flight until its child is over, though `setup.sh` goes on when the script has exited.

`pgrep -f` and `pkill -f` match command lines, and the `pgrep`, `cp`, `chmod`, `setsid` of a run and the `pkill`, `rm`, `pgrep` of the scripts name
`sysd-cache` as a hog does. So a look (`Looks`) must find a hog that runs, and may find something when none does if another run is in flight or a script is at such a
command (`Passing`); and a kill (`Killing`) ends all hogs and perhaps the command a run is at, after which the run goes on with its next line. `mistaken` is history: setup's
own spawner left because of a command that was no hog.

The player removes cron's file, the payload or the copy, or kills, at any moment at which no other command of his terminal runs, the watch of `check.sh` included; his
commands are too short to be matched. Three facts about time are used: a run of the spawner, child included, takes less than the ten seconds between two
samples of the watch (`unfinished` holds the runs that must be over before the next sample); it is over when its starter
starts the next; a hog outlives the setup that started it.

### PortConflict and CertExpired (labs 03 and 08)

A unit is `starting` from the fork until its program has bound the port or loaded its files;
`systemctl is-active` says active for both `starting` and `running`. A program that dies is `restarting` or, where
the start limit can be reached, `failed`. The scripts go command by command; the player
starts, stops, enables and disables units (03) or writes a new key and then a new certificate, restarts or stops (08);
reboots come at the prompt. Not modelled: systemd refusing an
explicit `start` inside the ten-second window of the start limit. In lab 08 the two files are one value,
with `torn` for a new key beside an old certificate.

### DnsSabotage (lab 04)

`hosts` is a set of lines: the poisoned one and one of the machine's own. `dropin` is the file,
`loaded` what the resolver read when it last started; `pristine` is the copy that `setup.sh` keeps.
A reboot may come between any two commands of a script and leaves it there. The player edits hosts, removes
the drop-in or the copy and restarts the resolver between scripts.

### MCLabs

The labs share one machine but no file, unit or port, and a player has one lab open: `lab`
selects whose actions are taken. A property asked of several labs (`LabTypeOK`, `TornDownClean`,
`FixedAnswers`) is the conjunction of theirs.

### CRoutine, Pointers, FuncPtr, Safety, Words

A behaviour is one call: `fn` is the routine, `pc` the loop it is in, `dst`, `src` its arrays as functions on
`0 .. length-1`, `i`, `j` its counters. `Store` is an assignment through a pointer under AddressSanitizer: outside
the array the process ends (`abort`). UBSan as the Makefile has it prints and goes on: `ub` records it. `Pred` is `x - 1` on
`size_t`, `SizeMax` when x is 0. A mapping, predicate, operation or comparator is any function on the
values. In `Words` a byte has `Base` values and a word four bytes, so that all words of a small machine can
be tried; `IntMin .. IntMax` is `int32_t`, and `Place[k]` is the weight of byte `k`, `1 << 8*k` in C. `is_little_endian` asks the processor and is left out. `my_memmove` and `rotate_left` are stubs in
the code and return at once with nothing done; the five bit routines that are not written return 5, as in the code.

### LinkedList

`next` and `alive` are the heap, `head` is the client's pointer. `list`, `tied` and `k` are known to the
client only: the nodes the list should have, whether the last points to the first, how
many turns the loop has made. Each routine is called, takes one step per iteration and
returns; a dereference of NULL or of a freed node ends the process. On a tied list the client calls
`list_has_cycle` and nothing else, as the header asks. `malloc` may fail: the code writes through NULL, and the process ends as at any other dereference of
NULL (`abort`, with `push_front` in `asked`). `WithinBounds` names it as the one way a list routine can end so, against `linkedlist.h:14-15`.

### Bench

`at` is the loop, `turn` its counter, `inner` the second one of the matrix. The random numbers are any;
the clock and the printing are left out. `seen` is not in the code: what the pass has read so far.
`xmalloc` may end the process.

### Build

A source is two sets: the routines that do not compile yet and those that are wrong. `newer` is what make
asks of the time stamps; `Look` is the rule, `Compile` the end of the compiler (which read its files at `Look`),
`Test` the run of a binary, `Finish` the last line. `raced` and `late` record saves during a compilation and during a make. Only
the two `.c` files are prerequisites, so neither `SAN` nor a header makes a binary old.

## 3. Runs

| Run | Asks | Bounds |
|---|---|---|
| `worker_pool` | types; no two workers hold one index; answers in order; nobody outlives the return; stored answers stay; `Process` returns; it implements `ParallelMap` with its fairness | up to 3 items and 3 workers, requests below, at and above the item count and not positive |
| `lru` | types; the counter is exact; the dict holds the most recent keys; a present key is returned and promoted; it implements its contract | 4 keys, 2 values, capacities 0 to 3 (0 is refused by the constructor) |
| `lru_zero` | finding 1 | 3 keys, a zero among the values, capacity 2 |
| `ctest` | types; the verdict and the summary are exact; one failure printed per entry; a fresh budget for each check; a hang is caught | 6 statements, 2 sections and the top level, room for 2 failed sections, 2 ticks of budget |
| `labs` | 06: types and at most two hogs, `FIXED` stays true, setup arms unless its spawner took another command for the hog, a kill alone is undone, teardown reverses in the end. 03: after `FIXED` the squatter never has the port, setup arms, a freed port is taken by the API. 08: `FIXED` means a server answers and the file is good, setup arms again, a renewal reaches the server. 04: `FIXED` means names resolve, through reboots. 03, 04 and 08: teardown leaves nothing | the code's own 15 samples in lab 06; the other labs are finite |
| `runaway_teardown` | finding 2 | 2 samples |
| `cert_stale` | finding 3 | none |
| `cert_setup` | finding 4 | none |
| `c_programs` | no access outside an array or through a dead pointer, but the two named; what the written routines leave and return is what their headers promise, but for what is listed below as not kept; the list is the one the calls describe; the benchmark's halves agree; every call returns or ends the process | arrays of 0 to 3 cells with 3 values, `SizeMax` 5, a machine word of 8 bits, 4 nodes, a list of 4 and a matrix of 3 by 3 |
| `c_any_comparator` | finding 5 | arrays of 0 or 2 cells |
| `c_build` | up to date, passed and failed are so, against an editor that saves at any moment, but for what is saved since make began or while it is compiled | two neighbouring modules of any project, 3 saves |
| `c_build_san` | finding 6 | two modules, 1 save, two values of `SAN` |

Why the bounds are enough. In the pool three workers and three items give a worker with two jobs,
a worker with none, all jobs in hand at once, and more workers than items; a fourth of either is
another copy. In the cache four keys exceed every capacity, so each operation meets a key
that is resident, evicted and never seen, with the oldest, a middle and the newest
position. For `ctest`, six statements fail three sections (one more than there is room
for), and return to a failed one. In lab 06 there are two sources of spawners in the code and hence two runs. For the C routines, three cells are the least with a middle, two ends and an
odd length; sizes run from 0 over the length to above it; four nodes give lists of even and odd length with two hops to go, and a cycle of
each; a word of 8 bits has every carry between four bytes. For the build, two modules are a first and a next; three saves
write a module, slip and mend it. The theorems of section 5 remove the bounds of
these runs for their safety properties.

Deadlock is left unchecked where the code ends: `Process` has returned, a test program has exited
or hangs before its first `SECTION` with no alarm set, a C routine has returned, the benchmark is done. Everywhere else it is checked.

### Findings

1. `lru_zero`: `get` of a key whose value is 0 returns -1 and does not promote the key (`lru.py:44`), against
   its docstring (`lru.py:21-22`). The theorems about recency and `Returned` assume that 0 is not a value.
2. `runaway_teardown`: a spawner in flight launches after `teardown.sh`'s `pkill`, and the hog
   runs on until its own time limit, though `teardown.sh:2` says "fully reverses setup, any state". `ReversedInTheEnd`
   shows that nothing worse is left.
3. `cert_stale`: `check.sh` of lab 08 reads the dates of the file and falls back to `curl -k`: with the files renewed and
   the service not restarted it prints "cert valid and service serving HTTPS" while the
   expired certificate is served.
4. `cert_setup`: `setup.sh:24` gives `openssl x509` values for `-startdate` and `-enddate`; OpenSSL 3.0 refuses
   them, the message is discarded and `set -e` ends the script with nothing armed. The model
   has both outcomes.

5. `c_any_comparator`: `sort_ints` swaps only when the comparator answers exactly 1 (`funcptr.c:31`), though
   `funcptr.h:24-25` allows any positive value: under `x - y` the array 2, 0 stays as it is. With comparators of -1, 0
   and 1 it sorts (`ArraysRight` in section 5).
6. `c_build_san`: `make test SAN=thread` after a `make test` runs the binaries built with
   `address,undefined` (`Makefile:32`), though `Makefile:5` offers the choice.

Met while reading and not runs:

- `safe_strcat` with a size of 0 stores at `dst[SIZE_MAX]`, and it returns the smaller of the joined length and
  `dstsize`, where `safety.h:25` has `min(dstsize, strlen(dst)) + strlen(src)`. `WithinBounds` names the first as the one access outside an array, `SafetyResult` has the second as the header's value capped at `dstsize`.
- `my_memcpy` copies its bytes but returns NULL (`pointers.c:28`), where `pointers.h:13` and `test_pointers.c:40` have `dst`; `swap_int` stores in `b` alone (`pointers.c:6`); `my_memmove` and
  `rotate_left` do nothing yet, and five routines of `bits.c` return 5. The model has all of this as it is; `ArrayResult` and `WordsResult` assert nothing of it.
- In lab 06 the `pgrep -f` of two spawners can each match the other's command, or a command of the other run that is about to end: then `setup.sh` ends with no hog, where `setup.sh:51` means
  to spare the player the wait for cron. `ArmedIsBroken` names it as the exception (`mistaken`); cron's next tick mends it unless it is mistaken too (`Respawns`).
- `pack_rgba` shifts into the sign bit for r of 0x80 and above (`structs.c:42`); UBSan prints and goes on, where `ub.h:11` says it aborts.
- `list_push_front` writes through NULL when `malloc` fails (`linkedlist.c:7`); `linkedlist.h:14-15` promises the head unchanged. `WithinBounds` has it as an exception.
- `sort_ints` on an empty array runs its outer loop 2^64 times (`n - 1` on `size_t`) before it returns.
- A source saved while it is being compiled is older than the binary that misses the edit, so make never builds it again: `UpToDate` says that this is the only such edit.
- `check.sh` of lab 03 does not ask whether the API is enabled, so a disabled one passes and is gone after a reboot, though `setup.sh:83` wants a fix that survives it.
- In lab 04 a player who takes the `BREAKFIX-LAB` mark off the poisoned line and leaves the address defeats teardown once setup runs again: the copy is taken with it.
- In lab 12 a second `setup.sh` stores the skewed clock as the true one (`setup.sh:26`).
- `FindDuplicates` (`dupes.go:15`) ranges over a map where its comment promises the order of first repeats.

In `ctest.h` a loop that never ends but contains a `CHECK` re-arms
the alarm at each turn, and code before the first `SECTION` or `CHECK` has no alarm, so neither is
caught, although lines 49-52 promise it. The model's `Statements` bound excludes the first, and
`Caught` starts from a set alarm to exclude the second. The check number in a timeout message stands still in an aborted section, since skipped
checks are not counted.

## 4. Fairness

- `worker_pool`: weak fairness of the caller, of the rendezvous, and of each worker. The Go scheduler
  runs every runnable goroutine in the end, and `fn` is assumed to return. Which worker takes a job is left open.
- `ctest`: the clock only. The program under test may stop at any statement.
- `labs`, lab 06: each run of the spawner, cron's tick, the hog's time limit, and a script once
  begun. Nobody has to start a script or to repair anything.
- `labs`, labs 03 and 08: systemd with its programs, and a script once begun. A reboot or a command of the player never has
  to happen. Lab 04 states no liveness and needs none.
- `c_programs`: a routine that runs, a loop of the list, the benchmark: sequential code whose process is scheduled. The client
  need not call.
- `c_build`: none.

## 5. Theorems

All hold for every value of the constants that satisfies the module's named assumptions. Every
invariant and every action property of a passing run is a theorem of the specification that
the run checks.

- **WorkerPool** (`InputsAssumption`: a finite bound on the workers requested, lists over `Val`, total `fn`).
  The inductive invariant says which workers exist in each phase of the caller (`Phases`), that the
  wait group counts exactly the workers not yet out (`Counted`), that jobs in hand are
  distinct and behind the send loop and an answer in hand is the right one (`Holding`), and that each position neither ahead nor in hand is filled (`Filled`).
  `ResultsInOrder` needs all of them: at the return `Counted` gives that nobody is busy, so nothing is pending, so
  `Filled` covers the slice. Also proved: race freedom, that stored answers stay, and that each step is a step
  or a stutter of `ParallelMap`.
- **LruCache** (`CacheAssumption`; the recency theorems and `Returned` also assume `0 \notin Val`, which is finding 1). The heart is a lemma on lists,
  `NewestTouch`: the newest c of a touched list is the newest c of the list with the key moved, or appended with the oldest dropped.
  With it the dict is at each step the newest part of the history, and the refinement of `LruContract` follows. Types and the exact counter need no assumption on values.
- **MCLabs** (`SamplesAssumption`: at least one sample; the rest has no parameters). One lab is open, the others stand as at the start, so
  the invariant `LabInv` is the conjunction of one per lab, each kept by its own steps.
  - Lab 06 (`IInv`): each test of `check.sh` that passed stays true because only `setup.sh` puts
    things back, so during the watch no new spawner begins; those in flight are among those in flight
    when it last slept (`Watching`), and all of them, children included, are over at the sample that decides. One sample would be enough. That there are at most two hogs is not
    inductive by itself: a run past its `pgrep` is counted as a hog to come (`FewHogs`). What a `pkill` does to the runs only shortens them (`KillingKeeps`).
    `Prepared` says what `setup.sh` has laid out at each of its commands: when its spawner is done there is a hog, or the copy for the child that is on its way, or the spawner was mistaken; `SetupWaits`
    that `setup.sh` waits for the script it started.
  - Lab 03 (`PInv`): the loop over the two units leaves each clean, and nothing but a script or the player starts a unit that is down (`PClearing`); the squatter is started on a free port, before the API,
    and has bound it when the API is started (`PArming`). An API that has answered `check.sh` keeps the port, and after the verdict the port changes hands at a reboot only, which a squatter
    that is not enabled does not survive (`PChecking`, `PFixed`): hence `GoneForGood`. `PortTaken` is read off the last command of `setup.sh`.
  - Lab 08 (`CInv`): from the stop in `setup.sh` to its last command no server is up that an earlier game left, and none is started before the expired pair is there
    to be loaded (`CArming`); so the one it enables is the broken one. A verdict stands only while no script runs, and `setup.sh` has withdrawn the teardown before it puts anything in place (`CSaid`).
    `FixedAnswers` is about the moment of the verdict: the last test of `check.sh` calls the server and looks at the pair, and a server that runs stays up until the player, a script or a reboot, each of which ends the verdict.
  - Lab 04 (`DInv`): the copy of `/etc/hosts` never holds the poisoned line, because it is taken after the line has been removed, whatever was there before (`DCopy`);
    what `teardown.sh` has undone (`DUndoing`) and what the tests of `check.sh` have seen, none having failed (`DChecking`), stays so until the next `setup.sh`.
  Theorems: `LabTypes`, `SquatterGone`, `VerdictStays`, `AnswersRight`, `Reversed`, `BrokenWhenArmed`, `PortTaken`, `ServiceRearmed`.
- **CTest** (`CTestAssumption`). The invariant ties the list of failed sections, the abort flag and the counter to the history
  of false checks. `FreshBudget` follows from ticks left plus ticks spent being at least the budget
  while an alarm is set; `OneBlockPerEntry` from a section that is not aborted having an entry to spare.
- **MCProperC**: the invariant `ProperCInv` is the one of the routine that runs, of the list and of the benchmark.
  - Routines on arrays (`SizeAssumption`, `ValueAssumption` and the assumptions on the function arguments: arrays up to any `SizeMax`
    over any integers). `ArraysRight` is about the routines and values that `PointersResult`, `FuncPtrResult`, `SafetyResult` and `SortResult` name, not the whole of `pointers.h`. `Called` says what a caller passes and is never changed; each loop has its invariant: what of the array is done
    and what is still as passed. For the sort, the cells before `i` are in place and no larger than those after, and `dst` stays
    a permutation of `old`, by a witness that is composed with one swap per exchange. `ArraysRight` follows.
  - Routines on words (`BaseAssumption`, `WordAssumption`: a byte with any even number of values, a word of four, any ints; C is `Base = 256`, `WordBits = 32`).
    `count_set_bits` keeps the bits counted plus the bits left equal to the bits of `n`: `LowBitDropped` shows that `x & (x - 1)` clears one bit and no other (`BitGone`), and
    `SomeBit` that a word with no bit is 0. The byte loops carry the digits stored or the sum read so far, which `OneMore` keeps below the width; `Digits` puts a word together again.
    `TopByte` is the exact condition for the overflow of `pack_rgba`. `WordsRight` follows.
  - The list (`NodeAssumption`: any set of nodes, so lists of any length). While a routine runs, its pointers are at
    fixed positions of `list` after `k` turns (`slow` at `k + 1`, `fast` at `2k + 1`, round the cycle when tied); `list_reverse` has turned the
    first `k` links, `list_free` has freed the first `k` nodes. `Matches` and `Answers` follow.
  - The benchmark (`BenchAssumption`: positive sizes and mask). `nodes[]` stays a bijection (`Shuffled`), the links follow it (`Linking`), so the
    pointer of a walk is `nodes[turn]` (`Walking`). That the sums agree needs a witness: a function of partial sums along the array, built by the allocation loop, and one
    along `nodes[]`, which each exchange of the shuffle changes between the two cells and leaves alone at the end (`AddsExchanged`). In the matrix the
    row order meets the cells `0, 1, 2, ...`, each of which is `y * n + x`; the column order has every such cell with x done (`Crossing`). `BothTheSame` follows.
  - `Bounds` says of all of them together what the sanitizers can see: `safe_strcat` with size 0, the write of `list_push_front` after a failed `malloc`, the shift of `pack_rgba`, and nothing else.
- **Build** (`SuiteAssumption`, `StubAssumption`: any modules, any stubs, any bound on edits). The snapshot of a compilation is the source unless it was saved
  since (`Compiling`), what runs is not behind its source (`Running`), and the goals already passed are done or were edited (`Behind`). `Fresh`, `Earned` and `Cause` follow. All three except the module whose source was saved while the compiler read or compiled it (`raced`), which is
the stale binary make never mends; `Earned` and `Cause` also what was saved since make began (`late`).

Induction. The induction theorems of the library take a predicate, which the provers cannot instantiate, but well-foundedness of the naturals
can be used for a set: `SetInduction` in `RoutineProofs` says that a set of naturals with 0 and every successor is `Nat`, and the predicate becomes the set
`{k \in Nat : ...}`. Exponents have no rules in the provers either: `2 ^ k` is taken as the number of subsets of `1 .. k`, whose doubling with `k` is a bijection (`PowStep`), and
`2 ^ (a + b)` then follows by induction (`PowAdd`). Powers of `Base` are written out (`Place`).

Only model-checked: every liveness property (`Returns` of the pool and of the C programs, the fair part of `MapFairSpec`, `Respawns`, `ReversedInTheEnd`, `ApiRecovers`,
`RenewalReaches`, `Caught`), since neither fairness nor ENABLED is within the prover's reach; and the runs that refute.

## 6. Not modelled

- The bodies the reader will write: of a `TODO` there is nothing to translate (`ProperDS`, `ProperOS`, `ProperNet`, `ProperInterview/src`, the predictions of `ProperMachine`, `memory.c`,
  `strings.c`); their headers say what they should do, and a model of a header would not be one of the code. `go/counter` and `ProperRust` likewise.
- `make test-solutions` and `check-solutions.sh`: they copy the tree and the reference solutions into a scratch directory made anew by each run.
- Labs 01, 02, 05, 07, 09, 10, 11 and 12. 01 and 05 are one unit each, whose one question of order (active, and about to die) is asked of 08. 02 and 10 measure sizes and counts, 07 and 11 the form of files and accounts,
  one command each. 09 is decided by the kernel and 12 by the time daemon, neither of which is here.
- `dupes.go`, `logparse.py`, `duplicates.py`, `word_freq.py`: sequential, without state between calls. The three Python programs to write tests against have planted
  bugs, listed in `ANSWERS.md`.
- Real time, the texts printed, what a terminal shows.
