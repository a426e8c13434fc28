# A TLA+ model of apmc

`apmc stat` runs a program on macOS and prints how often hardware events occurred in it.
It claims the CPU's performance counters, programs events into them, and injects a
library into the program (and so into every process it forks) that counts per thread and
sends one message per process back through a pipe. This directory holds TLA+ models of the
parts whose correctness depends on the order of things, configurations that check them
with TLC, and theorems proved with TLAPS. Line numbers refer to the sources as they are
beside this directory (`src/`).

## The system

| Component | Source | State | Operations | Hard part |
|---|---|---|---|---|
| Injected library | `inject/kpc_inject.c` | `g_slots`, `g_next_slot`, `g_accumulated`, `g_pending_signals`, `g_finalized`, per-thread `t_my_slot` and key | constructor, thread hook, TLS destructor, SIGUSR2 handler, `apmc_start/stop_impl`, `atfork_child`, finalizer, `_exit` interpose | threads, signals on top of any code, fork at any time, two ways out of a process |
| Slot assignment | `src/kpc.rs:263-302` | `used`, `result` | one greedy pass | which events are left out |
| KpcManager | `src/kpc.rs` | counter counts, configured events; the kernel's registers | `new`, `configure`, `read_system_wide`, `delta`, `labeled_counters`, `Drop` | counts that change on claiming, failures half way, wrap-around |
| Session | `src/stat.rs` | the child, the pipe, ignored signals | `cmd_stat`, `read_all_inject_results` | process tree, orphans, full pipe, Ctrl+C |
| kpep database | `src/kpep.rs` | none after loading | find a file, parse, look up, show | a file for another CPU, broken files, casts, events that are no events |
| Region API | `src/region.rs`, `include/apmc.h` | resolved pointers | `start`, `stop` | threads resolve at once, fork meanwhile |
| Command line, output | `src/main.rs`, `src/stat.rs:98-123, 275-377` | the database, the events asked for, two snapshots | `list`, `stat`, `print_results` | which error ends what; the value beside the right name |
| Build script, examples, dump script | `build.rs`, `examples/`, `dump_all.py` | none | | |

How they interact. `cmd_stat` configures `KpcManager` (which calls slot assignment), makes a
pipe, spawns the target with the library in `DYLD_INSERT_LIBRARIES` and the write end in
`KPC_RESULT_FD`, waits for the target, then reads messages until every process that inherited
the write end has closed it. The target's code reaches the library only through callbacks
(thread hook, key destructor, signal, atfork, `_exit`) and, in region mode, through
`apmc_start`/`apmc_stop`. Processes share nothing but the pipe. With `--system-wide` there is
no library: two snapshots of all CPUs are subtracted.

What makes each part correct:

* library: the work done under measurement is counted once, whoever collects it; slots are
  never shared; nothing measured becomes uncollectable; a process that leaves reports once, and
  waits for nothing but room in the pipe;
* slot assignment: a matching, and as complete as possible;
* manager: its buffers fit the kernel's counters, and whoever fails gives the counters back;
* database and command: what is listed is what the file holds; the number printed beside a name
  is the count of that event and of no other;
* region API: every call reaches the library, or does nothing when there is none;
* session: everything reported is printed, and once the measured programs have let go of the pipe
  the session ends with the counters given back.

## Modules

| Module | What it is |
|---|---|
| `InjectDylib` | the library in one process, every shared access a step |
| `CounterLedger` | what the library promises, without slots, signals or finalizer |
| `MCInjectDylib` | instances for TLC, and claims of the repository that do not hold |
| `InjectDylibProofs` | theorems: types, one message, slots |
| `InjectLedgerProofs` | theorems: the library implements the ledger |
| `InjectExitProofs` | theorems: what a process has collected and sent when it is gone |
| `SlotAssignment`, `MCSlotAssignment`, `SlotAssignmentProofs` | `assign_slots` as a loop, its instances, its theorems |
| `KpepDatabase` | the choice of a plist, what parse keeps of it, lookup by name, and how it is shown: operators only |
| `KpcManager` | extends it: the manager over the kernel's counters; no behaviour of its own |
| `ApmcCommand`, `MCApmcCommand` | composes both: `apmc list`, `apmc stat` and users of the crate, from arguments to printed lines |
| `KpepDatabaseProofs` | lemmas about its operators, and about finite sets, sequences and induction that the other proofs share |
| `ApmcCommandProofs` | theorems: the claim, the buffer, what is listed, what is counted |
| `StatSession`, `MCStatSession`, `StatSessionProofs` | one `apmc stat`, the process tree, the pipe and the messages in it; its theorems |
| `RegionApi`, `MCRegionApi`, `RegionApiProofs` | the first calls of `apmc_start` and `apmc_stop`, in C and in Rust |

Operators named after a function of the source stand for it; an operator introduced by a
comment `Mutant:` is a plausible bug in the operator below it, kept to show that the
property checked with it can fail. It is used nowhere else.

### InjectDylib

State. `pc[t]` is where thread `t` is in its base code and `handler[t]` where it is in
`collect_handler` on top of that code; the other variables are the C variables of the same
name. `hw[t]` is what `kpc_get_thread_counters(0, ..)` reads in `t`. `slot_state` and
`slot_start` are the fields of `g_slots`.

Granularity. An action ends where another thread or a signal could observe the difference:
the atomics, the slot fields, `t_my_slot`. So the hook is three steps (index, snapshot,
ACTIVE with the key), `collect_slot` is two (CAS, add), and the finalizer is one step per
exchange, enumeration, store, signal, test and write. A signal may arrive at every one of
them. Consecutive accesses that only the same thread can observe are one step.

Abstractions.
* The per-counter loops treat every index alike: there is one counter per thread.
* `g_accumulated` is kept as its summands, one per thread. Atomic addition commutes, so
  the C variable is their sum.
* Loading and resolving the kperf symbols is one choice of how far it comes (`loaded`): "no" leaves the
  library inert; "partly" is the return of kpc_inject.c:205 when only `kpc_get_counter_count` is
  missing, with no hook, key, SIGUSR2 handler or fork handler, but a finalizer that runs: it signals
  the other threads, and such a signal ends the process (`SignalKills`, `proc = "killed"`) if one is
  delivered before it has left; "yes" is everything.
* `FinWrite` sends what `g_accumulated` holds. It blocks while the pipe is full, which is outside one
  process: nothing makes it happen here, and `StatSession` has the pipe.
* The first loop of the finalizer (count) is one step; the second (signal) is one step per
  thread, in any order.
* After `fork` the parent is unchanged, so a behaviour that takes `ForkChild` goes on as
  the child. Nested forks are the same step again.
* The main thread does not call `pthread_exit`. SIGUSR2 comes only from the finalizer.
* Darwin may deliver a signal while a thread tears down; `HandlerSlots` lets the handler then
  read either the slot or the initial -1 (kpc_inject.c:100-102 speaks of this).
* An index outside `g_slots` is undefined behaviour in C; the model ends the process
  (`proc = "crashed"`).
* Death by any other signal is in `StatSession`.

`CounterLedger` knows only, per thread, an open measurement, what has left it but is not added yet, and
what is banked; and per process what was reported. `Close` takes the open measurement whole, `Bank`
adds it whole, and `Report` sends exactly what is banked at that moment. `ImplementsLedger` maps
`open[t]` to the work under an ACTIVE slot of a live thread, `adding[t]` to the delta between CAS and
add, and `banked[t]` to `g_accumulated[t]`. A thread that collects twice, a stale slot collected in a
fork child, an overwritten start snapshot, an add that is lost, a message that is short of the sum:
each is a step that no ledger has.

`HandlersHaveRun` is what the end of the finalizer's wait means: every handler it asked for has run to its
end, and what its thread had measured when it started is in the sum. Two cases are excepted, and the
property names them: the signal interrupted the thread's own collection between its CAS and its add
(`stop_interrupted` shows what is lost then), or came when its TLS was torn down and its destructor, which
it has entered, will collect. A slot that the hook activates after the handler has run is not covered;
nothing had been measured then.

### SlotAssignment

`todo` holds the events the loop has not reached; `Before` is the stable sort by
`valid_count`. `Assign` and `Skip` are the branches of the loop body. A mask is a set of slots,
or `AnySlot` for `None`. `SkipsOnlyIfUnavoidable` is the promise behind "assigned first to avoid
conflicts" (kpc.rs:259-262). It needs `MasksNested`: masks of one CPU do not cross, which
`COUNTERS.md` and `counters/*.md` show for every CPU documented (0x80 within 0xe0 or 0xfc
within any). With crossing masks the greedy order may skip an event needlessly.

### KpepDatabase, KpcManager and ApmcCommand

In `KpepDatabase` a plist dictionary is a function or, where the code iterates over it, a sequence of
pairs; a value of an unexpected type is `Junk`. `parse` returns `Ok` or the error that the code
returns first. A shown event that has neither a number nor a fixed counter is `unreachable!` in
the code (kpep.rs:74); that none is shown is the first conjunct of `ListsEachEventOnce`.
`find_database_path` is the set of files that may be chosen, since `read_dir` has no order.
`Filter` and `Ordered` stand for the iterator chains and the sort. They say the same as `SelectSeq` and
`SortSeq`, by way of the indices that are kept and of how many come before each, which is a form the
provers can reason about. `IsContents` is what any file may contain that the code can read at all.

In `KpcManager`, `forced` and `config` are the kernel's side. Claiming the counters changes their
number (kpc.rs:204-209), which decides the layout of the flat buffer that `get_cpu_counters` fills:
`cpu_counters` lays it out by the kernel's counts, `read_system_wide` reads it by the manager's, and
`BufferFits` compares the two. `Occur` is an event on a CPU, which a register counts if it is
programmed, in a suitable slot, with the number that the *hardware* has for that event (`Counts`);
the manager only knows the number of the file. Events that read 0 without an entitlement (`INST_*`,
README.md:119 of the repository) are `silent`: the kernel accepts their number, and nothing is counted.
The code does not look at the results of `set_counting` and `set_thread_counting` (kpc.rs:228-229,
253-254): `counting` is what really is enabled, of "cpus" and "threads", and `ConfigureProgram` succeeds with any
of it. With less than `--system-wide` (the CPUs) or the default mode (both) needs, every count is 0. The calls inside `configure` that nothing can observe
in between are one action per way out. `assign_slots` is stated as the result of the greedy pass
that `SlotAssignment` takes step by step. What happens when another session takes the counters away
is the kernel's decision and not in this repository; the model has only the refusal
(`ConfigureRefused`).

`ApmcCommand` has the arguments, the database that was read, and the gates between the two
(`Create`, `Configure`, `Return`). `ReportsTrueCounts` follows a name through alias, lookup,
assignment and registers, and the number back through buffer, sums, snapshots, difference, label and
commas, for every printed line: the number is 0 where the kernel does not count (`Enabled`, `silent`), and
otherwise what occurred. It holds when the file is that of the CPU itself and that file is right about the hardware
(`DescriptionAssumption`), in which a number selects one event and the two fixed counters count what
their labels say (`HardwareAssumption`), and if there are no more counters than the 16 of the library
(`LibraryAssumption`; an M4 has 10). When `find_database_path` falls back to a
file of another family (kpep.rs:378-388) nothing warns the user, and the events are programmed
with that family's numbers. `ListsEachEventOnce` compares what is shown with the raw file. In the
default mode the measured program is the array `target`: what the library in it will report. That may be
less than what occurred: `Occurs` lets the library miss any occurrence (`kept`), and `lost` remembers of
which events. How that comes about is in the other modules: threads without a slot, threads started
during exit, a handler that comes too late or interrupts `apmc_stop`, processes that are killed, replaced
by `exec` or leave without a message. So in the default mode `ReportsTrueCounts` says that a number is never too
large and never another event's, and that it is exact where nothing was missed.

### StatSession

`apmc` is where `cmd_stat` is. A process is running, waiting for its children, leaving (in the
finalizer), reported or gone; `write_end` is who holds the pipe open. `CloseInherited`, `BeginWait`
and not waiting for children are choices of the measured program. So is `Exec`: the counts are lost with
the old image, and the new one gets a fresh library through its environment, or none if the system protects
it, as may happen to the target itself (`injected`). `Interrupt` is Ctrl+C: any subset
of the live processes dies, some may handle the signal, and apmc survives only when it already
ignores it.

The pipe carries units, a count or a value. The library writes its message in one step
(kpc_inject.c:330-334, below `PIPE_BUF`); the reader takes it in two, `ReadCount` and `ReadValues`,
between which others may write. Nothing in the stream marks the beginning of a message, so one that
is shorter or longer than it says would turn every later value into a count: `FramesStay`. Both sides
know 16 as the largest count (kpc_inject.c:38, stat.rs:240), the library by clamping (`clamped`), the
reader by stopping. A library that finds `kpc_get_thread_counters` but not `kpc_get_counter_count`
(kpc_inject.c:205) has not installed its SIGUSR2 handler: a process with several threads is killed by its
own finalizer's signal (`SignalKills`), one with a single thread writes a count of 0, which ends the
reading. All processes of a session have the same count, so the test of stat.rs:256, which ignores a
message of another length, is in the model (`Plus`) but always succeeds.

### RegionApi

One module for both forms: `cell` is the atomic `resolved` of `apmc.h` (empty, done) or the
`OnceLock` of `region.rs` (also busy, and then others wait). `Store` and `Publish` are two steps. In C
two threads may both be between `Load` and `Publish`, and then one writes the plain pointer `fn` while
another reads it through a flag that is already set. That is a data race by the letter of C; the
pointer is aligned and gets the value it has, which is the outcome the model has. A fork leaves only
the forking thread, with the cells as they were: a busy `OnceLock` stays busy, and the child blocks in
its next call. `CallsReturn` excepts that case (`Abandoned`) and no other.

## Runs

Passing runs:

| Run | Instance | Shows |
|---|---|---|
| `normal` | 3 threads, 2 slots, 1 unit of work each, fork and exit by the main thread | `TypeOK`, `SlotsDisjoint`, `NoOrphanSlot`, `UntrackedOnlyWhenFull`, `HandlersHaveRun`, `ExitReports`, `ImplementsLedger` in normal mode |
| `region` | 2 threads, 2 slots, 2 units, one fork | the same in region mode, with starts and stops repeated |
| `leave` | 3 threads, two of which leave | at most one message (`AtMostOneMessage`); a leaving thread gets out, or as far as the write on the pipe (`OnlyTheWriteWaits`) |
| `slots` | 4 events, 4 slots, every choice among 6 masks | the result is a matching; events are skipped only when they must be |
| `system_counts` | 9 directories (own, foreign, broken files), 5 events of which one is silent, 2 things that are none, aliases, 2 CPUs, 1 then 2 configurable counters, registers modulo 1200, two calls of `configure` | `ReportsTrueCounts`, `ListsEachEventOnce`, `BufferFits`, `FailureReleases` |
| `session` | 3 processes, messages of 0 or 2 values (2 is the clamp), with and without `--system-wide`, one Ctrl+C, a pipe for two messages | printed = reported; an empty result only when nothing was reported; values are never taken for counts; the session ends if the target does and nobody keeps the pipe open (`SessionEnds`) |
| `region_api` | 3 threads with 2 calls each, C or Rust, with and without the library, one fork | every call reaches the library exactly once or not at all; every call returns, unless a fork has taken the thread it waits for |

Violated claims (each run checks one statement that the repository makes, and TLC shows how
the code breaks it):

| Run | Claim | What happens |
|---|---|---|
| `stop_interrupted` | kpc_inject.c:88-90, the finalizer knows when all threads have reported | SIGUSR2 between the CAS and the add of `apmc_stop` decrements the count although the region is not in the sum yet |
| `two_leavers` | kpc_inject.c:280-281, idempotent so safe from destructor and `_exit` | the second leaver returns at once and ends the process before the first has written |
| `fork_while_leaving` | kpc_inject.c:135-137, the child writes an independent message | `g_finalized` is not reset in the child |
| `pipe_full` | kpc_inject.c:9-10, each process reports independently | apmc waits for the target before reading; a child blocks on the full pipe; the target waits for the child, although every process ends when it can |
| `list_filter` | tests/cli.rs:45-76, README.md:17-19, main.rs:111-113, `apmc list CACHE` succeeds and filters | the argument is a path: apmc looks for a file of that name and fails |

Read in the code, without a run of their own:

* Slots of threads that ended are never handed out again (`HookAlloc` only counts up), so after 1024
  thread starts in a process later threads are not counted, while README.md:64 speaks of covering
  terminating threads; `UntrackedOnlyWhenFull` says what does hold.
* In region mode every `apmc_start` of a thread without a slot increments the `int g_next_slot`
  (kpc_inject.c:262). After 2^31 of them it is negative and passes `slot >= MAX_THREAD_SLOTS`:
  `NextInt` has the wrap, an access outside `g_slots` ends the process, and that it never happens
  (`SlotsInBounds`) holds only before the wrap (`MaxTaken <= INT_MAX`).
* Ctrl+C kills the target, whose finalizer does not run on a signal, so apmc survives (stat.rs:179-181)
  and then has no results to display, unless a descendant reported.
* `ncpu()` falls back to 1 (kpc.rs:105, "safe fallback"); on a machine with more CPUs the kernel then
  writes beyond the buffer. With `hw_ncpu = 0` in `system_counts.cfg` `BufferFits` is violated.
* `CounterDelta.configurable` is in slot order (`DeltaConfigurable`), while kpc.rs:127 says in the order
  of configuration.
* Events are sorted by number; the test that says by name (kpep.rs:594) has names for which the two
  orders agree.

`CHECK_DEADLOCK FALSE` is in `pipe_full` and `session`, where the system really may stop: everyone waits
on a full pipe. `pipe_full` states that as a liveness property; `SessionEnds` has it as a condition
(`TargetEnds`).

### Bounds

* Three threads are enough for a leaver, a thread being signalled and one that starts, ends or
  leaves meanwhile. The claims about slots are about pairs. The theorems below cover any
  number.
* Two slots and three threads make slots run out.
* `MaxWork` 1 or 2: one unit tells counted from uncounted and from counted twice, two tell a
  delta from a total.
* `MaxTaken` bounds how often slots are asked for: in `region` it is one above the number of slots,
  elsewhere above what the threads can ask for.
* `MaxForks = 1` in runs with fork: the child starts from a state that one fork leaves; a
  grandchild's state is of the same form.
* Registers modulo 1200 and bursts of 1100 in `system_counts`: two bursts wrap a register, a sum over
  the CPUs or a difference, and one prints with a comma. Events are told apart by which of them
  occurred, two configurable counters tell slots apart, and the second `configure` meets what the
  first has left.
* `PIPE_CAPACITY` holds two messages in `session`, one fewer than there are processes, and one in
  `pipe_full` (a real pipe holds hundreds). Two values per message are enough to confuse one with a count.
* Three threads with two calls each in `region_api`: two that resolve at once and one that finds the
  cell filled, or is left behind by the fork.
* Thread and process identifiers are distinguished (`Main`, `Target`, exiters), and several
  runs check temporal properties, so no symmetry is used.

### Fairness

`InjectDylib!FairSpec`: a thread that is leaving keeps being scheduled, and a handler that
has started finishes. Delivery of SIGUSR2 is not fair (the program may block it), nor is
anything the program does, nor `FinWrite`: the write blocks while the pipe is full, for ever if apmc never
reads. `OnlyTheWriteWaits` therefore rests on the bounded number of attempts (kpc_inject.c:325) and
stops at the write.

`StatSession!FairSpec`: apmc keeps being scheduled; nothing is assumed of the measured programs.
`SessionEnds` has as conditions what it needs of them: the target ends (`TargetEnds`), and from some time on
no process has the write end open (`DescriptorsClosed`). The code guarantees neither: a daemon that lives
on with the descriptor keeps apmc in stat.rs:206, with the counters claimed, and a full pipe may keep the
target from ending. `EndingSpec` adds, for `pipe_full` only, that every measured process ends when it can, so that
its violation is not the work of a process that just goes on. Blocking in `write` is not helped by
fairness: only room in the pipe enables `Report`.

`RegionApi!Spec`: every thread that is inside a call keeps being scheduled. Whether it makes a call or
forks is its own choice.

## Proofs

`InjectDylibProofs`, for any `Threads`, `MAX_THREAD_SLOTS`, `INT_MAX` and both modes, from the
assumptions named in `InjectDylib`:

* `TypeCorrect`: `Spec => []TypeOK`. `TypeOK` is not inductive: an index is cast to a slot without
  a test where the code knows it is in range (`HookActivate`, the adds). `TypeInv` adds what the
  program counter says about the slot: no slot is taken before the library is loaded
  (`NothingTaken`), a thread between CAS and add has its slot in range (`AddsInRange`), and a key
  is 0 or the slot plus one (`KeyMatches`).
* `OneMessage`: `Spec => []AtMostOneMessage`. `OneFinalizer` strengthens it: at most one
  thread is between the exchange and the write, `g_finalized` is set while one is, and once
  the message is sent none is.
* `SlotsNeverShared`: `SlotsDisjoint`, and `SlotsInBounds`: no thread ever writes a start snapshot outside
  `g_slots` (`proc # "crashed"`), both for as long as the counter has not wrapped
  (`MaxTaken <= INT_MAX`). `SlotsInv` says that every slot held by a live thread is below
  `g_next_slot`. Without the assumption both are false.

`InjectLedgerProofs`, before the counter wraps:

* `LibraryKeepsLedger`: `Spec => ImplementsLedger`. Each action is a step of `CounterLedger` under the
  mapping, or changes nothing there: a CAS is `Close`, an add is `Bank`, the write is `Report`.
  `LedgerInv` says why: an ACTIVE slot has an owner that exists and began at most where its hardware
  counter is now, a thread that is about to add holds what its CAS has taken, and before loading
  nothing runs. With `SlotsInv` no step of one thread touches the slot
  of another, so the proof of an action is about one thread (`OnlyThread`, ...).
* `NoSlotIsOrphaned`, which is the last part of `LedgerInv`.
* `UncountedOnlyWhenFull`: a thread that has passed its hook has a slot, or `g_next_slot` was full.

`InjectExitProofs`:

* `HandlersDoneAtWrite`: `HandlersHaveRun`. If the wait of the finalizer ends without a timeout, every
  handler it asked for has finished, and what the thread had measured when it started is in the sum, with
  the two exceptions that the property states. `SignalInv`
  says that `g_pending_signals` is never below the number of handlers to come: threads still listed,
  signals pending, handlers running. It may be above, since a thread may end before it is signalled.
* `LoneLeaverReports`: if one thread alone can leave or fork, a process that is gone has sent its
  message. Both hypotheses are necessary: `two_leavers` and `fork_while_leaving` are what happens
  without them.

`RegionApiProofs`, for any `Threads` and `MaxCalls`: `NoCallIsLost`. `Resolved` strengthens `NoCallLost`: a
cell that is done has its pointer, and so has the cell in front of every thread that is past the test.
It is what the release store and the acquire load of `apmc.h` are for.

`SlotAssignmentProofs`, for any number of events and slots and any masks: `TypeInvariant`, and

* `AssignmentIsMatching`: the invariant is that events still in `todo` have no slot, and placed
  events have distinct allowed ones.
* `SkipsAreUnavoidable`: when an event `e` is skipped, every slot it allows is held by an event at
  least as constrained; by nesting those events allow only slots that `e` allows too. So
  more events compete for `e`'s slots than there are slots, and by the pigeonhole principle no
  assignment places them all.

`StatSessionProofs`, for any process tree, pipe capacity and counter counts: `TypeInvariant`,
`MessagesStayFramed`, `PrintedIsComplete` and `ComplaintIsTrue`. In `SessionInv`, `PipeHolds(n, total)` says
that the pipe is what is left of the message being read and then `n` whole messages, and that
adding them one after the other to what was read gives what was written. A report appends one
message, `ReadCount` opens one, `ReadValues` closes it.

`ApmcCommandProofs`, for any machine, any contents of the files and any requests:

* `ListingIsComplete`: `ListsEachEventOnce`. A database that has been read comes from a file that is
  there (`FromFile`); the rest is about the operators and rests on `KpepDatabaseProofs`: `Filter` keeps
  what it should in order (`Filtered`), the sort is a permutation in order (`SortedByNumber`), so the
  parsed events are the entries with a dictionary (`ParsedInOrder`), each shown in one of two lists.
* `FailedConfigureReleases` and `BufferHasRoom` from `ClaimInv`: the counters are claimed exactly while
  the manager is configured, and then it knows how many there are. `BufferHasRoom` has
  `hw_ncpu >= NCPU` as a hypothesis; the fallback to 1 CPU (kpc.rs:105) is what it excludes.
* `TypeInvariant`, from `CommandInv`: the chosen events are of the database that was read (`Chosen`), a
  snapshot exists only while or after the counters are configured (`Snapshots`). That a snapshot has
  the right length needs what `read_system_wide` computes (`ReadIsTotal`), and that a slot is in range
  needs the greedy assignment to exist (`GreedyExists`, `AssignmentIsGreedy`), because the model
  chooses it by what it satisfies.
* `PrintedCountsAreTrue`: `ReportsTrueCounts`, where sysctl does not tell fewer CPUs than there are. A register
  `Measures` an event if it counts that event and no other, or would but for the entitlement. `CountInv`
  says that every event that was given a slot is measured there, and that what a register that measures
  an event has gained since the first snapshot, summed over the CPUs and modulo `MOD`, is how often the
  event occurred if it is counted at all, and 0 if not; of a program in the default mode, that the register in
  `target` is at most that, and exactly that unless the event is in `lost`. Programming establishes
  the first, because no two events get one slot (`SlotsDiffer`) and the database is right about the hardware.
  For the second, one more occurrence on one CPU is one more in the sum, through every partial sum
  behind it (`OneMore`).
* `NumbersReadBack`, which it rests on: what `fmt_comma` makes of a number, with its commas, reads as that
  number, for every number. `to_string` is the remainders of the successive quotients (`QuotientsEnd`,
  `NumberDigits`); what the loop has pushed after k digits has `Places(k)` symbols, with a comma at every
  fourth (`PushDigit`, `ResultPushed`); and reading the string from the left, what has been read is
  the quotient that belongs to the digits still to come (`ReadPushed`). The functions that are defined by
  recursion over numbers exist because each of their values follows from the one before (`Recursion`).

Induction in these proofs is over sets: `Induction` in `KpepDatabaseProofs` says that a set with 0 that is
closed under successor contains `Nat`, and follows from the library's theorem that `<` is well-founded.
It has no operator as a parameter, so it can be instantiated with a set such as the `n` up to which
the recursive sums are defined.

Model-checked only, because the prover has no liveness and no ENABLED: `OnlyTheWriteWaits`,
`SessionEnds`, `CallsReturn`. Every other property of a passing run is a theorem, under the
hypotheses above. The bounds of the model
(`MaxTaken`, `MaxWork`, `MaxBursts`, ...) are constants of any value there.

## Not modelled

Parsing of the arguments (clap's), colours and alignment, the wall clock and the exit status, fields
of the database that are only printed, the build script, the examples and the dump script (see
`PROJECT.json`). `KpcFns::load` is one choice: a manager or none. Within the modelled parts: a target
that uses SIGUSR2 or the descriptor `KPC_RESULT_FD` itself, a result descriptor that ends up on another
file, two sessions of apmc at once, the library's file in the temporary directory being rewritten
while it is loaded, messages of unequal lengths, and a write that the kernel cuts short.

## Plan

Done, in this order: `InjectDylib` with `CounterLedger` and its runs; its first proofs;
`SlotAssignment` with proofs; `StatSession`; `KpcManager` with `KpepDatabase`; the messages in
`StatSession`'s pipe; `ApmcCommand`; `RegionApi` with its proof; the refinement of `CounterLedger`, the
exit of a process, the session, and the counts of `ApmcCommand` down to the printed digits, proved.

Next, theorems:
1. `SkipsOnlyIfUnavoidable` carried over to `assign_slots` of `KpcManager`: a requested event that the
   output lacks could not have been counted with the others.
2. Of a region program: what `ImplementsLedger` and `HandlersHaveRun` say together about the
   sum that `FinWrite` sends.

Next, modules: messages of unequal lengths in `StatSession`; two sessions over one kernel, with both
answers the kernel may give, composed from `KpcManager`.
