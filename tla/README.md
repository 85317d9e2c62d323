# Verification of the mp4 processor and of the programs it runs

The repository holds the assignments of a computer-architecture course. The
largest and last of them, `src/mp4`, is a RV32I processor in SystemVerilog: a
five-stage pipeline with forwarding, stalls and branch prediction, two L1 caches,
an arbiter, and an adaptor to a burst memory. Its memory is loaded with C programs:
three competition programs, and CoreMark with a bare-metal port and the ports it
comes with. This directory holds TLA+ models of the design and of these programs,
the TLC configurations that check them and the TLAPS proofs about them.

All registers of the design share one clock. So does every model of it: a register is
a variable, a combinational signal is an operator, an input port is an operator's
parameter, and **one step of a specification is one `posedge clk`**. Components
that run in parallel are composed by the conjunction of their edges.

In the models of C programs a variable is what outlives a step: globals, what a
pointer reaches, and the locals that are live between two steps. A step ends where
another process may run (`ForkContexts`, `SocketContexts`: at each system call), or
where a property looks at the state (a phase of `core_bench_list`, a decision of `main`, a
call of `process_execution`, a specifier of a format). What happens within a
step is an operator.

## 1. Inventory

| Part | Source | State | Operations | What makes it correct |
|---|---|---|---|---|
| Cacheline adaptor | `mp4/hdl/cacheline_adaptor.sv` | macro state, 2-bit count, line buffer, address buffer | accept a read or a write, wait, one beat per edge, done | takes and gives each beat exactly once and in order; holds its request; answers every request |
| Burst memory (test bench) | `mp4/hvl/param_memory.sv` | line store, the task that runs, delay, beat | accept, delay, burst; assertions in parallel | its assertions never fail |
| L1 cache, two instances | `mp4/hdl/cache/*` | FSM state; tag, valid, dirty, data arrays per way; LRU bit per set | hit, miss, write-back, refill | indistinguishable from memory; no line twice; no dirty line dropped; LRU |
| Arbiter | `mp4/hdl/arbiter.sv` | owner of the memory port | grant, serve, release | the response reaches the requester; the request is held; nobody starves |
| Top level | `mp4/hdl/mp4.sv` | none | wiring | the composition of the above |
| Pipeline | `mp4/hdl/cpu/datapath.sv`, `stage_regs.sv`, `pc_reg.sv`, `regfile.sv` | PC, four stage registers, register file | one edge of all stages; stall; flush | retires the instructions of the sequential program, in order, with its values |
| Hazard detection, forwarding | `mp4/hdl/cpu/hazard_detection.sv`, `forwarding.sv` | none | choose the operand, stall, flush | every operand is the youngest older write; nothing younger than a taken branch has an effect |
| Decode, control ROM, ALU, comparator, load lanes | `mp4/hdl/cpu/*` | none | combinational | RV32I |
| CSR counter | `mp4/hdl/cpu/csr.sv` | counter | count | displayed only |
| Branch target buffer, pseudo-LRU, local predictor | `mp4/hdl/branch/*` | tags, targets, LRU tree, 2-bit counters | look up, allocate, retarget, train | prediction never changes results; LRU as in `software_model.sv` |
| Global and tournament predictor, return-address stack | `mp4/hdl/branch/*` | history, counters, stack | train, push, pop | commented out in `datapath.sv` |
| Reference memories, monitors | `mp4/hvl/*` | | check, log | not part of the design |
| Spare cache of the course | `mp4/given_cache/*` | one way | | not instantiated |
| Earlier assignments | `mp3`, `mp2`, `mp1`, `mp0` | | | separate designs: a multicycle CPU with a cache of another structure, the CPU alone, FIFO, CAM, multiplier, register file |
| CoreMark, workloads | `coremark/core_list_join.c`, `core_matrix.c`, `core_state.c` under `mp4/testcode/coremark/source` | a list of cells and items; matrices A, B, C; a block of characters | find, reverse, remove, undo, sort; multiply, extract; scan, corrupt | each leaves its data as it found it; the published checksums |
| CoreMark, main | `coremark/core_main.c`, `core_util.c` | `results`, `known_id`, `total_errors`, the clock | seeds, memory, calibration, timed run, verdict | the run that was asked for, within its memory, long enough, and an honest verdict |
| CoreMark, contexts | `coremark/linux/core_portme.c`, `coremark/cygwin/core_portme.c` | processes, shared segments, sockets | fork, iterate, report, wait, gather | every context's own checksums; the end |
| CoreMark, bare-metal port | `riscv-baremetal/core_portme.c`, `core_portme.h` | tick counter, volatile seeds | start, stop, time | differences across a wrap |
| Printing without a library (not built for mp4, whose port has a stub) | `coremark/barebones/ee_printf.c`, `cvt.c` | format, text, conversion in progress | scan, convert, send | the text denotes the arguments, in the fields asked for |
| Competition programs | `mp4/testcode/comp/source/comp1.c`, `comp2.c`, `comp3.c` | loop counters, accumulators, a log of messages | test loops, lcm and sum, processing | the status register says success at the end |

How they interact: the pipeline always fetches (`instr_read` is tied high) and may
have a load or a store in MEM. `pipeline_stall` freezes every stage until both
caches answer in the same cycle. A cache answers a hit in the cycle of the request
and keeps its controller in `check_cache`; on a miss it asks the arbiter for a
write-back, if the victim is dirty, and for a refill. The arbiter lets one request
through to the adaptor and gives the response back to its owner; both caches see
the adaptor's line buffer all the time. The adaptor moves the line in four beats.

Hard behaviours: two FSMs that must count the same beats without a handshake per
beat (adaptor and memory); arrays that are written in every cycle of a wait; a
miss that takes two transfers; two caches that miss in the same cycle on one port,
with a fixed priority; a stall that needs two responses at once; operands with
three copies in flight; wrong-path instructions; a predictor whose state moves
during stalls.

CoreMark's `main` reads the seeds, divides the memory, runs `iterate` on itself until a
second has passed, then starts one `iterate` per context and stops each. `iterate` calls
`core_bench_list` twice a round; the list's comparison function calls the matrix and the
state benchmark, whose results it caches in the items it compares. The contexts
share nothing but what the port gives them to report with: a shared memory segment each
(linux) or a UDP port each (cygwin). The report goes through `ee_printf`, which is a stub
in mp4's own port (`riscv-baremetal/core_portme.c` 26-28) and a whole program in the
`barebones` port the repository holds beside it.

Hard behaviours of the programs: a list that is restored by undoing and sorting, with
results cached in it; inputs corrupted and repaired in place; processes that start, end, stop
or die in any order between two system calls; segments an earlier run left; a
datagram sent before anybody listens; a clock that wraps; words that mean
numbers, units and contexts at once; state that lives across the conversions of a
format. `PROJECT.json` lists these hazards at their lines.

## 2. Modules

| Module | Models | Notes |
|---|---|---|
| `LineTypes` | | lines, beats, addresses; the assumptions on them |
| `CachelineAdaptor` | `cacheline_adaptor.sv` 25-96 | one action per FSM state (IDLE has three, for the three `op`s) |
| `ParamMemory` | `param_memory.sv` 15-161 | `memread`/`memwrite` with their parallel assertion processes |
| `LineMemory` | abstract | a memory of whole lines: accept, transfer, answer, retire; a port without a request shows no operation and no address |
| `LineTransfer` | adaptor + burst memory + a client | refines `LineMemory` |
| `Cache` | `mp4/hdl/cache/*` | one action per FSM state, check_cache split by outcome |
| `AtomicMemory` | abstract; `hvl/shadow_memory.sv` 24-83 | what the processor may assume of its data port |
| `CachedMemory` | one `Cache` over the abstract line memory | refines `AtomicMemory` |
| `Replacement` | `CachedMemory` with a history of each set's use | the LRU bit against what was used last |
| `Arbiter` | `arbiter.sv` 38-107 | |
| `MemorySystem` | `mp4.sv` 28-113 | two `Cache` instances, arbiter, adaptor, burst memory; refines `AtomicMemory` |
| `Instructions` | `rv32i_types.sv`, `instr_decoder.sv`, `alu.sv`, `cmp.sv` | words, instruction classes, addition, comparison |
| `Sequential` | abstract; `rvfimon.v` | the instruction set, one instruction per step |
| `BranchTargetBuffer` | `branch_target_buffer.sv` | victim index left open |
| `Pipeline` | `datapath.sv`, `stage_regs.sv`, `pc_reg.sv`, `regfile.sv`, `control_rom.sv`, `hazard_detection.sv`, `forwarding.sv` | one operator per multiplexer, one action per thing an edge may do (`Stalled`, `Flush`, `InsertBubble`, `Advance`); refines `Sequential` |
| `CTypes` | the port's `ee_*` types, `crcu8` to `crcu32` of `core_util.c`; the blocks of `core_list_init` and `core_init_matrix` | integers with their widths; what a workload takes of its block, apart from the recursive workloads, so that it can be reasoned about |
| `CoreList` | `core_list_join.c` | a heap is four functions on the positions of cells and items; loops over cells are recursive |
| `CoreMatrix`, `CoreState` | `core_matrix.c`, `core_state.c` | operators on whole matrices and blocks |
| `CoreMark` | `iterate`, `core_bench_list`, the checks of `main` | the real workloads, one context, one action per phase |
| `Seeds` | `parseval`, `get_seed_args`, `M<n>` of `portable_init` | a word is a sequence of character codes |
| `CoreMain` | `core_main.c` around `iterate`; timing and seeds of the bare-metal port | what `iterate` computes is a choice of checksums that are wrong |
| `ParallelContexts` | abstract; the comments of `core_main.c` on starting and stopping contexts | idle, running, gathered with one's own checksums |
| `ForkContexts` | `linux/core_portme.c`, USE_FORK | parent, children, signals, failing calls; refines `ParallelContexts` when nothing fails |
| `SocketContexts` | `cygwin/core_portme.c`, USE_SOCKET | the same with datagrams; refines `ParallelContexts` but where recvfrom fails |
| `NumberText`, `Printf` | `ee_printf.c`, `cvt.c` | conversions as operators; one action per part of a specifier |
| `BranchKernels`, `SumOfMultiples`, `ExecutionTable` | `comp1.c`, `comp2.c`, `comp3.c` | one module each, with its own `Init` and `Next` |
| `TestPrograms` | the program in memory | one of the three, and the status register |
| `LineTransferProofs`, `CachedMemoryProofs`, `ReplacementProofs`, `MemorySystemProofs`, `PipelineProofs`, `ForkContextsProofs`, `SocketContextsProofs`, `CoreMainProofs` | | theorems and proofs |
| `MC...` | | constants for TLC |

Definitions headed `Fault:` are wrong versions of the operator below them. They are
no part of a specification: each is what a slip in the code would look like, put in
the operator's place to see that the property named for it in `PROJECT.json`
fails.

Abstractions, and why they lose nothing the properties tell apart:

* A line address is a tag and a set index; the offset in a line counts beats. The
  memory compares addresses offset included (`addr_read_steady`), so the offset is
  kept. A byte mask is a set of beats: the granularity of a write is what matters
  for merging, not that a word has four bytes and a beat has two words.
* The delay of the burst memory depends on whether the page is the last one used.
  `ParamMemory` chooses any delay of `Delays`; the code's are 50 and 25 cycles,
  and a smaller delay only brings the events closer together.
* Reset is the initial state. The state after reset is what `rst` assigns; what it
  does not assign (the adaptor's buffers) starts with any value. Reset in mid-run
  is not modelled.
* The performance counters of the cache and the pipeline drive nothing.
* `Pipeline` knows instructions by class, with one kind of ALU function and two
  comparisons, on words: byte lanes, shifts and signedness are left out. The fields
  of an instruction are independent of each other (in the encoding, rs2 shares bits
  with some immediates), which allows more programs than there are. The caches are
  two response bits per edge, free to come in any pattern; the data port answers
  as `AtomicMemory` does, the fetch port as a constant memory. The direction
  predictor may say anything of a branch, so the results hold for the local
  predictor in use and for the ones that are commented out. A program has no
  branch at address 0, which is the tag of the empty entries of the target buffer.

In `CachedMemory` the memory side may defer a request (the arbiter serves the other
cache) and the bus carries garbage except in the response to a read; that is what
`LineMemory` allows. `recent` in `Replacement` and `bypass` in `MemorySystem` are
history variables: nothing reads them.

The processor in `CachedMemory` and `MemorySystem` is what `datapath.sv` 265 and
279-282 make of it: while `pipeline_stall` is high both requests stay, and when it
is low both may change to anything. In `MemorySystem` programs do not store into
the lines they fetch. The caches do not snoop each other, and the test bench's own
reference (`shadow_memory.sv`) keeps a separate, never written image for fetches.

* `CoreMark` computes with the real numbers of the benchmark: 16-bit seeds and data,
  32-bit matrix results, 16-bit checksums. Nothing of it is reduced but the
  number of seeds and sizes.
* `CoreMain` does not run the workloads again. It divides the memory as `main` does, by address,
  and knows of a run how long an iteration takes and which algorithms of which
  context end with a wrong checksum. The clock counts 100 ticks a second for 10^9. How many
  values the counter has belongs to the machine: 429 where the seeds are in variables, which is 4.29
  seconds as on the bare-metal port (10^9 ticks a second, `core_portme.c` 115 and 123, in an `unsigned
  long` of 32 bits, `core_portme.h` 74-75), and 12000, more than any run takes, with the linux port's
  seeds. The products of `parseval` are not cut to 32 bits: the words of the model stay below.
* In `ForkContexts` and `SocketContexts` the contents of a segment or a datagram is the
  context whose checksums it holds. A run is subject to one of `FaultSets`, so that the
  runs without faults are runs of the same specification. In `SocketContexts` a `socket` or a
  `sendto` that fails in the child sends nothing, like a datagram that is lost. In the parent nothing looks at
  what `socket` returns: `recvfrom` of no socket fails. One that has a socket but is not bound waits.
* In `Printf` a text is a sequence of characters, `int` and `long` have `Bits` bits, and
  a double is a number of 64ths: `cvt` computes on those exactly, but for its division
  by ten, whose rounding the code's own `.03` takes back. `ee_vsprintf` passes no
  conversion but `f` to `flt`, so the branches for `e` and `g` cannot be reached.
  mp4's build does not include this file.
* `ExecutionTable` has the log of `comp3.c` with the bytes of each message joined into its
  fields; time and symbol are not read by the program.

## 3. What TLC checks

| Run | Bounds | States | Shows |
|---|---|---|---|
| `LineTransfer` | 2 lines, 4 beats (as in the code), delays 1 and 3, two payloads that are rotations of each other | 33 k | `NoBurstError`: the memory's assertions hold. `BeatsInStep`: the count is one behind the beat. `LineIntact`: a line that crosses the bus arrives whole, in order, at its address. `RequestAnswered`. `ImplementsLineMemory` |
| `CachedMemory` | 2 sets, 3 tags for 2 ways, 2 beats, loads of all lines, partial and full stores | 8.3 k | `OneWayPerLine`, `CleanLineIsMemory`, `DirtyIsValid`, `VictimSavedBeforeRefill`, `RefillThenHit`, `RecentlyUsedStay`; `ImplementsAtomicMemory`, safety and liveness |
| `MemorySystem` | one set per cache; three code lines, three data lines, two of them stored into; delay 1; 2 beats | 71 k | `ResponseToOwner`, `RequestHeld`, `FetchIntact`, `FetchBypassedTwice`: the shared port. `PipelineMovesOn`: no stall for good. `DataPortIsAtomic`: the refinement, safety, through cache, arbiter, adaptor and bursts |
| `Pipeline` | 325 looping programs of 4 instructions, 2-bit words, 3 registers, 2 target entries | 85 k | `ImplementsSequential`: what is retired is the sequential program, safety. `KeepsExecuting`: it goes on. `OperandsAreArchitectural`; `BranchTargetsRight` and `DuplicatesAgree` on the target buffer; `NoBubbleBehindJump` |
| `PipelineCsr` | one program | | violation, section 4 |
| `CoreMark` | three of the five known runs (400 and 666 bytes); seven small configurations with 2 or 3 iterations; seeds -24 to 24 on 160 bytes, twice | 3.5 k | `ListIntact`: no cell is lost and the undo is exact. `Restored`: after every round the list, the input of the state machine and the matrices are what they were before the first. `SortStable`. `Validated`: the published checksums |
| `CoreMain` | all words of up to two of `- 0 1 a x K M`, longer ones, the known runs, selections of algorithms on 52 sizes of memory, two contexts; seven machines with a wide counter; three with one that turns every 4.29 s, and 18 builds for them | 124 k | `SeededAsAsked`, `BlocksApart`, `VerdictRight`, `Conclusive` |
| `CoreMainTurn` | the same | | violation, section 4 |
| `ForkContexts` | 3 contexts; no faults; failing forks and segments with kills; failing forks with stops | 173 k | `FreshResults`: never an earlier run's checksums. `MainEnds`: main comes out of its loops unless a stopped child was taken by another context's wait. `ImplementsParallelContexts` |
| `SocketContexts` | 3 contexts; no faults; failing forks and sockets with lost datagrams; failing binds with kills and stops; failing receives with lost datagrams | 15 k | `EndsIffAllHeard`: main hangs exactly when a datagram is not coming and recvfrom does not fail. `ImplementsParallelContexts` |
| `TestPrograms` | the three programs as they are | 1.6 k | `ComputesRight`: the kernels, the multiples and divisors, the counters, at each step. `Passes` |
| `Printf` | every set of flags, three widths and four precisions, the conversions of section 2, a second conversion behind each, formats that end within a conversion | 139 k | `Formats`: read back, the text gives the argument, and the field is as wide as asked; nothing of a conversion shows in the next |

Why the bounds are enough. Three lines for two ways is the least that evicts, and
makes every order of hits, clean misses and dirty misses happen. Sets do not
interact, and two show that none is written through another's index. Rotated
payloads make a beat taken early, late or twice visible. A delay of 1 is the
hardest one for the adaptor (the response comes at once), 3 has edges that are
neither the first nor the last. In the composed runs two beats keep the bursts
short; the lengths are covered by `LineTransfer` at 4 and by the proofs at any.
A program of four instructions in a loop is as long as the pipeline behind IF is
deep: every pair of the classes in its two free words meets at distances one to
four, directly, across the taken branch or jump that closes the loop, and with each
prediction of it. Two registers besides x0 give two writers of one operand in
flight; two target entries give duplicates and evictions.

`CoreMark` is deterministic once its seeds are chosen; what varies with them is which
items call which workload, where the removed cell and the reversal are, and which
patterns the state machine reads. The 49 seeds of the sweep and the 10 other
configurations have lists of 5 to 31 cells, with and without ties, found and
not found items; in one the second seed is not the first, and in one the corruption makes a
comma, so that the conditions of `Restored` fail where they should. Two iterations are enough to show what one leaves behind, as the caches
are full after the first. The two published runs with 2000 bytes per algorithm take
TLC too long: their checksums are not checked. In `CoreMain` the sizes of the memory cover all remainders by 4 and 8
and several dimensions of the matrices, on both sides of each change; the machines
need one round of calibration or more and start at different alignments and with
32- and 64-bit types; of those whose counter turns every 4.29 s one finishes its search within a
turn, one outlasts it with a round, and one takes longer than a turn for ten iterations. Three contexts are the least where a
failed fork can take the child of an earlier one, and of a later one. `Printf` has 16-bit
integers, of which zero, the least and negative ones are among the arguments; the
digits of 32 bits differ in number only.

Fairness. The clock ticks: `WF_vars(Next)` where a step is one edge of everything.
`Pipeline` assumes edges at which both caches answer, `WF_vars(Edge(TRUE, TRUE))`,
which is what `PipelineMovesOn` shows of the memory system.
`CachedMemory` also assumes that the memory side starts a request it could start
again and again, and finishes it: for the real memory side `LineTransfer` shows
the second (`RequestAnswered`) and `MemorySystem` the first
(`FetchBypassedTwice`, `PipelineMovesOn`). `ParamMemory` needs no fairness of its
own, because its delay counts down. In the two models of contexts the parent and each child that
is not stopped get to run, `WF_vars(Parent)` and `WF_vars(Child(k))`: what a
scheduler gives processes; faults have no fairness. The sequential programs just run,
`WF_vars(Next)`.

Deadlock is not looked for where a program ends or is meant to hang: in the models of C
programs, whose last state has no successor. `MainEnds`, `EndsIffAllHeard`, `Conclusive` and
`Passes` say instead that they get to it.

Where the refinement of `Pipeline` puts an instruction's commitment: at the edge
that moves it from EX to MEM, since nothing can throw it away after that. The mapped
registers are the file with the results in WB and MEM written into it, the mapped
memory has the store in MEM done, and the mapped program counter is the next
instruction's: the redirect, if MEM asks for one, else the oldest instruction
behind MEM.

Two things the runs taught about the design. The two caches always start their
misses in the same cycle, because the stall is common: the data cache never raises
a miss while a fetch is under way, so the arbiter's states matter only for the
order after such a double miss. And the fetch is bypassed by at most two transfers
because the data cache has to pass through `check_cache` after its refill: the
arbiter is at rest in that cycle and lets the instruction cache in.

## 4. Findings

`PipelineCsr`: `hazard_detection.sv` 31 inserts a bubble behind `op_load` only, but
`control_rom.sv` 159-168 gives `op_csr` the read data of memory as its result too. The
instruction right behind an `rdcycle` is forwarded the address in MEM, not what
`rdcycle` writes a cycle later.

`CoreMainTurn`: the bare-metal port counts 10^9 ticks a second (`core_portme.c` 115, 123, 126) in 32 bits,
so its clock turns every 4.29 seconds, and a run of ten seconds or more never reads as one: `core_main.c` 298
takes it for a short one and line 300 counts an error. "Use lower values to increase resolution, but
make sure that overflow does not occur", says `core_portme.c` 80 of the divisor 1. In the run a machine needs 12 seconds and
is told "Must execute for at least 10 secs". The port's `ee_printf` prints nothing, so on mp4
what is wrong is the count. `VerdictRight` and `Conclusive` say what still holds: nothing
false is validated, and a search that did not outlast the counter found the right number. mp4's own build sets ITERATIONS
to 1 (`build-coremark.sh` 13) and does not search.

Seen while modelling, and where a property is concerned excluded from it by name:

* `core_main.c` 261: `total_errors` starts from -1 for unknown seeds, and line 300
  adds to it. A short run of unknown seeds has 0 errors and is reported as validated.
  `VerdictRight` speaks of the known runs.
* `core_list_join.c`: the order of the list comes back only if no two items have one
  `idx`, which is up to the seeds (`UniqueIdx` in `Restored`).
* `core_state.c` 88: "undo corruption is seed1 and seed2 are equal" is not enough. A character that the
  corruption turns into a comma is passed over by the loop that repairs: with seeds 1 and 1 a '-' stays a ','.
  `Restored` compares the input of the state machine, byte by byte, and the matrices with what they were initialised to; it
  speaks of inputs that can be repaired (`Undoable`), which those of the published runs that are checked are.
* `core_matrix.c` 197: a block that the matrices fill, at an address that is not aligned, ends
  beyond itself (`Tight` in `BlocksApart`).
* `core_list_join.c` 214: a block of less than 60 bytes has no cell for the list's head, and one of
  less than 40 a number of cells that wraps (`Roomy` in `BlocksApart`).
* `calc_func` runs the matrix and the state benchmark whatever `execs` selects.
* The linux port reads the results of a child that is only stopped, because of
  WUNTRACED, and after a failed fork waits for pid -1, which is any child: the results of the
  context that child belonged to are lost. If there is no child left, waitpid returns -1, which is the pid it is
  compared with, and main copies what the segment holds (`linux/core_portme.c` 272-285). `FreshResults` is about children
  that exited, in runs where fork did not fail. A child that was stopped and so returned to
  a wait for any is waited for again when its own context's turn comes, and then main blocks until somebody
  lets it go on: `StopTaken`, the exception in `MainEnds`.
* The cygwin port forks the child before it binds the port: a child that is faster than its
  parent sends to nobody, and main waits for ever. `EndsIffAllHeard` states exactly this.
* When recvfrom fails, as it does after a failed `socket` that nobody looked at, the cygwin port goes on to the next
  context without the checksums and without waiting for the child, which may still run
  (`cygwin/core_portme.c` 310, 320-323): `ReceiveOfNone` and `ReceiveBroken`, which `ImplementsParallelContexts` excepts,
  and the second disjunct of `OwnChecksums`.
* `hazard_detection.sv` 29 takes rs2 as used by `op_jalr`, where these bits are
  immediate. A jalr behind a load of the register with that number waits for a cycle it need not, although
  `src/mp4/README.rst` 324 asks for no stall "when an instruction does not use one of the source registers"; the result
  is right.
* `comp3.c` 701 joins the two halves of the message type by `&&`: a message with one half
  right counts as an execution. The log has one, "Np" in line 536, but `main` reads no message
  behind the 438th and this is the 472nd, so no counter can tell.

## 5. What is proved

The theorems on the memory side hold for every set of lines, tags, sets and words, every number of
beats greater than one and every set of delays (the `ASSUME`s of `LineTypes`,
`ParamMemory`, `Cache`, `CachedMemory`, `LineTransfer`, `MemorySystem`); those on the
pipeline for every set of programs, every word width, number of registers and number of
target entries (the `ASSUME`s of `Instructions` and `BranchTargetBuffer`); those on contexts
for any number of them and any set of faults (`ForkAssumption`, `SocketAssumption`); those on CoreMark's
`main` for every set of command lines, builds and machines, every number of contexts, clock rate and
counter range (the `ASSUME`s of `CoreMain`).
Some of these assumptions say more than what kind of thing a constant is: `ProgramAssumption`
keeps branches off address 0, `ResetValues` and `ResetAssumption` say that what the arrays
are reset to exists, and `PortAssumption` that no store goes into a line that is fetched
from. Section 2 says why. `CommandLineAssumption` says that a word is a sequence of characters, and
that nobody asks for less than no iterations: the code would take them for a number near
2^32. That `parseval` makes a number of every word is `ParsevalTypes`: its loop is a function over
the digits (`ReadDigits`), and the least number of digits for which there were no such function, or
no number as its value, would follow from the one before it (`LeastOf`).

`LineTransferProofs`. `NoBurstError` is not inductive: that the request is steady
at an edge depends on the adaptor not having counted to the end, hence on the two
counters. `TransferInv` adds, for each state of the adaptor, where the memory can be
(`InStep`), that both work on the same operation and address (`SameTransfer`), what
the buffer holds after *count* beats (`BeatsSent`), and that the client still asks
for it (`ForTheClient`). From it: `BurstsAreClean`, `CountersAgree`,
`LinesAreIntact`, `ResponsesMatch`, `NoOtherLine`, and `TransferRefinesLineMemory`,
in which a write counts as done when it is accepted: the mapped memory shows the
buffered line while the burst goes on. `AnsweredInTime` counts the edges of a transfer; see
"How long things take" below.

`CachedMemoryProofs`. `CacheInv` joins the three invariants on the arrays with
`MissPending` (away from `check_cache` the same request is there, still a miss but
for the way being filled) and `PortFollows` (what the memory port does is what the
controller waits for, and the victim's line in memory is the way's once the write
is accepted). The dirty bit is cleared before memory has the line, and a way claims
its new tag before it has the data; both show in the exceptions (`Evicting`,
`Refilling`) without which the invariants are false. From it: `NoDuplicateLine`,
`CleanCanBeDropped`, `NoStrayDirtyBit`, `VictimIsSaved`, `RefillServes`, and
`CacheRefinesAtomicMemory`: with `View`, the memory the program sees, every edge
is a stutter of the atomic memory, or the one step that answers a request
(`ViewMoves`: only an answered store changes `View`).

`ReplacementProofs`. `TrueLru` is about what happened several requests ago, which no register of
the cache holds, so its invariant ties the history to the arrays. `LruIsHistory`: the line a set
served last is in the way its LRU bit does not name, and the one before is in the way it does name, but
for the time of a miss on a third line. What keeps it through a miss is `MissPending`: the
request does not change until the refill, so the way that is refilled is the one the bit named when the
miss began.

`MemorySystemProofs` has two parts. The first is about control. That the arbiter may pass a
request on in the cycle it sees it
needs the adaptor to be idle whenever the arbiter rests (`RestIffIdle`), which needs
the owner to wait until it is answered (`OwnerWaits`), which needs the instruction
cache never to write back (`FetchesOnly`: its lines are never dirty). These and
`BypassBounded`, which ties the number of times a fetch was passed over to where the data cache
is, make `ControlInv`, inductive without a word about the lines' contents. From
it: `RestMeansIdle`, `FetchHasItsTurn`, and `PortIsHeld`, which is the assumption that
`LineTransfer` makes of its client.

The second part composes: what was proved of the parts is not proved again, the parts are shown to
be there. Each step is a refinement whose target is a specification with theorems of its own,
and those theorems then hold of the whole.

1. `ArbiterIsAClient`: the system implements `LineTransfer` (`LT`), the client being what the caches and
   the arbiter put on the port. This is `PortIsHeld` at work, and gives `TransfersAreSafe`.
2. `StoresMissFetches`: a dirty way of the data cache never has a fetched line's tag
   (`OnlyStoredDirty`). This is where the assumption on programs enters; it has to cover the
   refill of a store miss, in which the tag is written before the dirty bit is.
3. `DataSideIsCachedMemory`, `FetchSideIsCachedMemory`: either cache, with everything beyond its port as
   its memory, is a `CachedMemory` (`DM`, `IM`). The memory it sees is the lines with the
   buffered write of a burst in progress put in (`MemoryView`); the instruction cache's shows the
   lines that are fetched from only (`FetchMemory`), since the write-backs of the other cache change
   the rest. The other cache's transfers are cycles in which the request is deferred,
   and what passes in the line buffer meanwhile is the garbage `LineMemory` allows on the bus.
   Hence `CachesAreSafe`.
4. From `PortFollows` of both caches: `ResponsesReachTheOwner`. From `CleanLineIsMemory` of the
   instruction cache: `FetchesAreIntact`. From `CacheRefinesAtomicMemory` of the data cache:
   `DataPortAtomic`, the refinement from the processor's data port down to the beats of a burst.

`PipelineProofs`. None of the properties checked is inductive. `PipelineInv` has

* `PathInOrder`: the stages hold instructions of one path, each where its predecessor's
  prediction leads (`Follows`), a bubble predicts nothing, and behind the instruction in MEM there is
  a bubble only if that is a load, so that a redirect always finds the instruction it compares with;
* `OperandsHeld`: what ID read is what the register file holds, unless WB writes that register at this edge,
  and no load in MEM has its result needed in EX;
* `MissStands`: an instruction that missed in the target buffer when it was fetched misses still
  in every later stage, until one of its own kind allocates. Without it two entries
  could be allocated for one branch with two targets;
* `BranchTargetsRight`, `DuplicatesAgree`, and `NeverDrained`: some stage is live, or the
  first instruction is being fetched, so that the mapped program counter means something.

`TypeCorrect`, `PipelineSafe`, `TargetsRight`, `EntriesAgree`, `JumpIsFollowed` and `SomethingInFlight`
hold of all programs. `OperandsRight`, `PipelineRefinesSequential` and `CommitsKeepComing` assume that no
program reads the cycle counter (`CounterUnread`): with an `rdcycle` the first two are false, which is the
first finding of section 4. The refinement goes by what an edge does: a stall, a flush and a bubble
change nothing the sequential machine sees (`StalledEdge`, `FlushEdge`, `BubbleEdge`), and an edge that
moves an instruction from EX to MEM is its step (`CommitEdge`). The two lemmas it
rests on are `ForwardedAreArchitectural`, that forwarding yields the registers with everything in flight
written, and `SuccessorOfMem`, that the redirect corrects exactly the wrong predictions. The entry of the target
buffer that answers is the last that matches, as in the code's loop; that there is one is by
well-foundedness (`LastMatch`).

`ForkContextsProofs`. `FreshResults` follows from `Written` (a child that exited left its
checksums in its segment) at the moment the parent reads, if the child has exited by
then: `AtRest` says that a child that was waited for runs no more, and `PassedWaited`
that without a failed fork nobody else was waited for in its place. `InOrder` ties the
parent's loop to the children that exist. `FaultlessImplements` adds `Faultless`: with no
faults both sides have the segment, so every step is one of `ParallelContexts` or a stutter.

`SocketContextsProofs`. A port gets its own context's datagram only (`OwnDatagrams`), so what is
received is right whatever was lost; and main has something of a context, its checksums or its child's
end, only from the moment it was at it (`InTurn`). So a context is passed with both or with neither (`OwnChecksums`), and
the latter only where its socket was not made or recvfrom may fail: `GathersOwnChecksums`. `ImplementsSafety` is the refinement, in which
the steps of a failing recvfrom are named apart. `SilentForGood` is the second half of `EndsIffAllHeard`,
for runs in which recvfrom of a socket does not fail.

`CoreMainProofs`. `MainInv` has four parts, each about one thing `main` relies on and none of them
about the workloads.

* `Divided`: the size is the share of the whole. The rest of `BlocksAreApart` is arithmetic: the places
  of the selected algorithms are different and below their number (`Places`), blocks of one size at
  different places do not meet (`SideBySide`), and each workload stays in its block
  (`ExtentInBlock`: 16 bytes and four of data a cell are enough for both kinds of pointers, and the
  dimension that `core_init_matrix` looks for exists and fits, `DimensionFits`).
* `ClockTells`: two readings of the counter tell the time if it was less than a turn
  (`AcrossTheWrap`), and never more than the time.
* `Calibrated`: up to a turn of the counter a round takes ten times as long as the last, so none is as long as 45 seconds;
  the last took a second or more, and the number of iterations is what 1+10/divisor makes of it.
  `ElevenSecondsOrMore` says what that is worth: 11 to 50 seconds for any length of
  the last round, in spite of both divisions rounding down. With a run proper that is a twelfth
  faster or half as fast this is `RunsTenToHundredSecs`, the comment's 10 to 100 seconds, for every counter: what
  it asks for is that the round the number was found from did not outlast it. With the bare-metal port's counter these are
  the rounds of less than 4.29 seconds; a longer one reads as a shorter, and the number found from it is wrong.
* `Counted`: from identification to report `total_errors` is the number of wrong checksums and types.
  From it: `VerdictIsHonest`. Since the clock never tells more than the time, a run is not validated that was too short,
  however often the counter turned; that a right run of ten seconds is validated needs a counter that did not
  turn, as the finding in section 4 demands.

For seeds that are not known the count starts from -1, and no property can say what is right there.
`UnknownSeedsVerdict` says what happens: with `CountedFromMinusOne` the verdict is "cannot validate"
only if the data types are right and the run took ten seconds, "validated" if exactly one of these is
wrong, and errors if more are; it is never a score.

### How long things take

The proof system cannot reason about fairness. What carries the liveness properties can be
proved all the same: a number with a bound, that is 0 exactly where the good thing has happened,
and that every step in between brings down. What is left to the model checker is that a clock that
ticks, or a process that gets to run, brings such a number to its end. For the hardware
this says more than the property does, since it comes with a number of cycles. *d* is a bound on the delays
of the memory.

| theorem | for | the number | what it says |
|---|---|---|---|
| `AnsweredInTime` | `RequestAnswered` | `EdgesLeft(d)` | a request is answered within BURST_LEN + *d* + 2 edges: one to take it, one for the memory to see it, the delay and the beats |
| `StallIsShort` | `PipelineMovesOn` | `StallLeft(d)` | a stall ends within 3 (BURST_LEN + *d* + 3) + 1 edges: at most three transfers, a refill of the fetch, a write-back and a refill of the data |
| `CommitsKeepComing` | `KeepsExecuting` | `EdgesToCommit` | of four edges without a stall one at least is a step of the sequential machine |
| `MainComesOut` | `MainEnds` | `StepsOfMain`, `StepsOfChild` | main blocks only while a child runs, or for good when a failed fork had it take another context's stopped child |
| `StuckOnlyInSilence` | `EndsIffAllHeard`, first half | the same | main blocks only while the child of its context runs, or for a datagram that will not arrive |
| `SearchEnds` | `Conclusive`, first half | `StepsLeft` | the search for the number of iterations ends, and main comes to its verdict or to the trap, while no round outlasts the counter |

* A transfer. `DelayRuns` says that the memory's wait is never longer than the delay it was set to. With it and
  `TransferInv` each state of the adaptor and the memory has its number of edges to go
  (`EdgesLeft`), and `EdgeIsProgress` is one case per state.
* A stall. `FetchTransfers` and `DataTransfers` are the transfers either cache still owes, and `StallOwesTransfer`
  says that the pipeline stalls just as long as there is one. The adaptor always works on one of
  them (`GrantedAsks`), so either its edges get fewer or, at a response, the transfers do. There is one edge more for a
  miss that has not been seen yet. Which cache goes first does not matter to the sum, so the bound holds
  whatever the arbiter does, and it is why no fairness of the arbiter is needed.
* The pipeline. A redirect costs the three instructions behind it and a load-use bubble one.
  `BubbleNextIsQuiet` says that a bubble in MEM never redirects, so no flush follows a flush without
  an instruction in between.
* The contexts. The steps of main and of each child are counted apart and a step raises none of
  them (`Nearer`), so nothing has to be added up over the children. `NobodyStuck` finds whom main waits for: that is `InOrder` for
  forked children, and over sockets `Heard`, that only a child that came to its `sendto` was heard of.
* The search. An iteration takes at least a tick and the search starts from one (`Searching`), so every round that is
  not the last is longer than the one before and yet shorter than a second (`Calibrated`), up to a round
  that outlasts the counter and reads as less than a second. `Steady` says so. If an iteration took no time at all, or
  every round read as less than a second, the loop would not end.

Every safety property of the hardware that a passing run checks is a theorem. Only model-checked are

* liveness, the step from a number that gets smaller to its end, under the fairness of section 3:
  `RequestAnswered`, `PipelineMovesOn`, `KeepsExecuting`, `MainEnds`, the first half of `EndsIffAllHeard` and that of
  `Conclusive` (whose second half is `RunsTenToHundredSecs`), and the
  liveness of `ImplementsLineMemory` and `ImplementsAtomicMemory`;
* that main's call does not block where `ParentReady` says so: this is `ENABLED`, and the definition is read off
  the guards;
* of `main`: `SeededAsAsked`, which is about the value that `parseval` computes, a fold over the word,
  and that a run is taken
  for a known one only if it has its seeds (`KnownAsSaid` in `VerdictRight`). That is no law: seeds are
  identified by a checksum of 16 bits, so others share it, and the claim is about the seeds checked;
* CoreMark's workloads, printing and the competition programs (`CoreMark`, `Printf`,
  `TestPrograms`, with the liveness of the last, `Passes`). They fold and recurse over lists, strings
  and memories, and what that computes needs induction over data. The library's induction theorems
  take an operator as a parameter, which the provers used here cannot instantiate; the least
  counterexample, which serves for the single index of `parseval`, is no help with `RECURSIVE`
  operators. For these modules the runs are the evidence. The competition programs have no input, so their run covers all there is.

## 6. What is not modelled

* The page number in the memory's delay, reset in mid-run, the performance counters, and
  what the monitors log.
* Byte lanes of loads and stores, shifts and the other ALU functions (`alu.sv`,
  `rd_data_decoder.sv`): combinational, and independent of the stalls, the forwarding and the
  flushes `Pipeline` is about. Addresses are words there, so bit 0 of a jalr target, which
  `datapath.sv` 436 does not clear, is outside the model.
* The pseudo-LRU tree and the direction predictors, wired in or not: `Pipeline` leaves both
  choices free, so no result depends on them, and what they are for is speed.
* The CSR counter, a number that is displayed.
* Code that is stored into: the caches do not snoop each other, and the programs do not do it.
* The designs of mp0 to mp3 and the spare cache in `given_cache`: none is part of mp4. Their
  write-back protocol and burst adaptor are those of mp4 in an earlier form.
* CoreMark's pthread variant (the library does what `ParallelContexts` says), the ports that are
  copies of the modelled ones (`linux64`, `simple`, `barebones`), seeds from a function, which no
  port uses, debug output, and the wording of the report.
* `encoding.h` and `util.h`: constants and macros of the instruction set; `startup.s`.
* The size of `ee_printf`'s buffer, 256 characters: the code does not look at it, and the texts of
  the model are short.
* Assembly tests, scripts, logs, generated files, synthesis and timing.
