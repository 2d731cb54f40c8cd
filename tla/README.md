# A TLA+ verification project for the NPC computer

The repository is a small RISC-V computer built from the ground up: an RV32E
core in Verilog (`npc/rtl`), a C++ simulator for it (`npc/csrc`), the NEMU
instruction-set simulator used as its reference (`nemu`), a bare-metal runtime
(`abstract-machine`) and a port of RT-Thread (`rt-thread-am`).  This directory
specifies and checks that system from its centre outwards: the pipeline with
its instruction cache and its bus, and that together they implement the
instruction set; then the tools around the core that judge it (the simulator with
its commit history, stop conditions and breakpoints, and the MMIO replay of the
differential test), the software directly above it (timer and context switch),
and the kernel that runs on top (scheduler, timers, IPC and mutexes of
RT-Thread).

## 1. Inventory

| Component | State | Operations | Talks to |
|---|---|---|---|
| Pipeline `core/Core.v` | three stage boundaries (F/D, D/X, X/W), fetch pc, `ifu_pending`, `drop_fetch_response`, `halted` | one clock edge: fetch, decode, execute, retire, redirect, trap, halt | every unit below, by wires |
| Fetch unit `core/Ifu.v` | two cache lines (valid, tag, words), miss and refill registers | hit, miss, refill beat, last beat, `fence.i` invalidation | pipeline, arbiter |
| Decoder `core/Idu.v` | none | control signals of a word | D stage |
| ALU `core/Exu.v` | none | result, comparison | X stage |
| Load/store unit `core/Lsu.v` | none | lanes, sign extension, request | W stage, CLINT, arbiter |
| CSR file `core/Csr.v` | `mtvec`, `mepc`, `mcause` | read in X, write in W, trap entry | X and W share one port |
| Register file `core/RegFile.v` | 15 registers | two reads in D, a write in W | D and W |
| CLINT `core/Clint.v` | `mtime` | counts, answers loads in the same cycle | W stage |
| Arbiter `bus/AxiArbiter.v` | none (no owner register) | gives the bus to the LSU, else to the IFU | LSU, IFU, master |
| Master `bus/AxiMaster.v` | transaction state machine, beat count, error | AR, R burst; AW and W in any order, B | arbiter, AXI |
| Slave `bus/LocalAxiSlave.v` | read beat, write halves, memory | one transaction at a time | AXI |
| Simulated memory and UART `npc/csrc/memory.cpp` | bytes, UART text, MMIO record | DPI read, write, MMIO | slave, simulator |
| Simulator `npc/csrc/main.cpp`, `soc_main.cpp` | cycle and retire counts, commit ring, breakpoints, pending MMIO read | step, run, break, dump | core, memory, difftest |
| Differential test `npc/csrc/difftest.cpp`, `nemu/src/cpu/difftest/ref.c`, `nemu/src/device/npc-dev.c` | reference CPU, MMIO replay record | step and compare a commit | simulator, NEMU |
| NEMU `nemu/src` | CPU state, memory, run state | execute, stop, devices | difftest, monitor |
| AM runtime `abstract-machine/am/src/riscv` | trap handler, boot time | context create and switch, timer, output | core |
| RT-Thread port `rt-thread-am/bsp/abstract-machine` | `switch_from`, `switch_to`, `sp` of a thread | create, start, switch, end a thread | AM |
| RT-Thread scheduler `rt-thread-am/src/scheduler_up.c` | current thread, ready lists, bitmap, lock nesting | schedule, insert, remove, lock | threads, IPC, port |
| RT-Thread threads, timers, tick `thread.c`, `timer.c`, `clock.c`, `idle.c` | state, priority, time slice, error and timer of a thread, defunct list | start, yield, sleep, suspend, resume, exit, delete, priority change, tick, timeout | scheduler |
| RT-Thread IPC `ipc.c`, `mempool.c` | counts, event set, mail ring, message slots, block list, owner and hold count, wait lists | take, release, send, receive, urgent, reset, ceiling | scheduler, timers |
| klib | heap pointer | allocation, formatting | applications |

What is hard in it, and what a test hardly reaches:

* The pipeline has no hazard check against X.  It is right only because of the
  fetch timing, over all mixes of hits, refills, bus stalls and redirects.
* A redirect may find a fetch outstanding whose answer must be thrown away
  later, once.
* The arbiter has no owner register; a burst and a store must never overlap.
* A store sits in W while its write is on the bus, for any number of cycles,
  and must be performed exactly once.
* A refill can race `fence.i`, can fail half way, and hands on its last word
  before it is stored.
* Traps must be precise: of several conditions the first counts, and nothing of
  the instruction or of the younger ones remains.
* In the simulator a replay record must meet its instruction, also after a
  mismatch.
* A 64-bit timer is read as two words while it runs.
* A thread is resumed any number of switches after it left, from a Context on
  its own stack that is found through two globals and a pointer.
* Verdicts of the simulator are formed by flags that stay set, by a reference that
  may have ended, and by scripts that reset some of the state and go on.
* A kernel call is several sections with interrupts disabled.  Between them, and
  before the thread really stops in `rt_schedule`, ticks, timeouts, handlers and
  other threads run.  A wait list, the timer list, the ready lists and the state
  of a thread must agree through all of it, a timeout races the wake-up of the
  same thread, a state is checked before interrupts are disabled, and priorities travel along chains of mutex owners.

`PROJECT.json` lists these as hazards, each at its line, with the properties
that watch it.

## 2. Modules

| Module | Models |
|---|---|
| `NpcDefs` | words and addresses, decoded instructions, the control predicates of `Idu.v`, CSR and register-file operations, CLINT reads |
| `Ifu` | `Ifu.v`: cache and refill state machine |
| `AxiBus` | `AxiArbiter.v`, `AxiMaster.v` and the slave |
| `Core` | `Core.v`: the pipeline, composed with `Ifu` and `AxiBus`; `Spec`, `FairSpec` and the control invariants |
| `Isa` | the abstract specification: one instruction at a time, precise traps |
| `CoreIsa` | `Core` with the history variable `fetchable`; the refinement mapping to `Isa`, the cache properties, liveness and the commit outputs |
| `MCCore` | the instances TLC checks |
| `CoreProofs` | the theorems about `Core` and about its refinement of `Isa` |
| `CommitRing` | the history of retired instructions: `CommitRing` of `main.cpp` and the same ring in `nemu/src/utils/state.c` |
| `UartExpect` | the matcher behind `--uart-expect` in `memory.cpp` and the stop conditions of `main.cpp` |
| `MmioReplay`, `MCMmioReplay`, `MmioReplayProofs` | device accesses in the differential test: the lanes of `Lsu.v`, the records made by `main.cpp` and by `soc_main.cpp`, and their use in `npc-dev.c` |
| `MtimeRead`, `MtimeReadProofs` | `read_mtime` and its callers in AM's `timer.c`, against the running timer of `Clint.v` |
| `ContextSwitch`, `ContextSwitchProofs` | `trap.S` and `cte.c` of AM and `context.c` of RT-Thread |
| `Simulator`, `MCSimulator`, `SimulatorProofs` | the simulator of `main.cpp`, composed of `CommitRing` and `UartExpect`, with a core and a reference that may do anything: step loop, stop conditions, comparison, breakpoints, commands, both builds |
| `RtSched` | `scheduler_up.c`, `timer.c`, `clock.c`, `thread.c`: sections of kernel code as operators on a kernel state |
| `RtIpc` | semaphores, events, mailboxes, message queues (`ipc.c`) and memory pools (`mempool.c`) |
| `RtMutex` | mutexes with priority inheritance and ceilings (`ipc.c`), deletion of a thread |
| `RtKernel` | threads and interrupts that call them: every call as the steps it has between two sections |
| `MsgQueue` | the abstract specification of a mailbox and of a message queue: a bounded queue with urgent items |
| `RtProps`, `MCRtKernel` | the properties of the kernel, the refinement mappings to `MsgQueue`, and the loads TLC checks |
| `FoldFacts`, `RtProofs`, `RtIpcProofs` | the theorems about the kernel: facts about folds; lists, scheduler, timers, sections, calls, tick, semaphore units, boot and the steps of the specification; what the mailbox, the message queue and the pool hold, and wake-ups |
| `Coroutines` | the abstract specification of `ContextSwitch`: every thread has registers and a stack of its own |

The design is synchronous, so one action, `Clock(go)`, is one rising edge: the
conjunction of all `always` blocks, each named after its block
(`PendingClock`, `FetchClock`, `DxClock`, ...), reading wires that keep their
Verilog names (`w_retire_ready`, `x_redirect`, `d_can_advance`, ...).  A stage
boundary is a record with its valid bit.  The data registers behind a cleared
valid bit are not read, so an empty boundary is the single value `Bubble`, and
the registers of an idle master or an idle fetch unit are normalised likewise.

`go` is the set of AXI channels on which the slave may make progress in this
cycle.  With `GoSets = {Channels}` the slave is `LocalAxiSlave.v`, which never
stalls.  With more sets it stands for the SoC interconnect (a submodule that is
not in the repository), which may stall any channel for any time.

Abstractions of data: a word is a number modulo `Space`; what a word means as an
instruction is the table `Decode`; the ALU is addition and equality, which is
what addresses, branches and the data flow through forwarding need; memory
accesses are word accesses; the four CSRs are three writable ones and one that
reads zero.  Reset is the initial state.  Nothing of the control is left out
except the performance counters.

`Isa` allows a fetch to return any value the address has had since the last
`fence.i`: RISC-V orders fetches with stores only by that instruction.  The
mapping takes effect of a store at the write in the slave (`StorePerformed`),
which is before the store retires; everything else happens at retirement.

In `MmioReplay` a word is four bytes of three values that differ in being zero
and in their sign, so lanes, masks and sign extension are real; `Commit` picks
the access of the core and the one of the reference, `step` is
`Difftest::step`.  In `MtimeRead` every load of the loop takes any time up to
`Delay`.  In `ContextSwitch` an address is a stack and a slot, and a slot holds
a word, a Context or the arguments of a thread; the trap entry, the handler and
the return are one action each, since nothing can interrupt them on npc, and
what they leave in registers they do not promise to keep is `Junk`.  The next
thread is any live one there; which one the scheduler picks is in `RtSched`.

In `Simulator` the core is the environment: in a cycle it retires nothing or any
instruction of the set-up, a trap may or may not have a vector, and the reference
retires the same instruction or another.  A retired instruction is told apart as
far as the loop does: a byte to the UART, an `ebreak`, another trap, or anything
else.  One `Iterate` is one iteration of the loop of `step`; `run_to` and
`run_until_reg` repeat it with their test in front.

In `RtSched` and its extensions a section of C code between
`rt_hw_interrupt_disable` and the matching enable is one operator from a kernel
state to the next, named after the C function, and `RtKernel` is the interleaving:
a thread enters a call, takes its sections one by one (`at` says where it is:
before `rt_schedule`, woken, copying, between the check, the unlink section and
the link section of `rt_thread_resume`), and only the thread that is current moves; ticks and
handlers come in between.  Lists are sequences, the bitmap is the set of its
bits, ticks of a timer count down, and a failed assertion, a NULL dereference or a
node linked twice sets `fault`.  The abstract-machine port has no tick
(`rt_tick_increase` is never called) and stops on a switch inside an interrupt;
the loads without interrupts are that port, the others the kernel on a machine
whose interrupts work.

## 3. Runs

The runs of the core use `MCCore`: words of seven bits, byte addresses, two cache
lines of two words, three registers, and a table of 31 instructions that has every
class of instruction and every way to trap.  A program sets up a trap vector, runs free
words and loops; the handler skips the trapping instruction.

| Run | Checks | Shows |
|---|---|---|
| `core_local` | `TypeOK`, `StagesApart`, `PendingIsRefill`, `HaltedIsEmpty`, `CacheCoherent`, `DeliversMemory`, `ImplementsIsa`, `CommitIsTrue` | with `LocalAxiSlave`, 2187 programs with all pairs of instructions followed by one of three, and 840 that run into fetch faults: the core implements `Isa`, its internal records stay consistent, and its commit outputs tell what happened |
| `core_soc` | `BurstInStep`, `RefillOwnsBus`, `LsuOwnsBus`, `ImplementsIsa`, `KeepsRetiring` | the same under arbitrary stalls, with and without a trap vector and with fetch faults; and the core never stops retiring |
| `icache_error` | `DeliversMemory`, violated | the first finding below |
| `commit_next_pc` | `CommitNextPcIsNext`, violated | the second finding below |
| `simulator` | `SimTypeOK`, `LastIsRecent`, `StopsOnlyAtText`, `FindsTextWithUniqueStart`, `VerdictIsEarned`, `BreakpointsHonoured`, `CommandEnds` | over all sequences of commands: the ring gives the latest events in order, the text is reported only if it was output and not missed if its first character does not recur in it, a good verdict has its reason in what was executed, a breakpoint stops every kind of run, and every command ends |
| `uart_missed` | `StopsAtText`, violated | the third finding below |
| `mtime_read` | `TimerTypeOK`, `ReadIsCurrent`, `OneRetry`, `UptimeMonotone` | a two-word read is a time between call and return, with at most one retry, and uptime does not go back |
| `replay` | `NeverAborts`, `AlarmIffDifferent` | for both simulators the test fails exactly when core and reference differ in a device access, and the assertion of the reference holds also after mismatches |
| `replay_local_uart` | `NoFalseAlarm`, violated | the fourth finding below |
| `context_switch` | `CtxTypeOK`, `WaitingResumable`, `NoAssertion`, `ImplementsCoroutines` | threads are coroutines: registers, stack and position survive all creations, switches and exits |
| `rt_kernel` | `RtTypeOK`, `ListsMatchStates`, `HighestRuns`, `NoKernelFault`, `SemUnitsConserved`, `NoLostWakeup`, `SlotsApart`, `MutexExclusion`, `PriorityInherited`, `MessagesInOrder` | ten loads of the kernel: lists and states agree between any two sections, the highest ready thread runs, no assertion fails, no unit, wake-up, slot, block or message is lost or doubled, mutexes exclude and hand on priorities, mailbox and message queue implement `MsgQueue` |
| `rt_yield` | `TakesTurns`, violated | the fifth finding below |

Why the bounds are enough.  The pipeline holds at most two instructions at a
time (`StagesApart`, proved for every size), so all interactions between
instructions involve two neighbours, and those are enumerated exhaustively in
`core_local`, with a third that reads a result, jumps or fences.  Two lines in
two sets with the program spread over six lines give hits, misses, conflicts
and self-modified code.  A line of two words has a first and a last beat; a
longer one only repeats the first.  Each of the stall sets freezes everything,
lets only addresses pass, or only write data, which yields every order of AW and
W and any number of cycles between them.  `mtime` counts modulo 1 in the run
without stalls and modulo 2 in the run with them: loads return its value, and
nothing else depends on it.

Fetch faults (`FaultPrograms`) are kept to lines of one set and memory to the
other, so that a failed refill never evicts a valid line: that case is finding 1.

The other runs.  `simulator` has four set-ups: output with resets, a reference,
debugging with breakpoints and every kind of run, and the build without debug
ports.  Three cycles and three retirements, over a ring of none or two slots, fill
and wrap it and leave room for a stop, a further command and another verdict;
two addresses and room for one breakpoint give a full table.  Texts have up to
two characters there, and up to three in `uart_missed`.  In `rt_kernel` three
threads and the idle thread are enough for a waiter, the one that wakes it and a
third that is preempted or overtakes, and for a chain of two owners over two
mutexes; a mailbox, a queue and a pool of two are empty, partly full, full and
wrapped; time slices are one tick and timeouts one or two, so a timeout can fall
before, with or after a wake-up.  A load picks one kind of object and the calls
around it, because objects share nothing but the scheduler:

| Load | Calls | Interrupts |
|---|---|---|
| `SemLoad` | take with and without timeout, release, reset, suspend, resume, priority order | tick, release |
| `EventLoad` | receive with every option, send, reset | send |
| `MailLoad` | send, receive, urgent, sleep | tick, send |
| `MailResetLoad` | send, receive, urgent, reset, receiver first | tick, send |
| `MsgLoad` | send, receive, urgent, reset, sleep | tick |
| `PoolLoad` | allocate, free | tick |
| `ThreadLoad` | sleep, suspend, resume of any thread, start, yield, exit, critical sections | tick |
| `CloseLoad` | deletion of any thread, with the rest | none |
| `MutexLoad` | take, release, suspend, resume | none |
| `CeilLoad` | the same with ceilings | none |

The mutex loads wait without a timeout, and they and `SemLoad` resume only
threads that suspended themselves, see "Limits of the kernel" below.  In
`ThreadLoad` one thread resumes, and its priority is the highest, and `CloseLoad`
has no tick, for the reasons given there too.  A call that may wait is made with the
scheduler unlocked (`MayBlock`, `MayWait`), as `RT_DEBUG_SCHEDULER_AVAILABLE` demands
of most of them; with timeout 0 the calls on mailboxes, message queues and pools are
made under the lock too.  Wherever an assumption is that narrow it is one of
the load, never of the model.  The low word of
the timer wraps after ten ticks and a load takes up to two, so the wrap falls
before, between and after the three loads of the loop and of its repetition.
The replay run has all pairs of accesses (load or store, three lengths, four
offsets, five words, three data words) one after the other; the only state that
survives a step is the record and the mismatch flag, so two steps reach
everything.  `AlarmIffDifferent` is stated for the accesses a record can
describe (`Handled`).  On ysyxSoC these are all but the words of the CLINT window
that hold no register, for which `npc-dev.c` (line 122) returns before it looks
at the record and the test fails; on the local slave, see finding 4.  The local
record of an instruction that makes no device access itself is that of a fetch from
the CLINT window (`main.cpp` lines 199 to 203 and 219 to 225), where no program can be;
this fallback is left out.  Two
threads with stacks of three slots have room for the arguments, one pushed word
and a Context, and a thread can be ended and created again.

Fairness.  `KeepsRetiring` is checked under weak fairness of `Clock(Channels)`:
the clock keeps ticking, and the slave does not stall a channel for ever.  The
first is how the simulator drives the core (`main.cpp`, one evaluation after
the other), the second is what AXI requires of a slave, and `LocalAxiSlave`
fulfils it in every cycle.  `CommandEnds` is checked under weak fairness of one
iteration of the loop: the simulator is a single thread.  `TakesTurns` is violated
under weak fairness of the running thread and of the tick.  The safety properties
need no fairness.  Deadlock is checked except where the program may end (the
simulator exits) or the run is bounded by its input (`MtimeRead`, `UartMissed`).

### Findings

1. **A failed refill corrupts a valid cache line** (`Ifu.v` line 186).  The
   words of a refill are written into the set as they arrive.  Only valid bit
   and tag wait for the end and are skipped on an error.  If a valid line was in
   the set it stays valid with the words of the failed refill, and the next
   fetch of it hits.  It takes a fetch from an address that answers with an
   error, in the set of a cached line, a trap handler, and a return to that line.
2. **`commit_next_pc` of a trapping jump** (`Core.v` line 440).  The redirect
   computed in X wins over the trap of the same instruction.  The event reports
   the misaligned target while the core goes on at `mtvec`, so a comparison with
   a reference that reports `mtvec` would fail.  `CommitIsTrue` states,
   and `core_local` checks, for which commits the output is right.  It also says
   that a reported access to memory has been performed; accesses that fault are
   reported too.

3. **`--uart-expect` misses a text** (`memory.cpp` line 196).  After a mismatch
   the matcher falls back to the first or second character only, so a text that
   overlaps a failed attempt at itself (`mms` in `mmms`) is missed and the run
   goes on.  `FindsTextWithUniqueStart` says for which texts it is complete.
4. **False alarms of the local differential test** (`main.cpp` line 79).  The
   record covers aligned stores to the first UART word and CLINT accesses.  For
   the rest of the UART window, which memory, reference and notes include, there
   is no record or one that the reference rejects, and the test fails although
   both sides did the same.
5. **A yielding thread goes to the head of its list** (`scheduler_up.c` line 259).
   `rt_schedule` clears the YIELD flag before `rt_schedule_insert_thread` reads
   it, so the thread is put in front of the others of its priority.  Of three
   threads that yield, or use up their time slices, two alternate and the third
   starves.

Limits of the kernel, met while the loads were chosen:

* A mutex taker whose timeout expires reads `mutex->owner->current_priority` when
  it runs again (`ipc.c` line 1300).  If the owner has released the mutex since,
  owner is NULL.  `NoKernelFault` fails as soon as `MutexLoad` has a timeout.
* `rt_thread_resume` of a thread that waits for a mutex lets it go on as if it had
  it, because its error number is still `RT_EOK` (`ipc.c` line 1289); and
  `pending_object` is left behind after a timeout (line 800).
* `rt_thread_delete` takes the thread off its list in one section and closes it in
  the next (`thread.c` lines 546 to 550).  A tick in between can switch away from a
  thread that deletes itself: `rt_schedule` links it into a ready list again, and it
  is closed there.  `ListsMatchStates` fails as soon as `CloseLoad` has a tick.
* `rt_thread_resume` checks the state with interrupts enabled (`thread.c` line 1056),
  unlinks in one section (1065 to 1077) and links in another (1080): three steps of
  the model (`Resume` or `StartupCheck`, `Unlink`, `Insert`).  If the timer of the
  target expires after the check, the target is ready, and line 1068 takes it off the
  ready list and leaves its bit of the bitmap set until line 1080 links it again;
  `ListsMatchStates` allows just that.  It does no harm while no other thread
  runs in between, which is so if the resuming thread has the highest priority, as
  in `ThreadLoad`.  With a resumer of the same priority a tick that sets YIELD lets
  `rt_schedule` pick from the empty list: `NoKernelFault` fails.  With a resumer
  of a lower priority the target may run, and exit, between check and unlink, and a
  thread that has ended is put into the ready list: `ListsMatchStates` fails.
* If two threads resume the same one, both can pass the check; the resumed thread
  runs and sleeps, and the second link makes it ready with its timer armed, so the
  assertion of `_thread_timeout` (line 136) fails when it expires.
  `NoKernelFault` fails as soon as `ThreadLoad` has a second resumer.
* A thread that is handed a mutex with a ceiling is not raised to it
  (`ipc.c` lines 1478 to 1500; line 773 says "prio at least be priority ceiling").
  `PriorityInherited` therefore allows a ceiling to be exceeded, and does not
  demand it.
* `rt_mutex_setprioceiling` changes priorities without `rt_schedule`, so
  `HighestRuns` leaves out `CeilLoad`.

`notes/p10-further-optimization.md` line 118 asks whether the fixed priority of
the LSU can starve fetches.  It can delay a fetch but not for ever, because an
in-order pipeline runs out of memory instructions when it cannot fetch:
`KeepsRetiring` holds in both runs.

## 4. Proofs

### The core

`CoreProofs` proves safety of the core for every `Space`, line length, register count,
decoder table, memory map, program and stalling behaviour, from the assumptions
named in `NpcDefs` and `Core`: sizes are positive and a power-of-two-like
multiple of a line (`SizesAssumption`), addresses are words and the CLINT, which is
decoded inside the core, is no part of what the bus reads from
(`MapAssumption`), the decoder is total (`DecodeAssumption`), bitwise or gives a
word (`BitOrAssumption`), and the initial memory is a memory
(`ProgramsAssumption`).

The inductive invariant `IInv` is the conjunction of

* `TypeOK`;
* `StagesApart`: no two adjacent boundaries are valid.  To be inductive it needs
  that no fetch arrives while D/X is about to be filled, which is
* `PendingIsRefill`: `ifu_pending` is the state of the fetch unit, F/D and D/X
  are empty while a refill is open, and a drop mark has its response to come;
* `HaltedIsEmpty`: a halted core is empty, and its outstanding fetch is marked;
* `BurstInStep`: the beat counts and lengths of master and slave agree;
* `RefillFresh`: a refill the master has not taken up is at its first beat;
* `RefillOwnsBus` and `LsuOwnsBus`: the transaction on the bus belongs to the
  refill, with address, beat and error in step and W empty, or to the
  instruction in W, with the same address and direction.

None of the parts is inductive alone.  The owner properties rest on
`PendingIsRefill` (a refill leaves nothing behind it that could reach W) and on
`BurstInStep` (the last beat of the master is the last beat of the fetch unit);
`StagesApart` rests on `PendingIsRefill`.  There is one lemma per part and
action group, `InitIInv`, `NextIInv`, and the theorems `TypeCorrect`,
`NoAdjacentStages`, `PendingTracksRefill`, `HaltIsClean`, `OneOwner`,
`AccessKeepsBus` and `BurstsCounted`.

The second part of `CoreProofs` proves what the core computes: `Refinement` (every behaviour of the
pipeline, its cache and its bus is a behaviour of `Isa`), `CoherentCache`,
`FetchDeliversMemory` and `TrueCommits`.  `RefInv` adds to `IInv`

* `FetchableOK`: memory is always among the fetchable values;
* `Aligned`, `MissIsPc`, `InOrder`: program counters are aligned but for the one behind
  a jump about to trap, a refill to be delivered is the one of the pc in F, and the
  instructions in the pipeline follow each other in program order;
* `FdOK`, `DxOK`, `XwOK`: a packet is a fetch fault or an instruction that may be
  fetched at its pc, with the operands that the older instructions leave (forwarding
  included) and, in W, the results that follow from them;
* `ReadTracks`, `RefillData`, `WriteTracks`: the beat on the R channel is the word asked
  for, as it is in memory, the words a refill has stored may be fetched, and a store is
  performed once, when both halves of the write have been accepted;
* `CacheCoherent`.

All four theorems have the premise `[]FaultFindsNoLine`: a fetch that ends in a fault
found no valid line in its set.  Without it they are false, which is the finding
about line 186 of `Ifu.v` and what the run `IcacheError` shows: a failing refill
overwrites the words of a line that stays valid.  The premise is true in every
reachable state of the runs `CoreLocal` and `CoreSoc`.

### Runtime and devices

* `MtimeReadProofs` (`TimerTypes`, `ReadsCurrentTime`, `ReadsTwiceAtMost`,
  `UptimeNeverBack`).  The invariant says what each local variable of `read_mtime`
  tells about the time, per position in the loop.  If five delays fit into one wrap of
  the low word (the assumption of the module; on the hardware a wrap takes 2^32
  cycles) a second repetition cannot see another carry.  The value returned lies
  between the times of the call and of the return, so successive uptimes do not
  decrease.
* `MmioReplayProofs` (`NoAbort`, `VerdictsAreExact`).  Between two steps no record is
  waiting: a record is consumed by the access, or dropped by `npc_mmio_replay_ok`.  The
  comparison then raises the alarm exactly when the two accesses differ.
* `ContextSwitchProofs` (`ContextTypes`, `ThreadsResumable`, `HandlerNeverAsserts`,
  `SwitchesAreCoroutines`), for any number of threads, stack sizes and values.  `CtxInv`
  is the type invariant with `WaitingFrames` (a waiting thread has a Context on its own
  stack, with words above it, that returns into its own call or starts it; a fresh one
  is in the slot below the arguments), `ArgumentsKept` (the arguments of a live thread
  are never overwritten) and `CoreOK` (for each code position what stack pointer,
  registers, globals and saved Context hold).  The waiting threads alone are not
  inductive: that the handler finds a Context needs `CoreOK`, and that a popped slot is
  a word needs the words above.  The refinement maps a thread to `ThreadView`: its
  registers and stack, read from the core while it runs and from its saved Context
  otherwise.  The trap, the first half of its entry, the restore and the first
  instructions of a thread change no view; every other action is one step of
  `Coroutines`.

### The simulator

`SimulatorProofs` proves the parts alone, for any output and any sequence of
instructions, and then the simulator they are part of, for every set of set-ups.

* `RingShowsRecent`.  The invariant says that the i-th most recent event is in the i-th
  slot before `next`, modulo the size, and that `count` is the smaller of the size and
  the number of pushes.
* `StopIsSound`, `StopIsComplete`.  The invariant says that the matched part of the text
  is what the output ends with and, when the first character does not recur, that no
  longer part is: a mismatch can then only fall back to the start.
* `SimulatorTypes`, `EarnedVerdicts`, `StopsAtBreakpoints`, `PartsOfSimulator`.  `SimInv`
  joins the two invariants, carried over to the parts as `Simulator` uses them, with
  `CmdOK` and `BreaksOK` (a command that has retired an instruction is still running and
  stands at no breakpoint), `CoreOK`, `EotOK` (the flag of the end-of-text byte, never
  reset, means the byte is in the output), `RefOK` and `VerdictIsEarned`.
  `RefOK` is what makes "no difference" inductive: until a difference or a stop for the
  UART, the reference has retired as many instructions as the core, or has ended and
  been shown the last one again; after such a stop it is never asked.

### The RT-Thread kernel

`RtProofs` proves `RtLists`, `RtHighest`, `RtNoFault` and `RtSemUnits`, and
`RtIpcProofs` proves `RtMessages`, `RtSlots`, `RtWakeups` and `RtTypes`, for any number
of threads and priorities, any timeouts, time slices, sizes of the objects and
interrupts, from the assumptions of the modules: threads are finitely many, one is the
idle thread, and there are priorities and a time slice (`SchedAssumption`), the objects
have their sizes (`IpcAssumption`), a load gives every thread a priority, starts
no thread twice, starts the idle thread, and lets it make no calls
(`LoadsAssumption`), the bounds on nested critical sections and holds are numbers
(`ValsAssumption`, `HoldAssumption`), and `None` is no block and no value that is sent.
TLC evaluates all of them.

The theorems are about the loads in `IpcLoad`: no thread deletes another, none uses a
mutex or sets a ceiling, one thread at most resumes and starts others, and where there
are interrupts it resumes only threads that suspended themselves (`any` is false).  Six
of the ten loads of the run `rt_kernel` are such, and the load of `rt_yield`; `SemLoad`
is the one with a resuming thread, whose priority is below that of its target.  The
properties are false without some such restriction, see "Limits of the kernel" above:
a second resumer breaks `NoKernelFault`, and so does a resumer that picks a sleeping
thread and does not have the highest priority; deletion with a tick breaks
`ListsMatchStates`, a mutex with a timeout breaks `NoKernelFault`.  That they hold
with any thread resumed from the highest priority, with deletions and no tick, and with
mutexes and no timeout, is shown by TLC only.

`RtInv` says `Safe` (the load is one of these, `System` and `Held` hold) and
`Balanced`.  `Held` is about loads without interrupts where any thread is resumed: after
the check the resumer stays current and its target suspended.
`System` is

* `KInv`: types and no fault (`KType`); a thread is in the ready list of its priority
  exactly when its state is ready, once, and the bitmap is the set of non-empty lists
  (`ReadyOK`); a thread is in one wait list at most, suspended, or closed and in the
  defunct list (`WaitOK`); the timer list is sorted, has one timer per thread at most,
  and only of suspended threads (`TimerOK`); who runs is the current thread
  (`CurOK`);
* `Own`: for each thread, what its position in its call says.  In a wait list it is
  blocked in the call that belongs to the list; from the check of a resumption to its
  end (`Aims`) the target is `Loose`, suspended with no list and no timer, so nothing
  else can wake it; a timer belongs to a thread that is blocked; a thread suspended in
  `rt_sem_take` has an error number that is not `RT_EOK`;
* `Runs`: a current thread that is not running is about to call `rt_schedule`, with the
  scheduler unlocked, and otherwise nobody ready has a higher priority (`Quiet`);
* `Armed`: after a tick no timer that is due is left; the idle thread is always
  ready or running.

No part is inductive alone.  `ReadyOK` needs `WaitOK` and `CurOK` (what is inserted was
in no list before), `TimerOK` needs `Own` (a call blocks only a thread that is
running, so a timer is started for it only), `Runs` needs the idle thread, and the
balance needs that only a suspended thread is handed a unit and that it had another
error number before: a release that found a thread with `RT_EOK` would count twice.
`rt_timer_check`, `rt_event_send`, the resets, a walk along a chain and the boot are
loops, folds in the model.  `FoldFacts` takes the pass of a loop and what holds
after i passes as parameters, and its lemma `FoldKeeps` says that what every pass keeps, the loop
keeps; each loop instantiates it.  It is proved from the definition of the fold by taking
a least number for which it fails, since the induction theorems of the library take an
operator; that there is one (`LeastNumber`) is a hypothesis of `FoldKeeps` that every
instance discharges with `LeastExists`.  There is one lemma per operation of a list, per section and per call, and
one per group of actions; `CallKeeps` and its relatives say what a call must do to
`k` for the positions of all other threads to stay true.

`RtStock`, behind `RtMessages` and `RtSlots`, adds `Stocked`, what the objects hold:

* `MbOK`: the offsets of the ring buffer are in range, the input offset is `entry` slots
  ahead of the output offset, modulo the size, and those slots hold mails.  The proofs
  count with `Wrap`, one subtraction at most, as the code does; `MailsMod` says it is the
  remainder of the property;
* `MqOK`: there are two sequences of slots, `Q` and `R`, such that `next` leads from
  `head` along `Q` and from `free` along `R` and then ends (`Path`), `tail` is the last
  of `Q`, `entry` its length, no slot is in both or twice, and a slot outside both is
  being copied by exactly one thread (`SlotUse`, `Covered`).  The slot between
  unlinking and linking, while `rt_mq_send` and `rt_mq_recv` copy with interrupts
  enabled, is why threads are part of the invariant;
* `MpOK`: the free list holds the blocks nobody holds, and `free` is its length.

Each step changes the objects as `Shift` says: the mailbox by one of `MailMove`, the
queue by one of `MsgMove`, the pool by one of `PoolMove`.  These are the steps of
`MsgQueue` with the invariant of the next state, so `RtMessages`, the refinement,
follows from them, `InitQueues` and `PTL`.

`RtWakeups` adds `Alert`.  "Nobody waits for what there is" is not inductive for the
mailbox, the queue and the pool: a sender resumes a receiver and the mail stays in the
box until the receiver runs, so a box with mail and a list with further waiters is a
state the system is in.  `Announced` says what is: while anyone is in a wait list, the
stock of what the list wants (mails, messages, room, blocks) is not larger than
the number of threads that have been resumed from it with `RT_EOK` and have not run
yet.  The semaphore and the event hand over in the resumption itself, so
`SemAwaits` (no units while there are waiters) and `EvAwaits` (no waiter is satisfied by
the set) hold outright.  Every step is of one of four kinds.  It
leaves the stocks alone and puts nobody in a list for them (`Drifts`); it is about the
semaphore (`SemDrift`) or the event (`EvDrift`); or it is about a stock (`Informs`),
and then it adds one and resumes the first waiter if there is one, takes one on
behalf of a thread that was resumed or finds the list empty, lets a thread wait
because there is none, or resets the object.
`RtTypes` follows from all three invariants.

### Only model-checked

`KeepsRetiring`, `CommandEnds` and `TakesTurns`: liveness under fairness is out of
the prover's reach.  Of the kernel: `MutexExclusion` and `PriorityInherited`, which say
something only in the loads with mutexes that `IpcLoad` leaves out, and the eight
proved properties in those loads, in `CloseLoad` and in `ThreadLoad`.  An invariant for them
has to cover the chains of owners along which `rt_mutex_take` passes priorities on,
and a proof that the walk ends needs an induction along the chain.

## 5. Not modelled, and the plan

Planned, in this order:

1. Proofs about the kernel: mutexes without timeouts and deletions without ticks, in
   addition to `IpcLoad`.
2. Pure operators against reference definitions: the operations of `Exu.v`,
   field extraction and legality of `Idu.v`, byte lanes in the store path of the
   slave.
3. Deletion and detaching of IPC objects, user timers and soft timers.

Left out for good: `NPC.v` and `MemIf.v` (wiring without state; `MemIf.v` is not
instantiated), NEMU's interactive monitor and host devices, its instruction
semantics (environment of the simulator), the ports of Abstract-Machine to other
machines, the synthesis flow and the SoC patch (no program logic).  Of RT-Thread:
the heaps (byte-level layout), the multiprocessor scheduler (not built for a single
core), and the components (file systems, processes, networking, shell, drivers,
configuration tools): vendored code, and by far the largest part of the
repository's lines, most of which the abstract-machine port does not build.
