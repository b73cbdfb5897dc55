# Verification of AI-ASM OS

TLA+ specifications, TLC configurations and TLAPS proofs for the kernel of
AI-ASM OS: an AArch64 kernel in assembly (`src/kernel/*.asm`) with a C runtime
(`src/kernel/wasm_host.c`) that loads WASM modules into a table and runs them to
completion in the wasm3 interpreter. Everything here is translated from the
code; documents and comments are used only as claims to hold the code against.

Line numbers below are those of `src/kernel/wasm_host.c` where no file is named.

## 1. The system

After reset `kernel.asm` initialises its subsystems one after the other, unmasks
interrupts, initialises the multi-module runtime (`wasm_host_init_multi`), loads
and runs the embedded `init` module (`load_and_run_init`), runs every module
that is ready (`run_ready_modules`), initialises the process table and enters
`proc_schedule_loop`. There is one CPU. A module runs inside `m3_Call` until it
returns or traps and calls *host functions*, C functions listed in
`host_registry` (4926-5084). Concurrency comes from three places: interrupts
between any two instructions; modules that are loaded by others and later
act on state left behind by those that ran before; and several modules that hold
identifiers of the same kernel object. The programs that run in modules are
sequential C; some of them, the text programs of a pipeline, are modelled for
what they do with their input.

### Inventory

| Part | State | Operations | Hard behaviour | Correct when |
|---|---|---|---|---|
| Module runtime (`wasm_host.c`, `kernel.asm`) | `module_table` (16 slots), `next_module_id`, `current_module_id` | load, spawn, run, exit, kill, restart, reload | slots change under a running module; loads fail half way; identifiers are not indices | an instance is queued, entered and left at most once, searches find the slot meant, states are true |
| JIT cache (`jit_cache.asm`) | table of 16 entries | lookup and store in each load | addresses computed from an unset register | a load is not disturbed by it |
| Interrupts, timer, scheduler loop (`exceptions.asm`, `gic.asm`, `timer.asm`, `virtio_irq.asm`) | timer, GIC, `preempt_pending` | `irq_entry`, `host_yield`, `host_sleep`, `host_getc`, `proc_schedule_loop` | one-shot tick, two acknowledgements, wait loops that race the flag | no tick is lost, who waits goes on |
| Pipes (`ipc.asm`) | ring of 4096 bytes, two descriptors | create, read, write, close | both positions wrap; stale descriptors; only the first table entry is addressed correctly | first in, first out, bounded |
| Redirected I/O | `stdin_pipe_fd`, `stdout_pipe_fd` of a slot | `host_spawn_redirect`, `host_print`, `host_getc`, `host_exit` | writer ends before the reader starts | the reader gets what was printed, then the end |
| Semaphores (`semaphore.asm`) | 16 counters, waiters, states | create, wait, try_wait, post, destroy | slots reused under kept identifiers; words wrap | independent counters |
| Shared memory (`shmem.asm`) | 8 regions, flags, reference counts | alloc, free, attach, detach, flags, write, read | flags and count say the same thing twice; any word of flags is taken, a long write reaches the next region | they agree and a region is empty when handed out, unless a module wrote over them |
| Message queues (`msg.asm`) | queues of 16 messages | create, send, recv, destroy | positions computed in a register that was reused | messages arrive once, in order |
| Descriptors, open files (`vfs.asm`, ramdisk) | 32 descriptors for each of 16 processes, 16 open files | open, read, close, exit; WASI's own numbers | two tables kept in step by hand; number 0 doubles as "none"; WASI closes any number, `host_pipe_close` any descriptor | one holder each and cursors independent, but for descriptors whose file was closed under them; nothing lost but in known ways |
| Command lines (`wasm_host.c`) | `pending_argv`, `module_argv` of a slot | `host_set_argv`, `host_get_argv`, the tail of both spawns | one pending line for all spawners; spawns fail, slots are restarted and reused | a line is read in one slot only, by the same program unless a failed load renamed the slot |
| Environment (`wasm_host.c`) | `env_table`, 64 names and values | set, get, list | names are cut to a field; first match and first free slot; three variables preset; nothing is taken out | a bounded map |
| Kernel events (`event_notify.asm`) | table of subscribers, ring of notifications | subscribe, unsubscribe, notify, poll | the number of subscribers stays 0 | a full ring refuses, and loses nothing |
| Devices, users, permissions, quotas, audit, log | small tables | query and change | mostly never written by live code | (section 8) |
| Process table, signals (`process.asm`, `signal.asm`) | 8 process entries | schedule | initialised after the last module ran; search never returns | (section 8) |
| Memory (`memory.asm`, `buddy.asm`, `mmu.asm`) | bitmaps, page tables | alloc, free, map | no live callers | (section 8) |
| VirtIO, FAT32, TCP/IP (`virtio*.asm`, `fs.asm`, `net.asm`) | queues, caches, sockets | request and complete | the device never becomes ready | (section 8) |
| Text programs (`src/modules/{sort,head,wc,fold,rev,tac,uniq}`) | line buffers and counters in two pages of memory | read a byte, end of input | full buffers, an unfinished last line, empty lines, memory that is never given back | the output is the function of the input that the name says |
| Other user modules (`src/modules`, some 360 programs) | their linear memory | host calls | polling each other | taken as "any call in any order" |

Interaction: host functions reach the assembly parts by direct calls; what the
parts share is the caller's identifier (`current_module_id`, or the runtime
handle through `get_current_pid`), descriptors that name a pipe end or an open
file, and the flag `preempt_pending` between the interrupt handler, the waiting
host functions and the scheduler loop.

## 2. Modules

| Module | Models | Builds on |
|---|---|---|
| `RunQueue` | what the runtime promises: instances are unborn, queued, running, over | |
| `ModuleRuntime` | slot table, loader, driver, process host functions | refines `RunQueue` |
| `Preemption` | timer, interrupt controller, handler, waiting functions, scheduler loop | |
| `PipeFifo` | what a pipe promises | |
| `Pipe` | the ring buffer and its descriptors | refines `PipeFifo` |
| `Pipeline` | modules around a pipe, run one after the other | extends `Pipe` |
| `CommandLines` | command lines over the slot table | extends `ModuleRuntime` |
| `CountingSemaphores` | what the semaphores promise | |
| `Semaphores`, `SharedMemory`, `MessageQueue` | the three tables | `Semaphores` refines `CountingSemaphores` |
| `Ipc` | any module calling any of the three | composes them |
| `FileCursors` | what descriptors promise | |
| `OpenFiles` | descriptor table over the table of open files | refines `FileCursors` |
| `EnvMap` | what the environment promises: a map that takes a bounded number of names | |
| `Environment` | `env_table`, its searches, setting, getting, listing | refines `EnvMap` |
| `KernelEvents` | subscribers and the ring of notifications | |
| `KernelObjects` | any module calling any of these | composes `Ipc`, `OpenFiles`, `Environment`, `KernelEvents` |
| `Kernel` | those calls between interrupts | composes `KernelObjects` and `Preemption` |
| `TextFilters` | head, wc, fold, rev, tac, uniq, byte by byte | |
| `Sort` | sort, line by line in, one turn of the inner loop at a time after that | |
| `TextPrograms` | any one of the seven | composes them |

`MC*` modules give the constants their small values; `*Proofs` modules hold
theorems. Slot `k` of `ModuleRuntime` is `module_table[k - 1]`; a runtime handle
is named by the identifier its load consumed. One action stands for a whole host
function, including the search, the load or the `vfs_free_all` it calls. Calls
that fail and change nothing are no actions. What a module computes
between calls is left out, and so is what it is told, unless a property is about
it (`handed` of `Pipe`, `eof` of `Pipeline`, `envReply` of `Environment`, `readings` of
`CommandLines`).

In `TextFilters` the record `st` holds the variables of the program that runs
and `heap` its `heap_pos`, counted from the start of the heap. A step takes one
byte, or the end of the input, and does all the program does before it asks for
the next. `read` and `out` are what went in and came out. A store behind the
memory traps (`Room`). tac prints in a loop of its own, one line a step. The
promises of the filters are said of the whole input by its positions (which stand
where in what is printed), not by a second program that computes the output, so
that they can be read, checked and proved without recursion over data:
`IsWithout` says what is left of a text without some of its positions,
`IsLine` where a line and its newline are, `LinesBelow` that no line is as long
as a buffer. In `Sort` a line carries its number in the input, so that
lines of equal text can be told apart; `compare_str` and `compare_numeric` are
given by the rank of a text, which a total order on finitely many texts always
has.

Where the code lets a module undo what the kernel keeps in step, the model lets
it too, and a history variable says where that has happened, so that a property
can say how far the damage goes: `shmMeddled` of `SharedMemory` (regions whose
state flags a module has set or cleared itself, or which lie behind a write that
was too long), `stale` of `OpenFiles` (descriptors whose open file was closed
under them), `lost` of `OpenFiles` (open files nobody holds), `misplaced` of
`CommandLines` (lines whose slot a failed load has renamed).

Three conventions come from the code:

* **Operands.** wasm3 hands a host function its operands behind the place of the
  result, which functions declared `v(...)` do not have. `host_print`,
  `host_exit`, `host_sleep` and `host_log` read from `_sp`, all others from
  `_sp + 1`; for `fs_close`, `net_close`, `pipe_close`, `msgq_destroy`, `shmem_free`,
  `shmem_detach`, `shmem_set_flag`, `shmem_clear_flag`, `sem_destroy`, `proc_kill`,
  `set_argv`, `perm_set_level`, `quota_set`, `event_notify` and WASI `proc_exit`,
  which have no result, that is one word too far. The interpreter is not in the
  tree, so the models let these calls have *any* identifier.
* **Stray addresses.** `pipe_create`, `pipe_find_by_fd`, `msgq_create`,
  `msgq_find` and `jit_cache_lookup` compute the address of every entry but the
  first with `madd` from a register that holds something else. For entry 1 that
  is twice the table's address, outside the two gigabytes `mmu_init` means to
  map. The constant `Stray` (and `"stray"` in `Faults`) says what such a load may
  do: take a fault, which ends in the endless loop of `vector_sync`, or find
  nothing. The runs allow both. A second pipe or queue does not exist for this
  reason.
* **Undefined behaviour.** `host_proc_restart` and `host_module_reload` replace
  the runtime of a module that may be the caller. The call may still return
  (`CallReturns`) or trap (`CallTraps`).

The models begin where the kernel has come up. In particular `mmu_init` is taken
at its word (it writes block descriptors into the top-level table, where 48-bit
addresses with 4 KB pages know tables only).

## 3. Runs

| Run | Question | Result |
|---|---|---|
| `core` | Does the slot table implement the run queue under all host functions, failing loads, stray lookups and traps; does every queued module leave the queue unless the machine stops or a module traps; is a command line read in one slot only, and by one program unless a failed load renamed the slot? | holds |
| `drift` | Does `host_exit` mark its caller? | **violated** |
| `preempt_ack` | Does a timer interrupt end in the preemption flag? | **violated** |
| `preempt_yield` | Does `host_yield` return? | **violated** |
| `preempt_lostwakeup` | Does a tick reach the scheduler once the modules are done? | **violated** |
| `stages` | Is the ring a queue, with stale descriptors and reused entries; is what a pipeline prints what its readers get; does each text program print what its name says, up to the limits of its buffers and of its memory (`rev` up to the first empty line, where it traps)? | holds |
| `eof` | Does the end of input mean that everything was read? | **violated** |
| `objects` | Are semaphores counters; do flags and counts of regions agree where no module has meddled; does a lone message arrive; has every open file one holder, and are descriptors cursors, until a file is closed under them; what leaks; is the environment a map; are accepted events kept; and, with interrupts in between, which step forgets a tick? | holds |
| `msgorder` | Do messages come in order? | **violated** |
| `uniq_repeats` | Does uniq remove repeated lines? | **violated** |
| `tac_reverses` | Does tac print all lines in reverse? | **violated** |
| `sort_reverse` | Does `sort -r` reverse the order? | **violated** |

### Bounds, and why they are enough

* `core`: 3 slots for 5 loads, two good and one bad registry entry, two command
  lines. With two names that load, a renamed slot can be run under another name.
  Five loads exceed the slots, so that identifiers run ahead of indices, the
  branch of `host_exit` that halts the CPU is taken, and a slot is restarted or
  reloaded more than once. Two lines are the fewest that could be mixed up.
  `drift` needs no more than 4 loads for 4 slots. The bound hides one starvation:
  a module that restarts itself for ever is always found first by
  `find_ready_module`; `ReadyLeavesQueue` therefore speaks of finitely many loads.
* `Preemption` is finite without bounds. `objects` has two VirtIO devices,
  since one may be pending while the other is handled, all three waiting calls, and
  return addresses that get lost. `preempt_ack` has the register that the code reads
  (`AckRegister = "CTLR"`); the two runs behind it and `objects` take the acknowledge
  as repaired (`"IAR"`), since otherwise the first tick ends all and nothing of what
  comes after it could be looked at.
* `stages`, the pipe: 3 modules (spawner, writer, reader), 3 bytes of buffer, 4 bytes
  printed at once, so that writes wrap, fill and overflow the buffer; descriptors
  up to 103, that is two creations and one number nobody has. `eof` needs a buffer
  of 2.
* `objects`, `msgorder`: 2 semaphore slots for 4 identifiers (each slot is used
  twice), counters that wrap at 3 instead of 2^32, 2 regions with up to 3
  references, a queue of 3 messages. Words of flags are none or one of ALLOCATED,
  SHARED and the sign, which are those that some call tests; counts wrap at 4.
  `MSG_SIZE = 3` with capacity 3 gives position 1 after each call, as 64 with 16
  does. `MaxQid` stays below 8: from identifier 8 on a queue's buffer lies behind
  the area of buffers. 2 processes with 2 descriptors, 4 open files (0 to 2 are
  the numbers WASI never closes, 3 is one it does), one file of one byte, reads of
  1, and one stale descriptor at a time (`OneStale`). Three environment slots for
  four variables, of which one is preset and one has two spellings that are cut to
  the same name. A ring of 3 events. No call touches two of these tables but for
  the fault that stops all, so `MCNext` follows the behaviours in which all calls
  are to one of them (`OneTable` for the three of `Ipc`), and `MCKernel` those in
  which there are only calls or only interrupts; nothing but interleaving is lost,
  as `PartsApart` proves, and the theorems do without it.
* `stages`, the text programs (`MCStages` has either the pipe or one program run,
  which share no variable): inputs of up to 8 bytes out of a letter, a space and a
  newline, or 4 lines for sort out of four texts, one of them empty and one the
  beginning of another, with and without an unfinished last line. Buffers of 3 to
  6 bytes are filled and overrun, and a memory of 16 bytes, with 2 for each
  newline, runs out; tac gets room for one newline, so that it prints a line
  before it traps, and none, as in the build, in the run `tac_reverses`. The
  buffer of sort holds 9 bytes and its table 3 lines, fewer than come.

Deadlock is not checked, since everywhere the system may really stop: the CPU
halts or spins (`ModuleRuntime`, `Preemption`), a stray load faults, a program
ends, or the bounds on modules, bytes, descriptors and identifiers are used up.

### Fairness

`FairCommandSpec` has the kernel go on (`KernelGoesOn`) and each called module end
(`CallGoesOn`); modules are not obliged to call anything. The three things that
really strand the queue, a module that traps, the WASI exit or the guard of
`host_exit` that halts the CPU, and a stray lookup, are in the model, and
`ReadyLeavesQueue` names them as the only exceptions. It assumes that the CPU is
not kept by an interrupt that is never acknowledged, the subject of `Preemption`.
`FairIrqSpec` of `Preemption` has an armed timer fire, a signalled interrupt taken, and
the CPU go on executing when none is; devices and users owe nothing. These are
weak fairness conditions on hardware; no strong fairness is used.

### Reading the counterexamples

* `drift`: a load fails after `next_module_id` was taken; the next instance has an
  identifier that is not its slot plus one; its `host_exit` marks another slot, or
  none.
* `preempt_ack`: `gic_ack_irq` reads `GICC_BASE + 0` (`gic.asm:126`), which on a GICv2
  is GICC_CTLR, the register `gic_init` wrote 1 to (line 81). So `irq_entry` handles
  "interrupt 1", nothing is acknowledged, the timer keeps its line up, and the CPU
  takes the same interrupt for ever with the flag clear.
* `preempt_yield`: `host_yield` sets the flag and waits until it is cleared, which
  only `proc_schedule_loop` does, and the CPU is inside `host_yield`. The shell's
  `wait_for_pid` calls it in its loop.
* `preempt_lostwakeup`: the tick comes between the test of the flag and `wfi`; the
  timer is one-shot and the loop sleeps.
* `eof`: the writer's exit closes the whole pipe with its data; the reader, which
  runs afterwards, is told that the input has ended.
* `msgorder`: the second message is stored at the place of the first.
* `uniq_repeats`: a line that repeats the one before is counted, but stays in the
  buffer; the next line is written behind it and differs from everything. Of three
  equal lines two are printed.
* `tac_reverses`: the text buffer of 256 times 256 bytes takes all of the second
  page. The newline allocated after the first line printed lies behind the memory.
* `sort_reverse`: both branches of the test of `-r` are the same
  (`modules/sort/src/main.c:211`), so two lines in order stay so.

## 4. Proofs

| Module | Theorems | Argument |
|---|---|---|
| `ModuleRuntimeProofs` | `Invariance`, `TypeCorrect`, `SearchesUnambiguous`, `CallersUnambiguous`, `RunningIsTrue`, `ReadyIsFresh`, `RefinesRunQueue` | `IInv`: the five checked invariants plus `HistoryIsPast` (what the call and the history name was made by an earlier load). All host functions reduce to one lemma, `SlotUpdate`: a step that replaces one record, keeps or renews identifier and runtime and does not invent RUNNING keeps `IInv`. `StepKinds` shows that there are four kinds of step; each maps to a step of `RunQueue` or to none. |
| (same) | `CommandsAreRuntime`, `LinesReachTheirModules` | a behaviour with command lines is one of `ModuleRuntime`, so all of the above holds of it; lines are numbered as they are set, and a line is pending or in one slot (`LineInOnePlace`), since only a slot that is loaded now takes a line and takes it away. A reading is of a line that is past, or still in the slot it was read from and under the same name, or misplaced (`ReadingsAccounted`): a slot that holds a line changes its name only when a load into it fails or succeeds (`NamesStay`). That `host_get_argv` looks in the caller's own slot or finds none is `CallerFindsItself` |
| `PreemptionProofs` | `TypeCorrect` (of `IrqTypeOK`), `LostInSleepOnly`, `TickNotForgotten` | "timer off implies flag set" is inductive once `host_sleep`, the only function that clears the flag without arming the timer, is excluded |
| `PipeProofs` | `PipeTypeCorrect`, `RingStaysConsistent`, `FdsStayFresh`, `RingIsFifo` | `wpos = (rpos + count) mod N` is inductive with the type invariant; the contents of the ring are then the abstract queue, whose reads and writes the lemmas about wrapped positions match |
| (same, for `Pipeline`) | `PipelineInvariant`, `TypeCorrect`, `NothingIsLost`, `BytesComeInOrder` | `PipelineInv`: the ring is sound, `sent` is `got` followed by the contents unless a print was too long, and `HeldInOrder`: `got` followed by what the buffer holds, even of a closed pipe, is in the order sent. The last is stronger than `GotInOrder`, since a later read must not spoil it. "In order" is an increasing function from places got to places sent: a write extends it, a prefix cuts it |
| `IpcProofs` | `SemTypeCorrect`, `IdsStayDistinct`, `WaitersStayWaiting`, `TableIsCounters` | identifiers in the table are below `semNextId` and distinct, hence a lookup is a function of the handle; a free slot has no waiters |
| (same) | `TypeCorrect`, `RefsAlwaysMatchFlags`, `FreeIsAlwaysEmpty`, `SingleMessageAlwaysArrives`, `SemaphoresAreCounters` | the tables do not touch each other; for queues, "head and tail are each 0 or the one place `After`", "tail leaves 0 with the first message and does not return", "before the first receive a single message is at 0", and "otherwise the place `After` holds the newest message". Regions are shown one by one: what a call does to one region disturbs no other, but for a long write, which makes those behind it meddled |
| `OpenFilesProofs` | `TypeCorrect`, `EveryFileHasOneHolder`, `NoOtherLeaks`, `DescriptorsAreCursors` | type, holders and leaks together are inductive: a number that is free is held by nobody but stale descriptors, so taking the first one keeps holders apart; closing a number makes every other descriptor that has it stale, and none is stale otherwise |
| `KernelObjectsProofs` | `EnvTypeCorrect`, `NamesStayOnce`, `TableIsMap` | used slots come first and hold different names as they are cut; then the first match is the only one, and the table is the map of `EnvMap` from cut names to the values set last, full exactly when no slot is free |
| (same) | `PartsApart`, `AcceptedEventsStay` | a step of one table is a step or a stutter of each, and so is an interrupt: `KernelSpec` implies the specification of every table and of `Preemption`, so what is shown of one holds among the others, and TLC may take them one at a time. The head of the event queue is its count (nothing is taken out), so an accepted event is never written over |
| `SortProofs` | `TableStaysSorted`, `PrintsInOrder`, `PrintsEveryLine` | `Inv`: up to `j` all lines but the one at `k` are in order (`Placed`), those between are greater than it (`Passed`), it came after all of them (`Newest`), and what is behind is as it was read (`Behind`). Stability needs `Newest`: the line at `k` stops behind a line of equal rank that came earlier. `Origin` and `AllThere` make the table a record of the input; a swap permutes it |
| `FilterProofs` | `FilterInvariant`, `HeadKeepsPromise`, `WcKeepsPromise`, `FoldAlwaysKeepsPromise`, `RevKeepsPromise`, `TacKeepsPromise`, `UniqKeepsPromise` | `FilterInv`, one part for each program; see below |

The six filters are proved with one invariant of the form "what is printed and
what the buffers hold account for what has been read". It is needed because the
promises speak of `out` and `read` alone, and a step moves bytes from a buffer
to `out`:

* **head.** What is printed, then the buffer, is the input; the buffer has no
  newline; `lines` counts those printed. That the lines fit the buffer (`Fits`)
  is handed back from a longer input to a shorter one (`FitsBefore`), and bounds
  what an unfinished line can put in the buffer (`TailShort`).
* **wc.** The counters are those of what has been read, and `inWord` is
  whether it ends in a character. A byte begins a word just when that says so
  (`WordStartsAppend`); the finite sets of positions grow by one element or none.
* **fold.** What is printed, then the buffer, is the input but for some
  newlines (`Folded`). The set of added newlines is the witness: it is kept by a
  byte, grows by one when the line is full (`WithoutMore`), and is cut when
  memory runs out (`WithoutBefore`). `Place` says that a position that stays
  keeps its order.
* **rev.** The buffer stands in the input right behind what is printed, which
  ends a line there. `Turned` says the promise of what is printed so far, and
  `RevGrows` that a longer input does not undo it.
* **tac.** Line `i` of the table lies in the input at its offset plus `i`, for
  the newlines are not stored (`LineStored`); what comes later is stored behind it
  (`StoredStays`). While it prints, what is left in the table tells how much is
  printed; a trap between a line and its newline leaves a beginning of that. The
  table does not fill up, since the newlines read are no more than those of the whole
  input (`MoreLines`); that lines are disjoint (`LineUnique`) tells which line a
  position that is printed now belongs to.
* **uniq.** What is printed, then `prev`, then `curr`, is the input. As `curr` is
  not emptied after a repeat, it holds a part of one line, or the line before once
  more and a part of the next (`CurrHolds`): two short lines fill it at most
  (`UniqRoom`), a comparison succeeds only in the first case, and what is left out
  at the end is that one repeat (`UniqLeftLine`).

`FilterSpec` is the filters' part of `ProgramsSpec`, whose other steps leave their
variables alone.

They hold for every size of the tables, every registry, import set, device set and
set of data, under the assumptions named in the modules (`BoundsAssumption`,
`NamesAssumption`, `BoardAssumption`, `SemAssumption`, `FilesAssumption`,
`SortAssumption`, `FilterAssumption` and the like), which ask for sizes that are
numbers and for marks that differ from data. Nothing is assumed of what modules
pass to the kernel. TLC evaluates them in the runs. Proofs do not need the bounds
of the runs beyond their being numbers.

Model-checked only: the liveness property `ReadyLeavesQueue`, since temporal
reasoning under fairness is beyond the backends used. Every invariant and every
action property of the passing runs is a theorem. Nothing is proved by induction
over data: where a property compares a loop with its whole input, the invariant
carries the comparison from byte to byte.

## 5. Properties a reader should look at first

* `ImplementsRunQueue`: identifiers restored by a reload, slots freed by failed
  loads, and a module that restarts its own slot do not make an instance run twice.
* `RunningIsCalledOrTrapped`: the pointer `run_module` keeps across `m3_Call` never
  writes over another instance.
* `TickLostInSleepOnly`: the one-shot timer is never switched off for good by
  the handler, by a second acknowledgement or by the waiting functions but one.
* `RefsMatchFlags` and `FreeIsEmpty`: `shmem_alloc` clears the wrong address; that
  regions are empty rests on every way of freeing. Clearing the flag ALLOCATED or
  writing past the end does break both, and breaks them only where it was done.
* `LineReachesItsModule`: one pending command line for all spawners, left behind by
  spawns that fail and in slots that are freed; yet `host_get_argv` gives it to the
  modules of one slot only, and to another program only after a failed load there.
* `OneHolder` with `ImplementsCursors`: how far a close of somebody else's number
  reaches.
* `SortedStable` with `SortKeepsLines`: order and completeness together, in the
  presence of a full buffer and an unfinished last line.
* `FoldPromise`, `RevPromise`, `UniqPromise`: what is printed is never wrong, even
  by a program that stops short because its memory is used up.
* `OnlyKnownLeaks`: where open files are lost, and nowhere else.

## 6. Disagreements without a run of their own

Seen while modelling, present in the models unless marked (not modelled):

* A module that traps ends `run_ready_modules_c`; the modules still queued are
  never run, because `proc_schedule` does not return (`process.asm:276`).
* `host_exit` with an identifier above `MAX_MODULES` halts the CPU (1454), WASI
  `proc_exit` always does (2614).
* `proc_restart` and `module_reload` act on modules in any state, the caller
  included, and free a runtime that may be running.
* Slots are never freed after an exit, contrary to `docs/ARCHITECTURE.md:59`:
  16 loads exhaust the table.
* `virtio_irq_handler` ends an interrupt by a value that is no longer the one it
  acknowledged; `irq_entry` does not save x30 (`linkLost`).
* `host_sleep` can swallow the tick; `host_getc` with no character waits for a flag
  that only its return would let anybody clear.
* `semaphore_create` returns the identifier of the next semaphore.
* `shmem_detach` drops a WRITER flag; `shmem_attach` is refused while one is set;
  `shmem_free` ignores the reference count.
* `shmem_set_flag` and `shmem_clear_flag` take any word, the state flags included:
  clearing ALLOCATED leaves a region free with its count and its data (modelled,
  `shmMeddled`). `host_shmem_write` is bounded by the module's memory only and runs
  into the next region (modelled); identifiers and writes that reach memory behind
  the table, and a count carried to 2^32 by attaching, are not modelled.
* Open files are left open at exit; number 0 is never closed by a descriptor,
  0 to 2 never by WASI; a read of a closed descriptor reads open file 0.
* `wasi_fd_close` closes any number above 2, whoever holds it, so that a descriptor
  may go on reading and closing a file that was opened by somebody else (`stale`).
  `host_pipe_close` and `host_net_close` free any descriptor and leave its file open;
  `wasi_path_open` leaves a file open whose number it cannot store (`lost`).
* `init` and `shell` poll `proc_get_status` for modules that cannot run before
  they return.
* `wasm_registry` (866) is declared in one order and given its bytes by index in
  another (5310-5963): from index 3 on a name stands for some other module's
  code, and the last seven names have none (the bad entry of the runs).
* Seven declarations disagree with the imports of modules (`get_tick` as `i()`
  against `I()`, and so on); these modules fail to load (the failing load).
* `_vfs_find_slot` uses x20 and x21 without saving them; negative descriptors
  pass a signed comparison; identifiers from 16 on cannot open files
  (not modelled, except the last: it is a call that fails).
* `log_ring_available` takes the head for the number of unread characters, since
  `log_ring_tail` is aligned away from where it looks (not modelled).
* `event_subscribe` counts a subscriber only past the count, so each new one is
  written over the last, none is found again, and no event is ever delivered.
* A load that fails renames the free slot it chose but leaves the old command
  line there; `proc_restart` of that slot runs the new name with the old line
  (`misplaced`).
* `head -n 0` still reads a line.
* `rev` traps on an empty line; `rev` and `fold` use 16 bytes for each newline and
  trap after some four thousand lines; `fold` puts an empty line behind a line
  of exactly the width.
* `uniq`, `cut` and `sed` drop an unfinished last line (`cut`, `sed`: not modelled).

## 7. Plan

In order, the most important behaviour first. Done: (1) `RunQueue`, `ModuleRuntime`
and proofs; (2) `Preemption`; (3) `Pipe`, `Pipeline`, in one run; (4) the three
tables and `Ipc`; (5) `OpenFiles`; (6) `CommandLines` over the slot table,
`Environment`, `KernelEvents`, and their composition `KernelObjects`; (7) the text
programs, with `Sort` proved; (8) the invariants of `Pipeline` proved from the ring's;
(9) the promises of the filters proved; (10) `Kernel`, the tables' calls between
interrupts.

What could follow:

11. `TextPrograms` over `Pipeline`: what `sort | uniq` prints when the writer's exit
   takes the pipe along.
12. `Preemption` over `ModuleRuntime`, as `Kernel` is over the tables: what
    `host_exit` and `run_module` may rely on when an interrupt comes between their
    steps.
13. The shared iterator of `proc_list_next`, which a module that stops listing
    leaves in the middle.

## 8. Not modelled, and why

* **VirtIO, block, FAT32, network, GPU.** `virtio_read32` returns in the register
  that held the device's base address; the next read of an init function goes to
  the magic number plus an offset. With the memory the manual asks for that is
  plain RAM holding 0, the check fails and the device stays "not ready", so no
  request is ever made. Their interrupts are in `Preemption` as a parameter.
* **Process table, signals, process memory.** Filled by nobody; `proc_init` runs
  after the last module.
* **Allocators, MMU.** Callers are in code that is not reached; the MMU is set up
  once.
* **Kernel log, audit, quotas, permissions, devices, users.** Written by code
  without live callers, or single words that nothing tests. The table of quotas
  has eight entries for identifiers without bound, and no check consults it.
* **TCP/IP.** `net_poll` has no caller; `socket_alloc` loses the number it found, so
  `net_connect` and `net_listen` always answer -1; sending segments is a stub. No
  state of a connection is reached, with a working device or without.
* **Framebuffer, GUI, serial line, kernel shell, system calls, assembly WASI, module
  loader in assembly, `vfs_ops.asm`, `vfs_path.asm`.** Output only, or never called
  by the runtime that boots.
* **Module cache, JIT code generator, persistence, agents, containers, edge,
  neuromorphic, photonic, maintenance and performance parts, boards, x86_64.**
  Initialised or fixed answers, or other builds.
* **wasm3.** A git submodule that is not in the tree: a call returns, traps or goes
  on.
* **tail, grep, cut, sed.** The built modules have a C stack that ends a little above
  65536, the fixed address at which these programs' buffers begin. Arrays on
  the stack (`line_lens` of tail, `pattern` of grep) lie inside the buffers, and
  what the source says is not what runs. The seven programs modelled keep no
  array on the stack while they use their buffers.
* **Other user modules.** Any module may make any call; what `init`, `shell` and `cat`
  do is among it. Both ends of the shell's pipes are closed right after the
  spawn, and its waiting polls modules that cannot run before it returns. Of the
  rest, many cannot run: `workflow_engine`, `pkg_manager` and others import
  functions with types the host does not have; `diff`, `comm`, `cmp`, `cksum`,
  `paste` and `sum` call `fs_open` so that it always answers -1; `xargs` waits for a
  status that never comes.
* **Working directory.** `get_cwd` always answers the root.

## 9. Running

`tlc -config Pipeline_stages.cfg MCStages` and so on (the table in
`PROJECT.json` names module and configuration of each run); `tlapm` on each `*Proofs`
module. `PROJECT.json` maps definitions to source lines, and lists for each
property a wrong version of a definition that violates it; those versions stand
before the definitions they replace, marked "Wrong on purpose".
