# A verification of libcapi

libcapi is the common code of programs that hand work to an accelerator behind
IBM's Coherent Accelerator Processor Interface (CAPI): a C library that keeps a
ring of work items in shared memory, an emulator of the accelerator for machines
without one, a thread-safe fifo and a thread pool, and the VHDL of the
accelerator function unit (AFU) that serves the ring in hardware.

This directory holds TLA+ modules that model the parts of it in which threads
(or clocked processes) meet, TLC configurations that check them on small
instances, and proofs that TLAPS checks for every instance. `PROJECT.json` maps
each definition to the lines it models and lists the runs, the mutants (what a
plausible bug would be and the property that catches it), the findings, the
hazards and the theorems.

## The system

| Part | State | Operations | Meets |
|---|---|---|---|
| `src/wqueue.c`, the work queue | the ring `wed`, `wed_push`, `wed_pop`, two mutexes, one condition variable, `xor_sum` | `wqueue_init`, `wqueue_push`, `wqueue_pop`, `wqueue_cleanup` | pushers and poppers through the mutexes; the AFU through the flags of each slot and three registers |
| `src/wqueue_emul.c`, the software AFU | the AFU thread, its index, `queue_len`, `stop`, where its registers are, a mutex and a condition variable | `afu_thread`, open, attach, free, register reads and writes | the work queue (`struct cxl`), the program (`proc_run`, `proc_mmio_*`, which it may override) |
| `rtl/wqueue.vhd`, the hardware AFU | a state machine, command credits, read and write buffers | one step per clock edge | the ring through the Power Service Layer (PSL): commands, responses, buffer transfers |
| `rtl/read_queue.vhd`, `write_queue.vhd`, `sync_fifo_fwft.vhd` | a memory, addresses, `written` bits | one step per clock edge | `wqueue.vhd`, `snooper.vhd`, `tag_anal.vhd` |
| `src/fifo.c` | a ring of pointers, `readers`, one mutex, two condition variables | `fifo_open`, `fifo_close`, `fifo_push`, `fifo_pop`, `fifo_max_fill` | threads of the program |
| `src/worker.c`, the thread pool | an array of thread handles, one of CPU times | start, join, finish, print, free | threads of the program, `pthread_create`, `pthread_cancel` |
| `src/snooper.c`, `rtl/snooper.vhd`, `rtl/tag_anal.vhd` | a trace of bus events, a checksum, tag statistics | register reads | the bus of `wqueue.vhd` |
| `rtl/mmio.vhd`, `rtl/build_version.vhd`, `src/build_version.c` | a register pipeline; a constant string | register reads and writes | PSL, the other blocks |
| `src/capi.c`, `src/utils.c`, `rtl/misc_pkg.vhd`, `rtl/psl_pkg.vhd` | none | small helpers, constants | |

`rtl/std_logic_1164_additions.vhd` is vendored; `fpga/`, `scripts/`, `waf` and
`wscript` build the project.

How an item travels: a pusher waits, under `push_mutex`, for a slot without
flags, fills it and sets READY last, then writes the trigger register. The AFU
finds the slot READY and not DONE, runs it, writes the result and exchanges
READY for DONE. A popper, under `pop_mutex`, finds it DONE, copies it, clears
the flags, and signals one pusher under `push_mutex`. No lock covers all three:
the flags of the slot are the lock.

What is hard, and what would make it right:

- **Hand-over by flags** (`wqueue.c:142,174`, `wqueue_emul.c:107`): no two
  threads ever work on one slot; completions come back in order, exactly once,
  each with the answer to its own request.
- **Waiting for the trigger** (`wqueue_emul.c:107-110,227-236`): a trigger or a
  stop that arrives between the AFU's test and its wait is not lost.
- **One signal per freed slot, sent after the flags were cleared without
  `push_mutex`** (`wqueue.c:197-205`): no pusher sleeps beside a free slot.
- **The time-out of `wqueue_pop`** (`wqueue.c:178`): giving up loses nothing.
- **Start, stop, start again** (`wqueue.c:92-101`): the statics are reset, and
  the AFU thread runs before its `queue_len` register is written.
- **Widths** (`wqueue_emul.c:132`, `wqueue.c:188`): byte lengths are 32-bit
  products.
- **The fifo's two condition variables** (`fifo.c:121-161`): no lost wake-up, a
  close that races pops, indices that wrap by a mask.
- **The hardware**: command credits, tags and buffers that are reused while
  transfers are in flight, a trigger that arrives while the AFU reads the item
  it is about, error responses and the bus restart.
- **Setting up** (`wqueue.c:51-110`, `wqueue_emul.c:165-236`): eight calls that
  may fail one by one, a thread that uses what they allocated, an emulator that
  has to find out from the first write where its registers are.
- **The thread pool** (`worker.c:58,120`): threads look for their own handle in
  an array that is still being filled; a start that fails cancels threads and
  frees the array without joining them.
- **The snooper** (`snooper.vhd:97-181`, `tag_anal.vhd:102-261`): reads of a
  register remove what they read, some clocks later; `full` and `empty` are
  registers; a tag is set and cleared in different clocks.

The full list, each at its line, is under `hazards` in `PROJECT.json`.

## Modules

### The contract: `WorkQueue`

What the queue promises, whatever implements the AFU: a bounded pipe of two
sequences, `ready` and `done`, and the completion each popper holds. Requests
enter at the tail when there is room, are completed in order, each with an
outcome that its request allows, and are retired in order.

### `Wqueue`, with `WqueueProps`, `MCWqueue`, `WqueueProofs`, `WqueueRefinement`

`wqueue.c` and the AFU of `wqueue_emul.c`, one action per stretch of code
between two accesses to shared state.

| Code | Actions |
|---|---|
| `wqueue_init` | `Attach` (up to `afu_attach`, which starts the AFU thread), `InitDone` |
| `wqueue_push` | `PushCall`, `PushLock`, `PushTest`, `PushSleep`, `PushSpurious`, `PushFill`, `PushPublish`, `PushTrigger`, `PushAdvance` |
| `wqueue_pop` | `PopCall`, `PopTake` or `PopMiss` (poll, time out), `PopRead`, `PopClear`, `PopAdvance`, `PopSignal` |
| `afu_thread` | `AfuCheck`, `AfuLock`, `AfuTest`, `AfuSleep`, `AfuSpurious`, `AfuRun`, `AfuStore`, `AfuPublish`, `AfuNext` |
| `wqueue_cleanup` | `ForceStop`, `AfuFree` |

`pthread_cond_wait` is two steps (release and wait; be woken and lock again) and
may wake spuriously. A trigger wakes the AFU only if it is waiting at that
moment. The uninitialised `queue_len` register is any value when the AFU thread
starts; the uninitialised `dst_len` of an item without buffers is any of
`JunkLens`. `proc_run` is the weak default of the emulator (`ProcResults = {}`)
or any of a set of results (an override, outside this repository).

The data are abstracted to what the properties tell apart: pointers are model
values, the 32-bit width of lengths is the constant `Word`, the cache line is
the constant `CacheLine`, and the checksum, which XORs every line, is the set of
watched lines that occur in it an odd number of times (XOR works on each
coordinate alone, so equal sets give equal sums). Time stamps and the
`item_count` debug counter are left out. Callers push and pop while the queue is
up and have returned before `wqueue_cleanup`, which frees the ring under them
otherwise.

### `Fifo`, with `FifoQueue`, `MCFifo`

`fifo.c`: every access is under the mutex, so one action is one stretch of code
with the mutex held. `FifoQueue` is the promise: a bounded first-in first-out
stream that ends when everybody has closed it and it is empty. Producers open,
push and close; consumers start after every producer has opened (a consumer
that pops before that is told that the stream is over: `fifo.c:148`) and pop
until they get NULL. `Mask` is `x & mask` on the values that occur,
-(entries - 1) to entries.

### `WqueueRtl`, with `SyncFifoFwft`, `ReadQueue`, `WriteQueue`, `WqueueRtlProps`, `MCWqueueRtl`, `WqueueRtlProofs`, `WqueueRtlLines`

`rtl/wqueue.vhd` and the three queues it instantiates. All of it runs on one
clock, so one action, `Clock`, is one rising edge: it has one conjunct per VHDL
process, and each computes the new value of its registers from the old ones. The
delays that make this block hard (`has_room`, `flushed`, `rq_empty` and `full`
are registers, one or two cycles behind what they report) are thus those of the
code.

| Code | Definitions |
|---|---|
| the state machine | `StateMachine`, one operator per state: `Idle`, `LoadQueueItem`, ..., `Done`; `Goto` is the override by `force_stop` |
| `TRIG`, `DONE_CHECK`, `ROOM_CHECK`, `QITEM_READ`, `WDATA`, `ERROR_CHECK`, `WED_ADDR_GEN`, `DST_ADDR_P`, `RD_COUNT`, `REG_WRITE_P` | `Trig`, `DoneCheck`, `RoomCheck`, `QitemRead`, `Wdata`, `ErrorCheck`, `WedAddrGen`, `DstAddr`, `RdCount`, `RegWrite` |
| the instances of the read queue, the write queue and the address fifo | `ReadQueue`, `WriteQueue`, `WriteAddrFifo`: how their ports are wired; `RqEdge`, `WqEdge`, `FifoEdge`: their registers, as a function from the record of the old ones to the new |

Around the block stand three parties that are not in this repository, or not in
this module, and that are modelled by what they may do to it:

- *The bus* (PSL) holds the commands it has taken as a set. In a cycle it may
  fill a buffer beat, ask for one and answer a command: any command, in any
  order, up to `BusWidth` events. It returns one credit with each answer. A
  command in `Failing` may be answered with a fault; then every command is
  answered `FLUSHED` until the restart has been answered. A written element is
  visible as soon as its bytes are known, a written line only when it is
  answered: the orders that are worst for software.
- *The processor* is a pipe of `ProcRoom` beats that hands on what it reads, or
  one that only writes, and may pause at any cycle; whether it changes its data
  is fixed per request (`odirty`).
- *The software* pushes, pops and stops as `wqueue.c` does, in whole calls: its
  own interleavings are the subject of `Wqueue`. `MmioWrites` delivers each
  register write after any delay.

`bus` being a set, two equal commands would be one; `TagsUnique` says that there
are none. Addresses are pairs of slot and line, lines are pairs of named beats,
so that a beat that lands in the wrong place, or twice, or not at all, shows.
`dst` is taken to be aligned and the fields of an element that is not READY are
not looked at.

### `WqueueSetup`, with `EmulMmio`, `BuildVersion`, `WqueueSetupProps`, `MCWqueueSetup`, `WqueueSetupProofs`

`wqueue_init` and `wqueue_cleanup` call by call, for hardware and emulator
(`cxl`), every call that can fail failing at any time. What is allocated is the
set `heap`; the AFU's thread is only running, told to stop, or ended (the rest of
it is `Wqueue`). `EmulMmio` holds the emulator's registers as functions of
`struct cxl_afu_h`, `BuildVersion` the register block of the build version, both
of the emulator and of `build_version.vhd`.

| Code | Actions |
|---|---|
| `wqueue_emul_init` | `wqueue_emul_init` |
| `wqueue_init`, `afu_init` | `InitCall`, `Map`, `MapFails`, `WriteLen`, and back: `FreeWed` |
| `emul_afu_open_dev`, `cxl_afu_open_dev` | `OpenEmul`, `MutexInit`, `CondInit`, `OpenUnwinds`; `OpenProper`, `OpenFails` |
| `emul_afu_attach`, `cxl_afu_attach` | `AttachEmul`, `CreateThread`; `AttachProper`, `AttachFails` |
| `wqueue_cleanup`, `emul_afu_free`, `cxl_afu_free` | `Cleanup`, `FreeEmul`, `JoinUnset`, `Destroy`; `FreeProper` |
| `emul_mmio_*` | `ReadRegister`, `ReadHalf`, `WriteOther` with `Read64`, `Read32`, `Write64`, `Write32` |
| `build_version_get`, `build_version_print` | `GetCall`, `GetRead`, `GetStamp`, `GetTrim`, `GetReturns`, `build_version_print` |

Addresses count 32-bit words. Of the text a word holds one character, where the
code has four; so a 64-bit read moves two. `malloc` leaves fields `Unwritten`, and
so does a read that writes nothing to the caller's buffer. `JoinUnset` is
`pthread_join` on a handle that was never set: it returns, or it does not.

### `Worker`, with `WorkerProps`, `MCWorker`, `WorkerProofs`

`worker.c`, one action per access to the arrays: the caller in `worker_start`
(`StartCall` to `StartReturns`, with each `malloc` and each `pthread_create`
failing), `worker_join`, `worker_print_cputime` and `worker_free`; the threads
in `worker_finish_thread` (`FinishCall`, `FindNext`, `Found`, `NotFound`,
`Record`, or `FindFreed` when the array is gone). The CPU time of a slot is
modelled by whose it is, and `malloc` may return an array full of old handles.
`stray` records the threads that reached for memory that is not the pool's any
more.

### `Snooper`, with `TagAnal`, `SnooperProps`, `MCSnooper`, `SnooperProofs`

As in `WqueueRtl`, a step is one rising edge. `TagAnal` is `tag_anal.vhd` as a
function of its registers, on two instances of `SyncFifoFwft`. `Snooper` has the
trace of `snooper.vhd` (`RegInput`, `RegRead`), the register pipeline of
`mmio.vhd` (`Access`) and the loops of `snooper.c` that read until a word is 0
(`DumpWord`, `DumpEnds`, `StatsTime`, ...). The bus commands and answers as it
likes, misuse of tags included. A word of the trace is the number of its event;
the times are the clocks a command took.

## Runs

| Run | Instance | What it shows |
|---|---|---|
| `wqueue_safety` | 2 pushers, 2 poppers, ring of 2, an in-place item and a copied one | `TypeOK`; `SlotOwnership`, `OwnersOnly`: the flags are a lock, and a completion is cleared only after it was copied; `NoLostTrigger`, `StopIsHeard`; `WakeupsSuffice`: while a pusher waits, every free slot has a thread on its way to take it or to signal for it |
| `wqueue_refines` | 1 pusher, 2 poppers, ring of 2; items without a source (they fail) and recycled ones; a processor that returns -1 and an odd length; time-out at the first poll | `ImplementsWorkQueue`; `ChecksumAgrees`: `wqueue_xor_sum` is the sum over what the AFU loaded whenever nothing is outstanding |
| `wqueue_live` | 2 pushers, 1 popper, ring of 2 | `ReadyIsProcessed`, `PushesProgress`, `CleanupReturns` |
| `wqueue_dirty` | items that are pushed again with the flags of their completion | violated: see Findings |
| `rtl_lines` | ring of 1, elements of 0 and 5 lines in buffers of 4, copied or only written, room for 2 commands | `TypeOK`; `QuietBus`: an element is loaded, written back, or the bus restarted, only with nothing else in flight; `RoomIsLimited`; `TagsUnique`; `LinesInPlace`; `DoneMeansWritten`: DONE is seen only when all is in place |
| `rtl_refines` | ring of 2; copying, write-only and silent elements of 1 line | `TriggerComes`; `ImplementsWorkQueue`: the same contract as the emulator's |
| `rtl_faults` | reads and writes of lines fail, a stop at any time | `OwnsWhatItWrites`, `ReadyIsDone`, `StopCompletes` |
| `rtl_badload` | the load of an element fails | violated: see Findings |
| `fifo` | 2 producers, 2 consumers, ring of 4 | `TypeOK`, `ProducersWoken`, `ConsumersWoken`, `EndIsFinal`; `ImplementsFifoQueue`; `PushReturns`, `ConsumersEnd` |
| `worker_pool` | up to 2 threads, 3 handles | `TimesAreOwn`: each line printed is the time of the thread created in its place; `OnlyCancelledStray`; `NothingLeftBehind`; `CallsReturn` |
| `wqueue_setup` | 2 places of the register block, 80 texts, rings of 1 and 3 | `AllOrNothing`: a return leaves a whole queue or nothing, and nothing is freed under a running AFU; `RegistersFound`; `VersionIsTrimmed`; `SetupReturns` |
| `snooper` | 10 events, or 3 commands on 2 tags with the tag analyser, 2 dumps | `TraceTrue`: in order, nothing twice, and what is missing is what may be; `TimesTrue`: times taken, in the order of the responses, none missing but the hidden and the spilled; `AlarmsTrue` |

**Bounds.** A ring of two wraps after two items, so each slot is reused with
every thread at every place. Two threads per role make the mutexes matter and
"one signal" differ from "all". With `CacheLine = 2` and
`Word = 8`, length 3 is not a whole number of lines and length 8 is where the
product wraps. The state spaces are finite without further bounds: queues are
restarted without limit, and nothing counts. The 1000 polls of `wqueue_pop` are
`PopTries` (2, or 1): the properties do not depend on the number. In
`wqueue_safety` threads of a role are interchangeable, and the run uses that
symmetry; the runs of liveness properties do not. In `fifo` one value is enough,
as the order is proved (`FifoIsAStream`); with an entry kept free, a ring of four
holds three, and wraps.

In the hardware, `AddrBits = 3` gives buffers of four lines (the code has 32),
and elements of five lines fill and wrap them. `ReadSlack` is 4 of the
8 beats (the code: 6 of 64); with 2, `TagsUnique` fails, as the slack then no
longer covers the two cycles by which `full` lags. `DoneBits` is the code's 8
where `DoneMeansWritten` is checked; 1 would break it. Where it is not checked, 2
or 3 keep the runs small. Room for two commands makes `has_room` bite. There
is no other bound: the block has no counter that grows.

In `wqueue_setup` the version's field has six words; the texts are all of up to
three characters and of exactly six, of a letter and a blank, and two that are
longer. The blocks touch each other on either side. `item_count` stops at
`MaxItems`. In `worker_pool`, three handles let a pool start while threads of a
failed one are still there. In `snooper`, the trace's fifo has 8 words with the
code's `WriteSlack` of 4, so that ten events overrun it, and the last fifo of the
tag analyser has 4, so that with its slack of 2 it is full and loses times;
`MaxTraced`,
`MaxTagged`, `MaxTime` and `MaxDumps` bound what counts. Three bounds are on what
is explored: dumps of the trace run without the tag analyser (they share no
register), a tag is not misused while times are read, and after it was the bus
only answers and the program only asks for the alarm. `Rest` is an assumption on
the AFU: a tag is not used again within three clocks of its response. With less
the alarm goes off falsely (1) or the time is one clock short (2).

**Fairness.** A thread inside a call goes on (weak fairness on its steps), and a
thread that asks for a mutex gets it in the end although others come and go
(strong fairness on the steps that lock); pthread mutexes do not promise this,
but schedulers do in practice, and every caller releases each mutex after
finitely many steps. Spurious wake-ups, new pushes and shutdown are never
forced. `BusySpec` adds that callers keep calling `wqueue_pop`: the ring does
not drain by itself. In the fifo, a producer closes in the end and a consumer
pops until it is told to stop. In the hardware the clock ticks, a command that
the bus has taken is served, the processor puts out what it holds and register
writes arrive, each after any delay; software is not forced to do anything. In
the set-up the caller goes on inside a call and the AFU thread notices a stop
(`StopIsHeard` of `Wqueue`). In the pool the caller does not stop inside the
library, and start routines end (`worker_join` waits for them).

## Findings

1. `wqueue_dirty`. `wqueue_push` strips only DONE from the caller's flags, and
   the emulator only ever sets DIRTY. An item that is pushed again as it was
   popped reports DIRTY although nothing was changed. The documentation says the
   flag reports a change, and the VHDL overwrites the bit.
2. `rtl_badload`. When the load of an element fails, `QITEM_READ` keeps the
   registers of the element before, but reports it as loaded. With its READY the
   block goes on to write DONE and an error into the current slot, ready or not.
   The documentation says the hardware waits at an element that is not READY.

More that the models show, about which no text says anything:

- `has_room` lags the credits, so one command more than the bus has room for may
  be issued (`RoomIsLimited` says it is never two). `WAIT_FOR_DONE` does not test
  `ah_cvalid_i`, so a stop in the cycle of a command can raise `wqueue_done`
  while that command is outstanding.
- When the emulator cannot create its thread, `emul_afu_free` joins a handle that
  was never set, as `stop` is 0 by then (`JoinUnset`; `SetupReturns` has to
  except it).
- Cancelled threads of a start that failed may still be looking for their handle
  in the arrays that were freed (`OnlyCancelledStray`: nobody else does).
- `snooper_dump` may lose one word for each dump (`TraceTrue`), and
  `snooper_tag_stats` one time for each call: the last time is hidden as long as
  no other is behind it, and the read that finds it hidden removes it. A read
  that comes just before a new time repeats the old one, and a time that finds
  the last fifo full is lost (`tag_anal.vhd:193`, `bus.spilled`). `TimesTrue`
  allows for all three.

## Proofs

### The work queue

`WqueueProofs` proves, for every number of threads, every ring length, every
processor and every set of items (`QueueAssumption`, `LengthAssumption`,
`ThreadAssumption`, `ItemAssumption`, `ProcAssumption` say no more than that they
are of the right kind):

| Theorem | Property |
|---|---|
| `TypeCorrect` | `TypeOK` |
| `SlotsAreOwned` | `SlotOwnership` |
| `TriggersAreHeard` | `NoLostTrigger` |
| `StopIsNotMissed` | `StopIsHeard` |
| `OwnersOnlyHold` | `OwnersOnly` |
| `WakeupsAlwaysSuffice` | `WakeupsSuffice` |
| `ChecksumsAgree` | `ChecksumAgrees` |

The inductive invariant `IInv` is built in four layers, each preserved with the
help of the ones before. `Base`: types, and where threads can be in each phase of
the queue's life. `Locks`: who holds which mutex follows from where the threads
are. `Ownership`: a thread between its test of the flags and its last access to
the slot still finds the flags it tested; this needs all three kinds of thread
at once, because each is kept out by a flag that another sets. `AfuWakes`: the
trigger, the stop and the AFU's mutex.

`WakeupsSuffice` is not inductive with these. It also needs to know that a
pusher sleeps only when *no* slot is free, though it tests only one: `RingShape`
says that the free slots are one arc of the ring, from `wed_push` to `wed_pop`,
so that if the slot at `wed_push` is busy all are. From there `NextWakeups`
counts: a popper adds one free slot and one signal, a signal turns into one
woken pusher, a pusher turns into one filled slot.

`ChecksumAgrees` speaks of a moment when nothing is outstanding; `SumsApart` says
what holds in between. A line is in one of the two sums and not in the other
exactly when an odd number of slots hold it between `calc_xor` in `wqueue_push`
and the AFU's load (`Ahead`): the slots that are READY and not yet loaded, and
the one that is filled and not yet published. That these are the same line is the
point: `calc_xor` sums the slot before its flags are written, XORs the new flags
in, and the slot must have had none.

From the same assumptions, `WqueueRefinement` proves that the work queue
implements the contract:

| Theorem | Property |
|---|---|
| `WorkQueueIsAPipe` | `ImplementsWorkQueue` |

Its invariant `RInv` adds two parts to `IInv`. `RingOrder`: from the slot that is
retired next the ring holds first the DONE slots, then the READY ones, then the
free ones, each a run without gaps, and the indices of AFU and pushers are where
the runs meet. The four flag writes each move one end of a run by one slot
(`RunsPublish`, `RunsComplete`, `RunsTake`, `RunsClear`), and no other step moves
any (`QuietSteps`). `SlotData`: a READY slot holds what was pushed until the AFU
stores its answer, and the answer depends on the request alone. The sequences of
the contract are windows of the ring (`SeqsNow`), and a window that gains or
loses a slot is the sequence with an element appended or without its head
(`WindowAppend`, `WindowTail`). `PushPublish` is then `Submit`, `AfuPublish` is
`Complete`, `PopRead` is `Retire`, `PopSignal` is `Return`, `wqueue_init` is
`Reset`, and every other step is none of the contract's business.

### The fifo

`FifoProofs` proves, for every ring length and every finite set of producers and
of consumers (the proofs need of `Entries` only that it is positive):

| Theorem | Property |
|---|---|
| `TypeCorrect` | `TypeOK` |
| `ProducersAreWoken`, `ConsumersAreWoken` | `ProducersWoken`, `ConsumersWoken` |
| `EndStaysFinal` | `EndIsFinal` |
| `FifoIsAStream` | `ImplementsFifoQueue` |

The wake-up invariants are again a count: each step of a caller changes the
number of free entries, of stored values and of woken sleepers together
(`SignalWakes`, `LeavesOne`, `WakesOne`, `SpaceSteps`). For the refinement, the
abstract queue is the sequence of entries from `pop_ptr` to `push_ptr`; `StoreAppends` and
`TakeRemoves` say what a store and a take do to it although indices wrap by a
mask.

### The hardware AFU

`WqueueRtlProofs`, and `WqueueRtlLines` the last three, prove for every ring,
request, credit limit, buffer size and order of the bus's events:

| Theorem | Property |
|---|---|
| `RoomIsNeverOverdrawn` | `RoomIsLimited` |
| `BusIsQuiet` | `QuietBus` |
| `WritesOnlyWhatItOwns` (if loads of elements do not fail) | `OwnsWhatItWrites` |
| `NoTriggerIsLost` (if loads of elements do not fail) | `TriggerComes` |
| `TagsAreUnique` | `TagsUnique` |
| `TypeCorrect` | `TypeOK` |
| `EveryLineInPlace` (if loads of elements do not fail) | `LinesInPlace` |
| `WhatIsDoneIsWritten` (also, and if `DoneBits` is at least 3) | `DoneMeansWritten` |
| `BlockIsAPipe` (under the same two) | `ImplementsWorkQueue` |

They assume `RtlAssumption` (types), `NoneAssumption` (the value `None` is none of
the others), and from `TagsAreUnique` on also `PowerAssumption`, arithmetic of `2^AddrBits`
that the prover does not know, with at least two lines in a buffer, and
`SlackAssumption`: the read queue says that it is full while four beats
(`read_queue.vhd` keeps more) are left.

Four layers again. `Room`: the credits bound what is outstanding, and as two
commands are never issued in consecutive cycles (`CommandsAreSpaced`) the late
`has_room` lets at most one through too many. `InFlight`: what may be outstanding
in each state. It rests on `flushed => bus = {}`, which is not obvious, since
`flushed` is a cycle old: it says that a cycle ago nothing was outstanding *nor
on the command port*. `QuietBus` alone is not inductive, because a state hands
the next one a quiet bus. `Ownership`, with `Names` and `Faults`: the element at
`wed` is READY from the end of its load to its write-back. It needs to know that
the bus serves again when an element is loaded (`Faults`), and that the bytes of
one write-back arrive once (`Saves`); `rtl_badload` shows that the hypothesis on
loads is needed. `Heeded`: from the first beat of a load on, the block has either
seen a READY element or still has a trigger to come (`TriggerKept`), which is
what an idle block must know of an element it found not READY: before that beat
a trigger may be dropped, and the element has yet to be read.

What remains is about the lines themselves. `Rings`: a tag is a
line of a ring, so unique tags are a fact about rings, and alone are not
inductive: that the next line asked for is free follows only from how full the
ring is. In the read queue the lines from the read to the reserve address are
held, and each is either outstanding on the bus or written (`ReadRing`); the
`full` flag is a cycle late, which is what the slack is for. In the write queue a
line that is filled is queued in the address fifo, offered at its output, on the
command port or on the bus, and at one of these only (`WriteRing`). The reset of
the queues by `clear` is safe because nothing is under way then (`Resets`).
`Types` and `Scalars` are the rest of the types.

In `WqueueRtlLines`, `Place` and `Contents` say what is in the lines. A ring has
no line numbers: the number of a line follows from its distance to the beat being
read (`ReadLine`) or being written (`WriteLine`); no register holds it. `Source`:
whatever is outstanding for, or written in, a held line is the line with this
number, and the beats reach the processor in order; `OwnBeats` is the same for a
processor that only writes. `Destination`: each filled line waits with the
address of its number. Contents are claimed while an element is served without a
fault (`Serving`): after one, lines may be missing and nothing is written any
more. `Place` says that an element whose lines move is READY in memory, so that
no other request of the software shares its buffer.

`DoneMeansWritten` needs that no line is *skipped*, which is the harder half: the
block does not count what it has written. It calls an element done when
`DoneBits` successive samples found the source read, the processor and the
queues empty, and each of these is seen late. `Promise` is what is inductive:

- `Counted`: the counter of completed reads and the lines still coming make up
  what is reserved in the read queue, so that an exhausted counter means that
  every line of the source has come.
- `Sampled`: what one, two and three successful samples say. After one, all beats
  have been popped or the last are in the queue's output buffer, where
  nothing holds them up; after two, no address is offered to the command port, and
  the processor has the last beats or none are left; after three, every beat has
  passed and every line has been handed over (`Finished`). This is where three
  samples are needed. The code has eight (`is_done_d`, `wqueue.vhd:200`).
- `NoneSkipped`: every line that the processor has filled is in memory, or is queued,
  offered, on the command port or on the bus.
- `Errors`: an error ends the service of the element and is remembered until the
  write-back reports it. `Marked`: `dirty` says whether a line is in memory or on
  its way.
- `Untouched`: an element that has yet to be loaded has nothing in its buffer.
  `Truthful`: what a write-back will say (`Settled`) is true from the command to
  the bytes in memory (`Unsaid` is a write-back whose bytes are still to come).

The hypothesis on samples is not idle. With `DoneBits = 1` TLC finds an element
that says DONE while a line is still in the write queue, with 2 it finds none
in the instances here, and the proof does not go through.

`BlockIsAPipe`: the block and its software, over faults and forced stops, are the
bounded pipe of `WorkQueue`. Its invariant is `Handled`, for which `WorksOn` says
on which element the block works: the one at `wed` while it is streamed and
reported, and after that the one whose write-back is on its way, when `wed` may
have gone on.

- `Carried`: the element that the block has loaded is the one it works on, and
  that is READY in memory with the same request.
- `Measured`: no more lines are counted than the request has. `Contents` says so
  only while nothing fails; here it must also hold for an element that a fault has
  cut short, because its answer is at most as long as its request. `Coded`: such an
  answer has the code of the fault, and perhaps that of the flush.
- `InOrder`: the ring is, from `pop` on, a run of DONE elements and one of READY
  elements up to `push` (`Runs`); the block works on the first READY element, if on
  any (`Oldest`), and `wed` is there or, once the write-back is issued, one
  further. A forced stop is the difficult case: it leaves `wed` where it is, with or
  without the write-back under way, and whether the element is done is decided by
  the bytes that still come.

An element is submitted when its flags say READY, completed at the edge that
fetches the last bytes of its write-back (`Completes`), and retired when it is
popped. Each of these moves one end of a run by one (`RunsPublish`,
`RunsComplete`, `RunsTake`); the sequences of the pipe are windows of the ring,
whose moves `WindowAppend` and `WindowTail` relate to `Append` and `Tail`. Every
other edge is a stutter (`WorkEnds`).

### Setting up

`WqueueSetupProofs` proves, for every place of the program's register blocks that
do not overlap, every length of the ring, every build version and every register
read (`PlaceAssumption`):

| Theorem | Property |
|---|---|
| `SetupIsAllOrNothing` | `AllOrNothing` |
| `RegistersAreFound` | `RegistersFound` |
| `VersionComesTrimmed` | `VersionIsTrimmed` |

`HeapHeld` says what is allocated at each step, `ThreadHeld` where the AFU runs.
They need `NotStopped`: that no other write of the program can be taken for a
stop, because the emulator has learnt the right place from the first. The second
theorem adds `Placed` (the emulator's length is the program's) and `Asked` (what
was read belongs to this session). For the third, a version is any text without
NULs (`VersionAssumption`). `Buffered` follows the loops of `build_version_get`:
the characters before `i` are those of the padded version or, where the program
does not answer, zeros; while the end is trimmed, everything behind `i` is a NUL
where the version has a blank. The first NUL of the buffer is then where the
trimmed version ends (`BufferIsTrimmed`), also when all of it is blank.

### The thread pool

`WorkerProofs` proves, for every number of threads and of handles
(`PoolAssumption`):

| Theorem | Property |
|---|---|
| `TypeCorrect` | `TypeOK` |
| `TimesAreTheirOwn` | `TimesAreOwn` |
| `OnlyTheCancelledStray` | `OnlyCancelledStray` |
| `NothingIsLeftBehind` | `NothingLeftBehind` |

A thread finds its slot although the slots behind may hold its own handle from an
earlier life: `Searching` says its index has not passed its slot, `Owned` that no
slot before holds its handle. `Recorded` follows the CPU times up to the print.

### The snooper

`SnooperProofs` proves, for any tags, any traffic on the bus and every size of the
fifos that the assumptions below allow:

| Theorem | Property |
|---|---|
| `AlarmsAreTrue` | `AlarmsTrue` |
| `TraceIsTrue` | `TraceTrue` |
| `TimesAreTrue` | `TimesTrue` |

The first needs a `Rest` of at least three clocks. Until the first misuse, the
tags tracked are those in use and the one answered a clock ago (`Tracked`); from
then on the alarm is raised or is about to be (`Raised`).

The second needs a `WriteSlack` of two words at least and room for two words
besides (`TraceAssumption`; the code has 4 of 2048). Its invariant `TraceInv` has
four parts. `Filled`: the fifo's memory always has a free word, and two as long as
`full` is not raised; since `full` is a clock behind the addresses and the word is
written two clocks after the test, this is where the slack goes. It is what makes
`empty` and the address arithmetic right (`FifoStep`, stated for a fifo of any
size and slack, as the times need it too). `Asked`: the word that
`RegRead` removes is the one that was sampled a clock before. `InOrder`: the words
printed, the one the program is given, the one at the fifo's output, those in
memory and the one about to be written are in the order of the bus. `Accounted`:
a step loses the event of its clock, when there is no room (`crowded`), or the word
that comes to the output between the sample that found none and its removal, for
which the dump ends; nothing else is lost.

The third needs tags that are numbers (`TagsAssumption`: `Find` chooses the
greatest), a word at least in the queue in the middle and two in the
last (`TimesAssumption`; the code has 16 and 4096). Its invariant `TimesInv` speaks
of traffic up to the first misuse of a tag. A time passes through eight stages
between the response and the last fifo. `Counted`: the counter of a tag in use is
its age less one, a stage holds one tag at most, and the counters of all other tags
are 0. `Drained`: the queue in the middle is read as it is written, and never has
more than one word in memory. `InStages`: what a stage holds is the time at a known
position of `bus.took`, the history of times taken, counted back from its end by
the stages in use before it (`At1` to `At8`), so that the first `Recorded` of them
have left the last stage. `Roomy` is the free word of the last fifo, `AskedTime` the
access under way and what it has sampled. `Embedded` is the order: the times
printed, the one the program is given and those in the last fifo, taken as one row
(`Row`), are found at increasing positions among the first `Recorded`, as long as no
time was recorded while the program was reading (`bus.mixed`); `Sourced` is what
is left without that. `AllCounted`: what the row lacks is no more than the calls
that ended, the one about to (`Hidden`) and the times spilled. A step takes at most
one word out of the row and adds at most one at its end (`RowMoves`), so the
positions of the others serve again (`EmbedMoves`).

`TimesTrue` counts `bus.spilled` among what may be missing: without it the bound
holds only until the last fifo is full for the first time.

### Only model-checked

Liveness: fairness is out of the prover's reach. Every safety invariant of a
passing run is also a theorem.

## Not modelled, and why

- *Weak memory.* The models are sequentially consistent. `wqueue_pop` has no
  barrier between reading the flags and the fields of a slot, which matters on
  POWER and not here.
- *Items of 4 GiB or more.* The 32-bit product of `wqueue_emul.c:132` and
  `wqueue.c:188` wraps in the model as in the code, but no run has such an item:
  what holds of it is only that less than all of it is processed.
- *Of the snooper*: the checksum of the lines read, the usage counters with their
  freeze, `tag_bad`, reset while running, the text printed; `snooper_dump` does
  not look at the result of `mmio_read64`, and no read fails here. Tags above 127,
  which the tracking vector has no bit for, do not occur. Of `mmio.vhd`: the
  configuration space, parity, the choice of a half in a 32-bit read.
- *Of setting up*: `posix_memalign` failing, after which nothing has happened;
  `wqueue_calc_duration`, arithmetic on time stamps. The software and the hardware
  AFU differ in what a read of `queue_len` returns (the length, or one less);
  only the emulator's reads are checked.
- *Of the fifo*: `fifo_new`, whose sizes of 0 and 1 pass its check and make a
  fifo without room, and a consumer that pops before the first `fifo_open`.
- *While the hardware runs*, the credit limit and the ring length stay as they
  were set: `wqueue_set_croom` in the middle of an element is not modelled.
- libcxl, the PSL, an application's `proc_*` and start routines are modelled by
  what the code does with them. Time stamps, printing, the build scripts and
  vendored code are left out.

## Plan

Done: `WorkQueue`, `Wqueue`; `Fifo`, `FifoQueue`; `SyncFifoFwft`, `ReadQueue`,
`WriteQueue`, `WqueueRtl`; `WqueueSetup`; `Worker`; `Snooper`, `TagAnal`; their
runs and the proofs above. What would come next is `wqueue_set_croom` and a new
ring length while the hardware runs.
