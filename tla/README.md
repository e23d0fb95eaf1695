# Verification of the VA416x0 flight software

This directory holds TLA+ models of the F Prime platform support for the Vorago
VA416x0 (`src/Va416x0`), the TLC configurations that check them on small
instances, and proofs checked by TLAPS.

The software is bare metal: one core, no tasks and no blocking. A main loop runs
once per RTI (real-time interrupt) and dispatches every component in turn; the
rest happens in interrupt handlers, which preempt the main loop and, when of
higher priority, each other. What is hard is what happens between two
instructions of the one while the other runs; and, where external SRAM, a DMA
engine or a timer is shared with hardware or with the ground data system (GDS)
on the debug port, what happens truly at the same time.

## 1. Inventory

Each entry gives the state a part keeps, its operations, whom it interacts with,
what is hard about it, and what makes it correct. The last column names the
module that models it; `-` is explained under *Not modelled*.

### Svc

| Part | State | Operations and partners | Hard | Correct when | Module |
|---|---|---|---|---|---|
| GdsStream | setup, overwrite mode, oldest record, buffer in use, drop counters, line buffer; in external SRAM the event buffer, two cursors, attach request, command buffer | `setup`, `LogRecv`, `writeChar`, `writeString`, `flushConsole`, `Run`; called by main loop and handlers, read by the GDS at any time | preemption while a record is placed, eviction, hand-over of the read cursor, resets with a reader attached | readers find whole records in order; nothing is lost after hand-over | GdsStream |
| MainLoop | `m_readyToRun`, performance results | endless loop, `start_rti` (handler), `resetCounts`, `getCounts` | an RTI between any two steps of wait and cycle | each RTI is run once or reported | MainLoop |
| Metronome | RTI index, offset base, client table and index, two timers | `start_metronome`, two handlers, `update_duration`, `getRtiTime`; starts MainLoop's RTI | the timer runs on while a handler computes; durations change within an RTI | each client once per RTI, in order, not early | Metronome, Schedule |
| VectorTable | duty ticks, mark, start of software | every exception passes through it; `EndRti`, `Run` | nested handlers, a sum without a lock, a 24-bit counter | outermost handlers' ticks, each once | VectorTable |
| TlmGdsChan | hash table of channels, two SRAM tables, selector | `setup`, `TlmRecv`, `TlmGet`, `Run`; the GDS reads and selects | the GDS looks while an item is written; 8-bit sequence numbers | GDS takes whole values for what they are | TlmGdsChan |
| Profiler | write pointer, wanted RTI, region of memory | hooks of every function, commands, `run`, `disable` | hooks of handlers within a hook, a full region | the region holds the events of the RTI asked for | Profiler |
| StrictMallocAllocator | totals per identifier, limits, end of allocation | `allocate`, `deallocate`, `setDefaultMemoryId` | identifiers out of range, memory the C library takes | totals agree with the heap | Allocator |
| ExceptionHandler, FatalHandler, AssertHook, `_exit` | a flag | report and stop | | | - |
| CommonInit, BuildInfo, SysTickCycler | none | straight line | | | - |

### Os

| Part | State | Operations | Hard | Correct when | Module |
|---|---|---|---|---|---|
| IsrSafeQueue | ring of free slots, heap, slots, high-water mark | `create`, `teardown`, `send`, `receive` | handlers between any two steps; nested locks | a priority queue in which each slot is in one place | IsrSafeQueue |
| MaskingMutex | taken flag; shared depth, mask, time, mark | `take`, `release`, `configureLimit` | statics used after interrupts are enabled; error paths | one holder; the outermost mask comes back | Mutexes |
| AtomicMutex | a flag | `take`, `release` | never blocks | one holder | Mutexes |
| TimerRawTime, TimerSingleRawTime | two chained timers, or one that wraps | `now`, intervals | halves read at different moments, widths | a time within the call; exact distances | RawTimes |
| SeggerConsole, SeggerTerminal | none | output | | | - |

### Drv

| Part | State | Hard | Correct when | Module |
|---|---|---|---|---|
| AdcSampler | requests, indices, multiplexer, delay | conversions end before the handler that began them; pins of a shared port; a delay computed in 32 bits | one input connected; results belong to their request | AdcSampler |
| DmaDriver | control structure, `currently_executing` | stop and status against a running engine | stop's answer is what is not copied | DmaDriver |
| I2cController | the bus | polls that run out, failures half way | a call's bytes are its own; OK means done | I2cController |
| SpiController | two FIFOs | acts on a status that is one round old while the wire goes on | each answer belongs to its byte, and none is missed unseen | SpiController |
| TimerDriver, PwmDriver, SeggerByteStream | little | | | - |

### Mmio

| Part | Hard | Correct when | Module |
|---|---|---|---|
| Cpu, Lock | an interrupt between the two instructions that mask | the mask found is given back | Cpu |
| ClkTree, ClkGen | registers written one by one while the core runs from them; a PLL that does not lock | the core's clock runs; drivers are told real frequencies | ClkTree |
| Gpio, IoConfig, Signal, Ebi | nine registers shared by sixteen pins, clock enables shared by all ports | a pin is what it was last configured as | Pins |
| the wrappers: Adc, DmaEngine, I2c, IrqRouter, Nvic, Spi, SysConfig, SysControl, SysTick, Timer, Uart, Util, Watchdog | addresses and numbers computed from an instance's number | those of two registers or peripherals differ | Registers |

The hazards of all parts, each at its line, with the properties that would catch
them going wrong, are listed in `PROJECT.json`.

## 2. Modules

```
Cpu                      preemption, interrupt mask, critical section
 |-- IsrSafeQueue        the message queue         --implements--> PriorityQueue
 |-- MainLoop            the endless loop          <--implements--.
 |-- Metronome           timers, handlers, time                   |
 |       \-- Schedule    Metronome + MainLoop ---------------------'
 |               \-- RtiTimes   the times given out, one after the other
 |-- Mutexes             masking and atomic mutexes       \
 |-- VectorTable         duty cycle of handlers            |
 |-- Profiler            function events                   |
 |-- AdcSampler          the ADC and its multiplexer       |
RawTimes, TlmGdsChan, Allocator, DmaDriver,                |-- Board
I2cController, SpiController, Pins                         |
ClkTree \-- Registers    addresses, numbers, clocks       /
GdsStream                event buffer, console, attach, commands
 \-- GdsStreamRefinement                           --implements--> RecordLog
```

Each `MC*.tla` gives a specification the sets its configurations choose from;
each `*_proofs.tla` holds the theorems about a component.

**Board.** Fourteen components (MainLoop among them) share no state with each
other except the processor, and each is asked the same question: do its
properties hold when its callers, its hardware and handlers interleave as they
may? `Board` joins them in one specification whose initial state chooses which
runs (`part`), so that each is explored with all interleavings of its own, and
none is multiplied by states of another that it cannot see. `Levels` says how
many interrupt priorities each is given. Where components do interact
(Metronome and MainLoop; GdsStream and its callers; the clock tree and the buses
that Registers looks up) they are composed in a module.

A definition that begins with `\* Mutant of ...` is not part of the model. It is
a plausible mistake in the definition that follows it, kept beside it so that
every property is known to notice one.

**Contexts.** The software has no threads. Context 0 is the main loop, contexts
1..Irqs are handlers of rising priority, and a context takes a step only while
all above it are idle (`Executes`). One step of a model is what no other context
can observe in part: it ends where the code reads or writes something that a
handler or the hardware also uses.

### GdsStream (`Svc/GdsStream`)

| Model | Code |
|---|---|
| `data`, `readCursor`, `writeCursor`, `attachRequest`, `command` | external SRAM; survive `Reset` |
| `Setup` | `setup` |
| `LogRecv`, `Place`, `Evict`, `Evicted`, `Full`, `FillWraparoundRegion`, `WriteRecord`, `Publish`, `Release`, `Announce` | `LogRecv_handler` and the helpers it calls, in their order |
| `ConsoleWrite`, `StoreChar`, `FlushConsoleBuffer`, `Flushed`, `FlushConsole` | `writeChar`, `writeString`, `flushConsole`, `prepareConsoleWrite` |
| `RunHandler`, `RunAcquire`, `RunHandOverCursor`, `RunLeaveOverwriteMode`, `RunRelease`, `CheckCommandBuffer`, `CommandDone` | `Run_handler`, `checkCommandBuffer` |
| `GdsAttach`, `GdsRead`, `GdsAcknowledge`, `GdsCommand` | the GDS, outside the repository |

Sizes are counted in 16-bit words, the unit every record is rounded up to, and a
word is what a reader can tell: a header with its size, one of the words after
it, a filler, or anything else. The bytes of a record, its time and its text are
left out. Cursors are kept modulo twice the buffer's size as in the code.

The GDS is modelled from how the code uses it: it reads only once the buffer is
handed to it, moves the cursor after it has read, writes a command only into a
free buffer and attaches again after a reset. A cursor write that was on its way
when the computer was reset may still arrive (`stale`).

`RecordLog` is what the component promises: a queue of whole records that loses
its oldest ones only before the GDS has attached. The refinement mapping reads
the buffer as the GDS would, from the oldest record to the published cursor.

### IsrSafeQueue (`Os/IsrSafeQueue`), Cpu (`Mmio/Cpu`, `Mmio/Lock`)

`Send` and `Receive` start a call in any context; `Lock` and the actions of
`Cpu` take the critical section in the two instructions of
`save_disable_interrupts` and give back the mask that was found; `CheckHeap`,
`FindIndex`, `Push`, `StoreData`, `MarkHigh`, `Pop`, `LoadData` and
`ReturnIndex` are the statements between. A caller may already hold a lock. The
heap (`Types::MaxHeap`, outside the repository) is a bag of slots by priority,
and `pop` gives any one of the highest priority. `PriorityQueue` is the abstract
queue; a call takes effect at one moment inside its critical section.

### MainLoop (`Svc/MainLoop`)

`CountSpare`, `TestReady` and `TakeRti` are `wait_for_next_rti`;
`EnsureRtiNotElapsed` is the end of `execute_main_loop`; the calls that
components make in a cycle are `ResetPerformanceCounts` and `GetCounts` (whose
reads are two steps). `StartRti` is the handler. `0xFFFFFFFF` is `Unset`, a value
above every count, and `rti_count` keeps what the code asks of it: whether it is 0
and its remainder modulo 640 (`Window`). A FATAL event ends the software
(`fatal`). `counter_running_total` is a sum that nothing depends on.

`owed` is a ghost: RTIs whose cycle has not begun.

### Metronome (`Svc/Metronome`), Schedule

`Tick` is one cycle of the main timer: it goes down, interrupts at 0, reloads,
and makes the proxy timer interrupt in every cycle in which its count is below
PWMA. It may come between any two steps of the software, so a handler may be
arbitrarily slow within its RTI. `MainTimerIsr`, `DisableProxy`, `AdvanceRti`,
`TopOfRti`, `ComputeThresholds`, `EnableProxy` are `main_timer_isr_handler`;
`ProxyTimerIsr` and `ReadCnt` are `proxy_timer_isr_handler`; `TriggerClient`,
`ScheduleClient`, `ClearProxy`, `NoMoreClients` are `process_isrs_until` in
whichever handler calls it. `UpdateDuration` and the steps of `GetRtiTime` are
calls of the main loop (calls that a client's handler may make are not
modelled). The proxy handler has the priority of the main timer's or
the next one: both are checked.

`Schedule` joins them: the main timer's handler calls `StartRti`, the start ports
are followed by `StartMetronome`, and the cycle makes the calls. It is shown to
implement `MainLoop`: whatever the metronome does is covered by the RTIs "at any
moment" with which MainLoop is checked and proved by itself.

Assumed there: a handler of higher priority starts before the context it
preempts takes another step; entering it takes longer than the one cycle the
timer needs to reload; the main timer's handler does not preempt the proxy
timer's, because `process_isrs_until` keeps its index in a local variable (:231);
and what is done at the end and the top of an RTI is done before the next ends.
The last is what the FIXME at MainLoop.cpp:130 asks about: without it two
interrupts of the main timer merge into one and an RTI is lost unreported.

### Mutexes (`Os/MaskingMutex`, `Os/AtomicMutex`)

`Take` and `Mask` are the two instructions of take; `TakeBusy`, `TakeOuter`,
`TakeInner` its outcomes; `ReleaseOuter`, `ReleaseInner`, `ReleaseFails` those of
release, and `Measure`, `CompareMark`, `StoreMark`, `CheckLimit` what it does after
interrupts are enabled, when handlers take mutexes again. The clock may be
unreadable in either. Any call that does not return OP_OK ends the software, as
the Os::Mutex outside the repository asserts. `held` is a ghost.

### VectorTable (`Svc/VectorTable`)

`EnterException`, `LeaveHandler`, `TestOuter`, `LoadDuty`, `StoreDuty` are
`handle_exception`, with the += taken apart; `EndFirstRti` and `EndRti` are the
end of an RTI, called from the rate group or, as by Metronome.cpp:191, from the
main timer's handler, whose priority is anybody's choice: `rtiEnder` is any
context, and as a handler it may preempt another between the load and the store
of its addition. `RetToBase` is the bit of ICSR. `due` and `mostDue` are ghosts:
ticks of outermost handlers, counted where they happen; `torn` records that an
RTI has ended within an addition. A handler is assumed to last less than the
counter's 2^24 ticks.

### RawTimes (`Os/TimerRawTime`, `Os/TimerSingleRawTime`)

`ReadRawCount` is one of the five reads of `now`, with time passing in between;
the high timer may show either value in the tick in which the low one is 0.
`ValidCounts` chooses the pair; `GetTimeInterval` is the 32-bit and 64-bit
division of `getTimeInterval` and the difference of the single timer.

Calculations in F32 are modelled by what they round: a number is a fraction, and
`F32` the nearest one whose mantissa has `MantissaSize` values (2^24 in the code),
of two as near the even one. `KilohertzMicros`, `HertzMicros` and `SingleMicros`
round where the code does, operand by operand and result by result; a scaled
mantissa makes the error of long intervals visible in few ticks. Exponents do not
overflow: `Units` has the distances of neighbours that occur.

### TlmGdsChan (`Svc/TlmGdsChan`)

`TlmRecv`, `WriteTime` and `WriteWord` are the stores of a channel's update,
`TlmRun` takes the selector over and repairs it, `GdsSelect` is the GDS. A value
is a number that its time and each of its words repeat, so that a mixture of two
values is seen as such. `latest` is a ghost. The quiet buffer is that of the
selector the software has taken over last: a GDS that reads at once after it has
written the selector, before the next `Run`, is promised nothing.

### Profiler (`Svc/Profiler`)

The hooks of entry and exit (`FunctionHook`, `StoreEvent`, `AdvancePtr`) run in any
context under the lock of Cpu, `ProfilerRun` is the run in the RTI before the one
wanted, `EnableCommand` and `ProfilerDisable` the commands. `TriggerRti` is a U8, as
in the code, and a second may have any number of RTIs: of more than 256 some are
never awaited, or early (`StartsAsAsked`), and an ENABLE of the number 255, which
stands for none, is accepted and awaits nothing. A parser of the region is
`Profiled`.

### Allocator (`Svc/StrictMallocAllocator`)

`Allocate`, `AllocateNothing`, `Deallocate`, `SetDefaultId`, `DisableAllocation` over
a heap that takes a block more than was asked for now and then, fails when it is
full, and is used by the C library too (`MallocElsewhere`). The default identifier
is one of the identifiers there are: `setup` and `setDefaultId` do not check it, and with
any other `allocate` indexes out of its array, which nothing could be said of.

### AdcSampler, DmaDriver, I2cController, SpiController (`Drv`)

Each model has the driver's statements on one side and on the other what the
peripheral does by itself (`Convert`; `TakeRequest` and `Transfer`; `ReceiveByte`,
`SendByte`, `CommandDone`, `SendRunsDry`, `Nack`; `ShiftOut` and `ShiftIn`), which
comes between any two of them. The peripherals are modelled from how the drivers
use them. In AdcSampler a handler of higher priority drives another pin of the
multiplexer's port (`OtherHandler`). `MuxDelay` is the product of clock and delay
in 32 bits, `CyclesTaken` what the delay loop makes of it: when that is less than
the multiplexer needs (not `DelaySuffices`), what was on before may let go during
the delay or at any later moment (`Fade`). In I2cController the peripheral goes on
after a call has given up; a bus held by another master is not modelled. In
SpiController the wire gets ahead of the loop by any number of words, since
interrupts may keep the loop from its next round for as long as they like: an
answer that finds the receive FIFO full is lost (`lost` counts them), and a call
that waits for it ends in the loop's guard (`LoopGuard`) after 2^32 - 1 rounds,
which are one step.

### ClkTree (`Mmio/ClkTree`, `Mmio/ClkGen`)

The frequency formulas and the validation of a tree, and `applyClkTree` register
by register (`EnableClkSources`, `PllOff`, `PllReset`, `PllOn`, `CheckLock`,
`CheckAgain`, `SelectSysclk`), against a PLL that locks when it likes or never
(`PllLocks`). It is called, as its comment demands, from the heartbeat oscillator.

### Pins (`Mmio/Gpio`, `Mmio/IoConfig`, `Mmio/Ebi`, `Mmio/Signal`)

The table that says which function a pin may carry; `ConfigureAsGpio`,
`ConfigureAsFunction`, `RouteAllEbiPins` start a call, `ConfigureStep` is one of
its register accesses, the read and the write-back of a clock enable apart;
`Drive` is `out`. Both contexts, the loop and a handler that preempts it, configure
and drive pins; as the warning at Pin.hpp:74 asks, not two of one port at a time.
All settings are called, interrupts on either edge included. `Meaning` reads the
registers back as the hardware does. `clockLost` is a history: the ports whose
clock enable was written back by a context that had not seen it.

### Registers (the wrappers)

`AccessRegister` computes the bus word and bits an accessor reaches, from the
offsets and strides of the code; `AskNumber` an exception, trigger or cascade;
`SetClkEnabled`, `BeginReset`, `EndReset` are SysConfig.

## 3. What the runs check

| Run | Bounds | Shows |
|---|---|---|
| GdsRing | 6 words, records of 1 and 3, no interrupts, resets | no assertion fails; the eviction that covers its deficit makes the room; whoever reads finds whole records; implements `RecordLog` |
| GdsInterrupts | 4 words, records of 1 and 2, one interrupt | the refinement with a handler between any two steps; exclusive use of the buffer |
| GdsConsole | 2 words, line buffer of 1, strings of 2 and 3, one interrupt | line buffer never overrun; only a handler that interrupted the holder is refused; every character stored or counted |
| GdsLive | 2 words, FATALs and commands, one interrupt | attach requests and commands are served |
| OsQueue | depth 2, two priorities, messages shorter and longer than a buffer, one interrupt | no assertion; nested masks; slots in one place; high-water mark; implements `PriorityQueue` |
| Schedule | three clients at 0, 0, 1 of RTIs of 2 and 3 microseconds, 3 cycles each | each client once per RTI, in order, not early; timer set for the next; durations; assertions :151 and :188; a cycle lies in one RTI; an RTI that the metronome has started is taken up at last; implements `MainLoop` |
| Board | below | one property per component, three for MainLoop, two for RawTimes |

Board's properties, each of the part it names:

| Property | Says | Bounds |
|---|---|---|
| EveryRtiIsRun, WaterMarksCover, SnapshotConsistent | every RTI run or reported; marks cover what was seen; `getCounts` returns values of one moment | waits of up to 2 counts, window 3, 2 missed RTIs |
| MutualExclusion | one holder; masking mutexes nest in one context with interrupts disabled from first to last | two masking, one atomic, one handler |
| DutyCounted | the sum is never less than the outermost handlers' time, nor the mark than the most of any RTI, and they are exactly that until an RTI ends within an addition | a counter of 3 values, two handlers, RTIs ended by the loop or by either handler |
| ClocksTrue | `now` succeeds with a time within the call; seconds are exact, and microseconds for timers in megahertz | low timer of 10 ticks, 22 ticks in all, reads 1 or 2 ticks apart |
| IntervalsClose | at other frequencies microseconds are off by four roundings of F32 and no more | rates in megahertz, kilohertz and neither; a mantissa of 8 values |
| GdsNotMisled | the quiet buffer holds whole values; sequence numbers tell the newer | a channel of 2 words, numbers of 4 values |
| ProfileIsWhole | the region holds this profile's events, in order; an RTI is awaited for no more than a second | a region of 2 events, two events of functions, one handler, 3 RTIs in a second and a U8 of two values |
| AllocationsAccounted | totals and remainder agree with the heap | two identifiers, 6 blocks |
| SamplesTrue | one input enabled at a time, and connected if the delay suffices; results in their places or counted errors | two lists of two requests, two buffers, two reads, a clock whose product fits and one whose product wraps |
| TransfersExact | elements copied in order, none twice; what stop answers | two channels, four transactions |
| TransactionsApart | OK means over; no FIFO holds another call's bytes; the bus is held by failed calls only | 3 polls, 2 bytes, 4 transactions |
| BytesAnswered | no byte is written into a full FIFO; each answer belongs to its byte until one is lost; no call returns that lost one, and the guard stops no other | FIFOs of 2 words, 4 bytes, two calls, a wire that gets ahead by any number of words |
| ActiveTreeTrue | the core's clock runs; frequencies told are real | seven trees, three of them invalid |
| PinsAsConfigured | pins are what they were configured as, but for an interrupt on either edge; outputs are at their last level unless their port's clock was lost | three pins, two of a port, two configurations of either context, three settings |
| RegistersApart | no two registers, numbers or clock bits of different peripherals coincide | every register of every instance; 8 of the exceptions |

Runs that find what a comment, document or assertion says violated:

| Run | Finding |
|---|---|
| GdsEvictionBound | in overwrite mode an event is dropped: the bound on evictions forgets the tail of the buffer that a record skips (GdsStream.cpp:172, :477; sdd.md:24) |
| GdsFatalLost | a FATAL reported by a handler while the buffer is in use is not announced (:701, :742). The same holds for a FATAL that finds the buffer full |
| GdsFullCommand | a command of the full comm buffer's length fails an assertion (:635) |
| ScheduleTime | `getRtiTime` goes back in time: its lock does not stop the timer it reads twice (Metronome.cpp:145-153) |
| DmaRequestType | a transaction by single requests sets the request type of every other channel and not its own (IrqRouter.cpp:104) |

**Why the bounds are enough.** In a ring of 6 words with records of 1 and 3 the
write cursor meets every relation to the read cursor, the edge and the filler
region (a record just fits, just does not, leaves filler of one and two words),
and cursors pass twice through the double-size range. 4 words with records of 1
and 2 are the smallest with all of these, which leaves room for an interrupt at
every step. One priority of interrupts shows every pair of contexts; nesting of
more adds holders that `BufferExclusive`, `SectionsMasked` and `MutualExclusion`
exclude, which is proved for any number. VectorTable has two, since its hazard is
a handler on a handler. A queue of depth 2 wraps, fills and empties, and keeps
slots in an order other than they were taken. Two RTIs missed are a slip; a window
of 3 has RTIs with, before and after a clearing. Three clients, two at the same
time, have a first, a last and a tie; two durations let each change be up or down.
The clocks pass two rounds of the low timer, so each of five reads falls before,
at and after a reload. Sequence numbers of 4 values wrap, those of a channel
differ by one or not. FIFOs of 2 words and 4 bytes let the wire be ahead, level and
behind, with either FIFO full and an answer lost. The loop and two handlers of
VectorTable each end the RTIs in turn, so that an end comes below, in and above an
addition. A mantissa of 8 values is exceeded by the ticks counted, so that the
same roundings occur as with one of 2^24. Transactions and trees are chosen one per branch of
the code that rejects or accepts them. Counters that only grow are kept modulo a
bound (`CounterSize`, `NumIds`, `RtiIndices`, `Window`, `SeqSize`, `CvrSize`) or
bounded in a guard (`MaxSpare` in the wait, `MaxMissed` in the timer, `MaxTime`,
`MaxTicks`, `MaxRawTicks`, `MaxXacts`, `MaxExchanges`, `MaxConfigures`,
`MaxAdcReads`, `MaxClocked`).

`CHECK_DEADLOCK FALSE` is set where the software may end: after a FATAL or a
failed assertion.

**Fairness.** `GdsLive`: strong fairness of each context's steps and of
`Run_handler`. An interrupt may come between any two steps and so disable the main
loop's next one again and again, but interrupts leave it time to run, and the rate
group calls `Run` in every cycle. No fairness of the GDS, nor of anything that the
properties do not need. `Schedule`: strong fairness of the loop's steps outside of
calls, and of the steps of a call it is in, as handlers come between any two of them
but leave the loop time; weak fairness of the steps of handlers, which nothing below
them delays, and of the timer's step away from 0. The loop need not call anything in
a cycle (a call is fair once it has begun), and no further RTI is assumed:
`RtiIsServed` holds of the last one too. The drivers' own polls are bounded by
counts, not by fairness; SpiController's loop has no bound and no liveness property,
since whether the wire moves is up to the hardware.

**Defects without a run of their own.** The first eight are properties that are
stated in the modules and do not hold. Each has been checked to be violated by adding
it to `Board.cfg`, with the constants given; no configuration is kept for them.

- `MarkExact` (VectorTable): an RTI that ends in a handler which preempts another's
  addition does not end its sum: the mark is the ticks of two RTIs
  (VectorTable.cpp:117).
- `StartsAsAsked` (Profiler; `RtisPerSecond` = 6, `RtiDisabled` = 3, six RTIs for a U8
  of two bits as more than 256 are for one of eight): a profile starts in the wrong
  RTI, since `trigger_rti` takes the number for a U8 (Profiler.cpp:135).
- `BreakBeforeMake` (AdcSampler; a clock of 100 and a product of 43 values stand for
  100 MHz and 2^32): above 42.9 MHz the delay between two multiplexers is computed in
  too few bits and may be too short (AdcSampler.cpp:137).
- `NeverStuck` (SpiController): interrupts that last as long as the receive FIFO takes
  to fill lose an answer, and the call ends in the assertion of its loop
  (SpiController.cpp:173-175).
- `InterruptsAsAsked` (Pins): a pin that is to interrupt on either edge interrupts on
  the falling one: IRQ_ON_TRANSITION_EITHER is 8 (Pin.hpp:45) but bits 0 to 2 of it are
  taken (Pin.cpp:292-294).
- `OutputsHeld` (Pins): two contexts that configure different ports, as Pin.hpp:74
  allows, lose the clock of one: `set_clk_enabled` (SysConfig.cpp:313-320) reads and
  writes back a register all ports share.
- `LongHoldsNoticed` (Mutexes; `MaxTime` = 2): a section over the limit passes as short: release
  enables interrupts before it measures (MaskingMutex.cpp:87-99), and a handler's take
  overwrites `s_lastTakeTime`.
- `FailureIffUnlocked` (ClkTree, an action property): a PLL that locks during the second
  delay is a failure: the test after it reads the status from before
  (ClkTreeVorago.cpp:145).

The others were found by reading; no comment or document says the contrary, or what
does is about a part that is not modelled.

- TimerDriver and PwmDriver write reset values that lack the -1 of
  Metronome.cpp:105: their periods are a tick too long. PwmDriver::configure stops
  the timers but leaves `m_running`: called again, `setDutyCycle` does not start
  them.
- Drivers keep the dividers they computed when another clock tree is applied; the
  first reference divider of a PLL gives a delay count of 0.
- The sdd of AdcSampler has BUSY and SUCCESS the wrong way round; `configure` drives
  a pin (AdcSampler.cpp:148) before the port's clock is on.
- `writeString` counts `size - i` dropped characters though character `i` has been
  stored (GdsStream.cpp:545); GdsStream.fpp:37 calls `1 << 13` bytes 2 KiB; the
  comments of IsrSafeQueue.hpp that the queue is not safe in handlers contradict
  code and documents; the spare-time counter of an RTI is that of an earlier one
  when the RTI begins between the overrun check and the wait
  (MainLoop.cpp:158-171).

## 4. What is proved

The assumptions are the named `ASSUME`s of the modules, which TLC evaluates on
each run: sizes are natural numbers, a record fits twice into the buffer, a
window has at least one RTI, a microsecond has at least two cycles and every
client's time is within every duration, mutexes of the two kinds are different,
sequence numbers have more than two values; five reads of the timers take less than a round of the
low one, no frequency of a PLL is too large for its 32 bits, an ADC's requests are
lists of requests with counts and channels, and its pins belong to ports. No bound of
the runs is used: the theorems hold for every value the bounds may have. Where one
needs more, its statement says so: `NothingAsserts`, and for the pins that they are
configured by settings `configure_as_gpio` has parameters for.

**GdsStream_proofs.** The invariant `Inv` joins `TypeOK`, `BufferExclusive`,
`LineBufferInBounds` (which `ConsoleOutputAccounted` names) and
`OnlyInterruptersRefused` with two facts about calls
between two steps: `FlushedIsEmpty`, that a flush that succeeded has left the
line empty (its result may be ignored), and `RefusedReturns`, that a refused call
has only its return left. No part is inductive without the others: a second holder
is excluded by the flag, the flag is right because there is no second holder,
and a character has room because nobody else writes the line after the flush.

Two more invariants rest on it. `Accounts` says of each console write, label by
label, what it has stored and counted: nothing is counted before the write is
over, and a flush comes either before the first character or after one. Hence
`ConsoleAccounted`.

`RingInv` says how the records hang together in overwrite mode. `Chained`: there
is a set of cursors, the oldest and the write cursor among them, from each of
which a stride of `EvictOldestRecord` (the size read at it and the filler skipped
behind it) leads to another without passing the write cursor. The set stands for
the recursive walk that the prover cannot follow. Three lemmas say what becomes of
it: `ChainKept`, words that are in no record do not matter; `ChainShrinks`, after
an eviction; `ChainGrows`, after a record is published, where the stride that
ended at the write cursor ends there still or at the edge, and the one in between
is the filler. The arithmetic is in `FitsWhenFree`: `itemFitsInBuffer`, which
compares offsets without their top bits, finds room exactly when `Needed`, the
record and the tail it skips, is no more than what is free; and in `PlaceIsFree`:
what it then writes over is in no record. Of the steps in between, `Placing`,
`Evicting` and `Writing` say what the context that holds the buffer knows:
the deficit less what has been freed is always what `Needed` still lacks. Hence
`EvictionIsEnough` without any bound, and `NothingAsserts`, given that the
GDS sends no command that `checkCommandBuffer` asserts to be shorter: without that
it is false, which is the finding of GdsFullCommand. That the loop reaches the
deficit is not proved, and is false as well (GdsEvictionBound).

`LogInv` is for the refinement of `RecordLog` by the mapping of
GdsStreamRefinement: the log's records are those `Walk` meets, a recursive
function. `Linked` says word by word what `Chained` leaves out: there is a set of
cursors from each of which a whole record, or a filler word, leads to another
one nearer to the write cursor. `Placed`, `GdsReads` and `HandingOver` say
what a write, the GDS and the hand-over know between two steps. What `Walk`
computes follows without an induction theorem: a function that satisfies its equation
exists (`WalkDefined`), and of a set of cursors for which something fails the
one nearest to the write cursor is taken (`LinkInduction`, from `LeastNatural`).
Then: words behind the write cursor do not matter (`LinksKept`), publishing
appends a record (`LogGrows`), and eviction and reading remove the first
(`StrideLink`, `AfterLink`). Hence `ReadersFindRecords`, that whoever reads
at the cursor in use finds whole records to the write cursor, and
`StreamImplementsRecordLog`: every step is one of the log's or none.

**IsrSafeQueue_proofs.** `QueueInv` joins: types; `Masked`, what each lock found
and that nothing runs beside a masked context; `HeapFits`, the number of
messages; `CallsFit`, what a call between two steps has taken and not yet put
anywhere; `Ring`, that the slots of the free part, the heap and the calls are all
different; and `Marked`, the high-water mark of a call between two steps. The free
part of the ring ends where the stop index points, and a full
and an empty ring differ only in the number of messages: without `HeapFits` the
ring is ambiguous.

`WholeInv` adds what the messages are: `QueuedWhole`, that the slots of those
that are queued hold what their senders stored; `CallsTrue`, what a call in
between holds of its own. Under it `QueueImplementsPriorityQueue`: a send takes effect when
its data is stored, a receive when it loads, a refused call when it finds
the queue full or empty; the rest is hidden. The bag of messages of the abstract
queue counts slots with the same contents, so that each of these steps changes one
count by one (a lemma about the cardinality of a set that gains or loses a slot).

**Measures_proofs.** *MainLoop*: `LoopInv`: the wait ends only when an RTI has begun
(so that `exchange` cannot find 0), counting has stopped in time, and between the reads
of `getCounts` interrupts are disabled and what was read is still true.
*VectorTable*: `VectorInv` says of each handler what it has measured and not yet added
(`Adding`): one that has passed the test for RETTOBASE is the outermost, and what it has
loaded is the sum, or is more than the sum if an RTI has ended since, which `torn`
remembers. Hence who may add is alone among those that add, and only an end of the RTI
can come in between. `TicksTold` ties the difference modulo the counter's width to the
time that has passed. Hence `DutyCounted`, for every width, nesting and context that
ends RTIs; that the mark is exact (`MarkExact`) is false. *Profiler*: `HooksMasked` and `HooksFit` say whose lock it is
and what its holder is doing, `RegionTrue` that the region begins with the events
traced and ends at a mark or is full, and `InTime` how many runs of the component are
left before it enables, of the U8 that it compares with: with those that have been, no
more than a second has, for any number of RTIs per second.

*Allocator*: the heap is what was taken before registration, what the
identifiers have counted and what others took. The middle term is a sum over a finite set,
which the model has as a fold of the community modules. The lemmas of its section define
the sum as a recursive function on subsets, show that one exists and only one
(`SumsExist`, `SumUnique`, by the smallest subset for which it fails), that it does not
depend on the order and changes by what one element changes (`SumWithout`,
`SumChanges`), and that it is the library's fold (`SumIsFold`). *AdcSampler*: `Turns` says
that of client, handler, converter and interrupt one at most has the request, which is
why neither its index nor its buffer needs a lock; `Enabling` and `Pins`, how far the
change to its multiplexer has come and what the port's registers hold of the
other handler's pin; `Selected` and `Sampled`, what the converter is given and gives; `Served`,
that the words so far are in the buffer where the sum of the earlier counts puts them.
That a sample is settled they say of clocks whose delay suffices only. Hence
`SamplesTrue`, for any lists, pins, ports, clocks and word; `BreakBeforeMake` at every
clock is false.

**Schedule_proofs.** `ScheduleInv` is about the timers, the handlers and the loop
together, since the loop calls `getRtiTime` and `update_duration` at moments of its
own. `Labels`: where the handlers may be
with respect to each other, in either priority of the proxy's. `Clock` and `Bases`:
what the component believes of the RTI is that of the timer, or that of the RTI
before while the main timer's handler has not come to it (`Due`); RST is read back
in between, and is still what was reloaded. `InTime`: the thresholds are those of
this RTI, and the count has only fallen below what a batch has read. `Serving`:
the clients called are those before the index, the batch's while a batch is at
work. `Arming`: the proxy is set for the client the index names, or off; without
its middle parts (the handler has it off, and turns it on last) a handler of the
proxy could run inside the other. `Cycles`: a cycle that is no longer in its RTI
will find the next begun. From it follow the four invariants, both action
properties, and `SchedulesTheMainLoop`, that every step is one of MainLoop or none,
under the mapping that hides the metronome's handlers and takes the steps of
`getRtiTime` for parts of the cycle: for any clients, times, durations and width
of the index.

**Drivers_proofs.** *DMA*: `Progress` ties the control structure, the engine and
the transaction together: what is copied and what the structure still holds is the
whole, and the pointers are the end pointers throughout. `Stopping`: stop masks
the channel's requests before it waits, so that what it reads is at rest and what
it answers stays true, for any channels, increments and boundary. *SPI*:
`AllCounted` counts the bytes of a call in the buffer, the receive FIFO, the wire
and the transmit FIFO, with the answers that were lost, whatever the wire's
advance; `OnTheirWay`, that until one is lost they are there in their order;
`StatusSafe`, that a status that is a round old errs on the safe side, since nobody else
fills the transmit FIFO or empties the receive FIFO, and that the guard stops only a
call that lacks an answer. Hence `BytesAnswered`, for FIFOs of any
depth and interrupts of any length. *I2C*: `ReadInOrder` and `WriteInOrder` say what the FIFOs hold while a
call polls; `ResultKept` what the last call has told and leaves on the bus.

**Mutexes_proofs.** `MutexInv` says where interrupts are masked, context by
context and label by label: the one that has masked them is the only one to run,
the statics agree with what is held, and the mask that the outermost section
remembers is "enabled". `depth` is the number of masking mutexes taken, which
needs a lemma about counting a set that grows or shrinks by one. From it
`MutualExclusion` follows for any number of mutexes, priorities and nestings;
`LongHoldsNoticed` does not, and is false.

**Clocks_proofs.** *RawTimes*: `Reads` says what each of the five reads has seen of
two timers that go on running. The low timer reloads at most once in between, so that the
second read of the high one belongs to the first or to the second low read, and `Carry`
tells which (`ReadingTrue`); two readings are then in the order of their times
(`EarlierTrue`) and their difference is the true one, divided as `getTimeInterval`
divides it (`IntervalTrue`). Of F32 the proof needs that it takes a fraction that is not
negative to another one: the seconds, the bound on the rest and the paths in megahertz
are exact whatever it rounds to. *ClkTree*: `CallInv` says what each step of a call has left
in the two registers, `ActiveInv` that between calls they are those of the tree that is
said to be active, or the heartbeat's after a failure. *Pins*: `Calling` says what the
steps of a call have left so far - clock enables, the word, the bits of the
registers - and `PinsInv` that this stays of every pin whose call is over, since a later
step keeps the other pins' bits and never turns a clock off. A pin's meaning follows
from the tables: `Tables` checks row by row that no two signals of a pin share a value
of FUNSEL, `EbiFree` that the external bus's value is no other's. Two contexts
may be configuring: `CallsApart`, that they do so on different ports, and `Ensured`, that the
clocks a call has enabled stay on until it is over. What the loop's write-back takes away
are clocks of the handler's calls that are over, which `clockLost` remembers; what was
configured stays, since registers keep their values without a clock. Hence
`PinsStayConfigured`, for any pins and settings. `InterruptsAsAsked` and `OutputsHeld`,
without the two exceptions, are false.

**TlmGdsChan_proofs.** `TlmInv`: every item but the one being written is whole
(`RestWhole`), that one has the parts written so far (`PartWritten`), and the entry
of a channel names its newer item, whose number is the successor of the other's
(`Told`). Hence `GdsNotMisled` for any sizes and any width of numbers above two
values.

**Only model-checked.** `RegistersApart`: it is about finitely many addresses and
numbers, all of which its run computes, and its module uses Bitwise, which the prover
cannot read. `IntervalsClose`: four roundings multiplied out are beyond the prover's
arithmetic. Liveness (`AttachIsHandedOver`, `CommandIsConsumed`, `RtiIsServed`) and ENABLED
are beyond the prover, and so are RECURSIVE operators, which no module with theorems uses.
Its induction theorems take an operator as a parameter and cannot be used; where the
proofs need an induction over data they take a least counterexample
(`WFMin` of WellFoundedInduction), set by set. What TLC found violated
(section 3) has no theorem.

## 5. Plan

Done: every component with state and behaviour of its own is modelled, checked,
and has a property aimed at each of its hazards. Every safety invariant, action
property and refinement that a run checks is a theorem, but `RegistersApart` and
`IntervalsClose`.

Left, if the code moves: the clock enables and resets of Registers, apart from its
addresses, could have a module of their own without Bitwise and a theorem for any
number of calls; TimerDriver and PwmDriver, once their reset values are settled.

**Not modelled**, and why:

- ExceptionHandler, FatalHandler, AssertHook and `_exit` end the software in a
  straight line; GdsStream models the FATAL event before and the reset after.
- TimerDriver is a handler that calls its ports, counts and asserts that it was not
  overrun: the main timer of Metronome does the same and more. PwmDriver computes
  in floating point, and what could go wrong is the signal of two cascaded timers,
  whose behaviour when one is triggered while it runs neither code nor documents
  say (FIXME at PwmDriver.cpp:64).
- SeggerByteStream, SeggerConsole, SeggerTerminal forward to a library outside the
  repository. SysTickCycler, CommonInit and BuildInfo have no state.
- `_start` and `prepare` of VectorTable run once before interrupts are enabled.
- Of AdcSampler, what `configure` sets up once besides the delay, and the spurious
  interrupts that a FIXME at AdcSampler.cpp:266 suspects: nothing says when the
  converter makes them.
- Of I2cController, a bus that another master holds; of TlmGdsChan, a GDS that reads
  before its selector is taken over; of StrictMallocAllocator, a default identifier
  that is none.
- What a register does is modelled with the driver that uses it, the rest
  (scrubbing, power management, watchdog) is never used by this software. Memory
  barriers are not modelled: a store is seen at once.
- Generated code, and code outside the repository, which enters the models from how
  it is used (F Prime's rate groups, Os::Mutex, `Types::MaxHeap`, the GDS).
