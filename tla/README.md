# Verification of agriculture-SoC

TLA+ models, TLC runs and TLAPS proofs for the two kinds of logic of their own
in this repository: the sensing peripheral, which lets a sleeping CPU collect
ADC samples, and the software of the NanoSoC platform around it (drivers, debug
tester, and the programs that test them). Paths are relative to the repository.
Short forms: `Wrapper/`, `FSM/`, `FIFO/`, `RTC/`, `ADC/`, `AHB/`, `verif/` are in
`agriculture_soc_main/`; `software/` is `nanosoc/nanosoc_tech/software/`;
`testcodes/` is `nanosoc/system/testcodes/`.

Contents: 1 the system, 2 modules, 3 runs, bounds and fairness, 4 findings,
5 disagreements without a run, 6 proofs, 7 not modelled, 8 what could follow.
`PROJECT.json` lists every component, every hazard with its source line, and for
each definition the lines it models.

## 1. The system

### The sensing peripheral

An alarm of the real-time clock, or a write of firmware, triggers the sampling
FSM; the FSM runs one conversion of the SAR ADC and pushes the result into a
FIFO, which firmware drains over APB.

```
 firmware --AHB--> bridge --APB--> adc_apb_wrapper_rev2 registers
                                    |        |          |
                     passthrough    |        | triggers | pop, flush
                          v         v        v          v
  CLK1HZ --> PL031 <-- rtc_control_2 --> wrapper_control_2 --> fifo_apb_adc
                           rtc_trig          | adc_en   ^ sample
                                             v          | valid, result (CDC)
                                 sar_adc: divider, sarlogic, latch, sar_afe
```

| Component | State | Operations | Talks to |
|---|---|---|---|
| `FIFO/fifo_apb_adc.v` | memory, two pointers, count | write, read, flush, reset | FSM (write), wrapper (read, flush), both read the flags |
| `FSM/wrapper_control_2.v` | FSM, sticky drop flag | accept a trigger, check room, ADC handshake, write | RTC and wrapper (trigger), ADC (`adc_en`/`valid`), FIFO |
| `sarlogic` (`analog/cadence/sar_adc/sarlogic/functional/verilog.v`) | FSM, trial bit, result, trim search | convert, calibrate, back-to-back restart | comparator, FSM |
| `ADC/sar_adc.v` with latch and macro | clock divider, held input | sample and hold, compare | sarlogic, wrapper |
| `Wrapper/adc_apb_wrapper_rev2.v` | APB registers, synchroniser, captured result | register reads and writes, one-cycle pulses, capture | all of the above |
| `RTC/rtc_control_2.v` | arming FSM, bus registers, passthrough handshake | enable, read time, arm, wait, clear, trigger; arbitrate | PL031, APB master, sampling FSM |
| PL031 (ARM IP, not in the repository) | time, match, mask, raw interrupt | tick, register access | `rtc_control_2` |
| `testcodes/sensing_driver.h` | none | pause/settle/access/resume, drain, wait | wrapper registers |
| `agriculture_soc.v`, `AHB/`, `accelerator_subsystem.v` | CLK1HZ divider, reset synchroniser, decoder, mux | clocks, resets, routing | everything |

What is hard here: *two clocks* (sarlogic runs on a divided clock; `valid` is a
level after a single conversion and a pulse of one period in back-to-back mode);
*the unrequested conversion* (`adc_en` falls only after `valid` has crossed into
PCLK, by which time sarlogic has started again); *check and act* (room in the
FIFO is checked before a conversion and used after it, a read pops a cycle late,
the status lags); *two masters on the PL031* (the arming FSM's outputs are
registered, so it is on the bus a cycle after its state says so, and it shares
the bus with firmware by wait states); *alarms by equality*; *resets* (PRESETn
leaves the PL031's time alone, nPOR does not).

It is correct when the FIFO is a queue; the FSM pushes exactly one new, complete
result for each trigger it accepts and always gets back to idle; the converter
returns the ideal code; the wrapper never pops nothing or reports what is gone;
the RTC controller always has an alarm armed and ahead, answers each alarm once,
honours a pause, and neither it nor a bus master can lock the other out.

### The platform's software

| Component | State | Operations | Talks to |
|---|---|---|---|
| `software/drivers/dma_350_command_lib.c` | none of its own: the DMA's registers | some hundred functions, each a few register reads and writes | engine, interrupt handler |
| `software/common/validation/dma350_tests.c` | current channel, interrupt count | interrupt handler | library |
| `software/debug_tester/debugtester.c` | its picture of the debug port (`DAPSTATUS`), of the target, and the trace parser's state | seventeen functions for a test program; memory and register accesses; JTAG and serial wire; trace decompression | debug port (wires), trace port, GPIO lines |
| `testcodes/generic/mcu_debugtester_interface.c` (under `nanosoc_tech/`), `software/common/debug_tests/debug_tests.c` | call under way | select a function, wait, read the verdict | the tester, over GPIO lines and target memory |
| `testcodes/aes128_tests_dma230/`, `software/drivers/dma_pl230_driver.c` | DMA descriptors, interrupt counts, buffers | polled and DMA encryption, chunking, main's checks | AES engine, PL230 |
| `software/cmsis/.../CMSDK_driver.c`, `software/common/retarget/uart_stdout.c` | registers | timer, UART and GPIO functions; console | peripherals, interrupt handlers |
| `software/common/demos/`, `testcodes/fault_recovery_test/`, `testcodes/sensing_fault.h` | counters and flags of the program; the reset status register across resets | the parts of each program, their NMI, HardFault and timer handlers | watchdog, timers, NVIC, system controller |

What is hard here: *read-modify-write of live registers* (writing back what was
read sets or clears bits that changed in between); *an interrupt handler between
any two accesses*, using the same registers; *cached device state* (the tester
does not write what it believes is there already); *polling without timeout* for
states that may be over, or never come; *a program debugging its own core*;
*streams that are mixed and cut* anywhere; *partial blocks and chunk limits*;
*resets in the middle*, after which only one register tells what happened.

It is correct when a register holds what the last call asked for; no interrupt
is lost; what a call reports is the device's state and its own result; every
loop ends; data arrives complete and in order; a program's report is true.

## 2. Modules

| Module | Models | Correspondence |
|---|---|---|
| `BoundedQueue` | what the FIFO promises | abstract specification: push, pop, both, flush |
| `SampleFifo` | `fifo_apb_adc` | one conjunct of `Clk` per always block; `Queue` is the refinement mapping |
| `SamplingFsm` | `wrapper_control_2` | one action per row of the next-state table |
| `SarLogic`, `SarAdc` | `sarlogic`; the same with latch and macro | one action per state; `Comparator` and `Hold` from `sar_afe_model.v` |
| `SensingWrapper` | the sampling path of the wrapper | composes the three; `PosEdge`/`NegEdge` are the edges of PCLK |
| `SampleProvenance` | nothing new | history variables on `SensingWrapper`: where a sample comes from |
| `RtcControl`, `Pl031` | `rtc_control_2`; the PL031 (external) | one action per group of FSM states; the bus is a record |
| `RtcPath` | the timing path of the wrapper | composes the two with `alarm_offset_reg`, `poll_enable_reg` and a bus master |
| `SensingDriver` | `sensing_driver.h` | its calls as access sequences of a master of `RtcPath` |
| `Dma350Lib` | `dma_350_command_lib.c` | a function is the program of register accesses it makes |
| `Dma350` | library, handler, engine | executes those programs one access at a time |
| `Dma350Programs` | the library's functions | the discipline they have in common, which the theorems assume and TLC checks of every call |
| `DapPort` | the tester's accesses | operators of the source's names on a record of port, picture, memory and core |
| `DebugTester` | the tester's functions, the GPIO interface, the test program | one action per step of the handshake and per call |
| `DapWire` | JTAG and serial wire | a routine is its sequence of clock pulses; the port follows the TAP states or the phases of an access |
| `TraceParser` | `CheckTrace`, `ParseTrace` | one action per byte pair of a frame; packets are byte classes |
| `AesDma` | AES drivers, PL230 driver, test program | one action per stretch of a driver between two polls or interrupts |
| `CmsdkDriver` | `CMSDK_driver.c`, console | a function is its sequence of accesses; program and handler each run such sequences |
| `ResetDemos` | watchdog, self reset, fault recovery programs | parts of the programs as actions; accesses, handlers and resets between |
| `TimerDemos` | dual timer and sleep programs | the same, with WFI, WFE and the event register |
| `Demos` | | composes the two, one program a behaviour |
| `SampleFifoProofs`, `SarAdcProofs`, `Dma350Proofs`, `CmsdkDriverProofs`, `DapWireProofs`, `DebugTesterProofs` | | theorems about the modules they name |
| `RtcPathProofs` | | theorems about `RtcPath` and about the timing of `SensingDriver` |
| `SampleProvenanceProofs` | | theorems about `SensingWrapper`, and about `SampleProvenance` on top of them |
| `TracePackets` | | the packets of the trace runs |
| `MCSampleBlocks`, `MCDebugLink`, `MCBareMetal` | | several parts in one run, one part a behaviour |
| other `MC*` | | constants of the runs, call tables |

Conventions. In the hardware modules an action `Clk` is one rising edge of a
component's clock with its inputs as arguments; all registers of one clock change
in one step, reading the values before it, as nonblocking assignments do. An
asynchronous reset is an action enabled in every state. In the software modules
a function that can be interleaved is a sequence of accesses, executed one at a
time, the handler between any two; where nothing can interleave, a call is one
step. Definitions marked *bug variant* are not part of a specification: each is
a plausible mistake that a run must catch.

Abstractions:

* *SarAdc.* Analog values are integers in result codes, offset included; ties
  with code boundaries are included. The decision is computed where it is read:
  what it depends on does not change in between. Metastability and noise are
  left out: with the macro's outputs settled within half a period (the
  constraint of `sar_adc.sdc`) they do not reach sarlogic.
* *SensingWrapper.* The divider moves on the falling edge of PCLK and the
  synchroniser on the rising edge, so the clocks never move together; this is
  the code's own arrangement. `rtc_trig` may pulse in any cycle. The bus master
  makes any access any number of times; APB separates two ACCESS cycles by at
  least one cycle (`MinQuiet`).
* *RtcPath, SensingDriver.* CLK1HZ ticks at least `TickMin` cycles apart. A
  behaviour has one of two masters: a program that makes driver calls in any
  order, or an arbitrary one. Both leave one idle cycle between transfers.
  Writes of the PL031's other registers through the passthrough would undo the
  arming by design, and no driver function makes them.
* *Pl031.* A counter compared for equality; a match brought about by a *write*
  (of the time, or of a match that the counter stands at already) may or may not
  raise the interrupt, and a PRESETn may or may not clear a
  pending one, because nothing in the repository says.
* *Dma350.* Each register field has two representative values, so a register is
  the set of fields at the second. The engine is not in the repository; it follows
  the comments on each field in `dma_350_regdef.h`: which commands an idle channel
  ignores, when a request falls, which flags an enabled channel starts without,
  that the error information goes with its flag, that a pause of the channel waits
  for a resume and one of the unit ends with the unit's request, and that a clear
  waits for the end of the command only on a channel that is enabled. How long it
  takes is open: a clear may come between any two accesses of a call. Calls may set
  CLEARCMD, as the settings of `dma350_tests.c` do, and nobody waits for it to read
  0, as nobody does there. `wiped` remembers which fields a clear has reset since
  they were written. Uninitialised template bits
  (`dma_350_command_lib.c:452`) are a parameter of `SetAdaTmpltRegs` and excluded
  from `ProgrammedFields`.
* *DapPort.* Two bits stand for a byte, so a word is a number below 256. Writes
  are posted, reads come one late, the address increment wraps in `Wrap` bytes,
  an access to nothing sets the sticky error.
* *DebugTester.* A tester function is one step, except the two that wait for the
  core, which are split where the core runs on. Memory is cleared between
  calls, so that one call's answer cannot pass for the next one's.
* *TraceParser.* A source sends packets of a given table (20 ETM and 19 ITM
  kinds, including the ones the parser must reject). `bad` in the table is what the
  messages of the source say of a packet; `Rejected` is what its tests, as
  compiled, say of it. Values that are only printed are left out.
* *AesDma.* Data is counted in units; a block holds its input's identity, so
  that a result says which input it came from.
* *ResetDemos, TimerDemos.* `parts` is what the ID checks of a program find on the
  chip; without one of its peripherals it says that the test is skipped, or has
  failed. Time is in ticks. Printing takes up to `PrintTicks`;
  between two other accesses at most one tick passes (the processor is faster
  than the intervals the programs set). The set and clear halves of a
  read-modify-write of a control register are one access: the handlers do not
  write the registers in question.

## 3. Runs

| Run | Shows | Instance |
|---|---|---|
| `sample_blocks` | FIFO: `CountMatchesPointers`, `ImplementsQueue` (refinement); converter: `ConversionIsIdeal`, `SearchInterval`, `ResultChangesWithValid` | 4 slots, 2 samples; 3 bits, inputs past both ends, trim of 2 bits, 3 comparisons each |
| `sample_provenance` | `NoOverrun`, `PopHasSample`, `WriteHoldsLastResult`, `StatusNotPhantom`, `EndedAfterTrigger`, `LatencyBounded` | FIFO of 2, 1-bit ADC, `ClkDiv` 2, calibrations, every access, `MinQuiet` 2 |
| `sensing_driver` | `AlarmArmed`, `AlarmAhead`, `TriggerAnswersAlarm`, `QuietWhenPaused`, `StallBounded`, `AlarmServedSoon`, `HelperNeverStalls` | time modulo 4, offsets 1 and 2, ticks 4 cycles apart or more (the least the theorem allows), the driver's settle delay of 16 |
| `dma350` | `ProgrammedFields`, `BusWritesAsAsked`, `FlagsServed`; the discipline of the calls (`ProgramsAssumption`) | 2 channels, both units, security frame; every writing function with all, no, or the source-side parameters, CLEARCMD among them; up to 4 calls' cost |
| `debug_tester` | `CacheCoherent`, `AnswerIsTrue`, `VerdictIsResult`, `CallReturns` | both wire protocols; any number of calls in any order |
| `debug_link` | wires: `NoContention`, `WordsArrive`, `WireAccessEnds`; trace port: `InStep`, `VerdictAsCompiled` | 2 data bits, line reset of 5, up to 2 WAITs in a row; 2 packets of any kind, up to 3 frames of 2 pairs |
| `bare_metal` | driver: `CallsAreAtomic`, `SentInOrder`, `LossIsFlagged`, `StartsFull`; demos: `ReportIsTrue`, `WritesUnlocked`, `DemoEnds`; AES: `TestPasses`, `ResultIsPrefix`, `DriverReturns` | 3 pins over both halves of a port, one of them shared, 2 calls each of program and handler; 20 ticks for the watchdog's 10000 cycles, 3 rounds, 2 outside resets, 2 reads a part, any peripheral missing; block 4, word 2, chunk 4 transfers, lengths 3, 4, 8, 10, 12, 2 calls |
| `stale_sample` | violates `SampledAfterTrigger` | as `sample_provenance` |
| `short_period` | violates `AlarmIsPeriodic` | as `sensing_driver` |
| `trace_verdict` | violates `VerdictIsRight` | the trace port of `debug_link` |
| `aes_start` | violates `StartIsSeen` | one call of 4 or 8 units |
| `shared_pin` | violates `ThreadSafe` | the driver of `bare_metal` |

The last five show the findings of section 4.

`sample_blocks`, `debug_link` and `bare_metal` put parts that do not act on each
other into one run: a variable of the `MC` module (`block`, `link`, `runs`) says
which of them a behaviour runs, and the others stay as they are at the start. So
each part keeps all its behaviours, nothing is interleaved that is not in the
system, and the fairness and the liveness of a part are claimed of the behaviours
that run it (`WireAccessEnds` is `AccessEnds` of those that run the wires). The
properties of a part that is an INSTANCE are named again in the `MC` module.

Why the bounds are enough.

* *Sampling path.* A FIFO is empty, full or between, and two slots show all
  three; the theorems cover every depth. A conversion is the same step repeated,
  so three bits show a first, a middle and a last one; the theorems cover every
  width. The wrapper's races depend on how the few cycles of the handshake meet
  the end of a conversion; short conversions and a small `ClkDiv` make them meet
  in more ways than the 8 bits and divider of 4 of the build. `latency` counts
  one past `MaxLatency`.
* *Timing path.* CLK1HZ is at least 100 cycles in every build and 8 in the run,
  less than a re-arm's 12, so a tick falls into every state of the FSM. An offset of
  1 is the shortest poll period the repository uses (`pslverr_test.c:93`) and the
  one a tick during the re-arm can overtake; 2 is one it cannot. Stalls
  are counted past the 24 that `StallBounded` claims, pauses past the 3 of
  `QuietWhenPaused`, deferred alarms past the 3 of `AlarmServedSoon`. These three
  are bounded forms of liveness: they hold of every behaviour with a running
  PCLK, whatever the master does.
* *DMA.* A race needs one library call, the engine and one handler run; a
  setting that is undone needs two calls, and the indexed pair two more.
  `Cost` makes plain configuration calls count double, so that calls that steer
  a running transfer can follow one another. A clear that comes in the middle of a
  call needs that call and the one that set CLEARCMD.
* *Debug tester.* No bound on the calls. Endianness and core type are build
  options; the run takes the little-endian CORTEX_M0PLUS.
* *Wires.* The routines loop over bits without looking at them, so two data bits
  show a first and a last one.
* *Trace.* A desynchronised stream shows at the next packet; the longest packet
  fits in the frames of a run. Captures may be cut inside a frame.
* *AES.* Lengths below, at and between multiples of a block, at and over a chunk
  of either transfer size; three blocks show a first, a middle and a last one.
* *CMSDK.* A handler call between any two accesses of a program's call, and one
  more of each, is what an anomaly of two calls takes. Program and handler each
  have a pin of their own and share a third.
* *Programs.* An outside reset may strike at any access, twice; the tick is a
  fraction of every interval a program waits for.

Fairness.

* The hardware runs need none: their properties are safety, latency and stall
  counts. `WireAccessEnds`, `CallReturns`, `FlagsServed`, `DriverReturns` and
  `DemoEnds` are liveness.
* Weak fairness of the processor that runs the modelled program (a step it can
  take is eventually taken) and of the hardware that works by itself: the DMA
  channels and the AES engine, the timers' and the watchdog's clocks. Which
  calls a program makes, resets, and a port's WAIT beyond `MaxWaits` are not
  fair. The CMSDK driver has no fairness.
* `Reselect = FALSE` (debug tester): the test program selects the interface once
  per power cycle of the port, as the tests do. See section 5 for what happens
  otherwise.
* `DriverReturns` excuses a driver whose transfer was over before it first polled;
  that such a driver never returns is `aes_start`.
* `CallReturns` excuses a tester that looked before the core slept, and an
  access that failed: its loops have no timeout.

## 4. Findings

*A trigger may be answered with an old input* (`stale_sample`). The sampling
FSM's handshake always starts a second conversion (`wrapper_control_2.v:65`). A
trigger that arrives while it runs, or before its `valid` reaches PCLK, pushes
its result, although its input was held before the trigger.
`adc_apb_wrapper_rev2.v:9` promises a conversion on each trigger;
`sar_adc_tb.v:223, 329` counts such samples and lets them pass. What does hold is
checked beside it: the result finished after the trigger and is pushed once
(`EndedAfterTrigger`). In the same way the 0x00 of a calibration can be pushed
for a trigger issued after `adc_cal` was cleared.

*A poll period of one second can stop the polling* (`short_period`). The FSM reads
the time, adds the offset and writes the match some cycles later
(`rtc_control_2.v:346`). A second that ends in between brings the counter to a match
one second away before it is written, and the next one is 2^32 seconds off.
`adc_apb_wrapper_rev2.v:6` promises a periodic alarm with that offset as its period,
and `pslverr_test.c:90-93` uses 1 as the shortest. Whether a PL031 raises its
interrupt when a match is written that the counter stands at already is not in the
repository; the counterexample is with one that does not. `AlarmAhead`, checked and
proved beside it, says that this is the only way: the period always is the offset,
and an alarm is late only if the offset was 1 and that second ended during the
re-arm.

*Two timestamp checks test the wrong bit* (`trace_verdict`).
`new_byte & 0xFE != 0x00` (`debugtester.c:1479`) and `new_byte & 0xC0 !=0` (`:1240`)
compare first, so that both look at bit 0. "ITM TS2 byte 5 can only have bit[0] set"
(`:1481`): 2 passes and 1 fails. "Last timestamp byte should have [7:6]=00"
(`:1242`): 0x42 passes and 0x3D fails. `VerdictAsCompiled` shows that a capture
fails exactly when it is cut or one of the tests, as compiled, rejects a packet.

*The AES DMA drivers can hang* (`aes_start`). After starting the DMA they poll
for the output channel to be active, "to ensure output DMA has started"
(`aes128_tests_dma230.c:403-405, 464-466`). A transfer that is over before the first
poll looks like one that has not started; the handler of the DMA's interrupt, which
may come between, makes time for it. `DriverReturns`: nothing else keeps a driver.

*The interrupt type of a shared pin* (`shared_pin`). `CMSDK_gpio_SetIntHighLevel` and
its three siblings write INTTYPE and then INTPOL (`CMSDK_driver.c:593-641`), and each
says "This function is thread safe". A handler that sets the pin to low level
between the program's two writes for a rising edge leaves it high level, which
neither asked for. `CallsAreAtomic` is what holds: every other pin is as some order
of the calls leaves it, and each bit of a shared pin is, though not all in the
same order.

## 5. Disagreements without a run of their own

Met while modelling. Each is in the model as the code has it; the properties say
what holds in spite of it.

* *Calibration runs away from the offset.* sarlogic keeps a trim bit when the
  comparator is mostly low (`verilog.v:121-127`, "if comp out is too low, add
  offset"); in `sar_afe_model.v:47-49` a higher trim makes it lower still.
  `sar_adc_tb.v:367-368` prints a note about it. `adc_cal` is a level, so "next
  conversion calibrates" (`sensing_ip.h:18`) is every conversion until cleared.
* *A passthrough transfer can be torn.* `bus_free` (`rtc_control_2.v:211`)
  includes `S_IDLE`, which lasts one cycle. A transfer granted there shows the
  PL031 its SETUP, is pushed off the bus by the re-arm, and ends with an ACCESS
  that follows no SETUP, against `rtc_control_2.v:227-228`.
* *Setting the time can stop the polling.* `sensing_set_time`
  (`sensing_driver.h:85`) loads RTCLR and the armed match stays as it was; beyond
  it the alarm is a wrap of 2^32 seconds away. `AlarmAhead` is claimed of a time
  that was not set since the alarm was armed.
* *`sensing_read_time` resumes unconditionally*, also polling that its caller
  had paused (`sensing_driver.h:76`; so does `sensing_set_time`).
* `verif/sensing_assertions.sv:78-80` still asserts that PREADY is always high,
  and the "~10 PCLK" of `rtc_control_2.v:218` is twelve, twice that when the
  next alarm is already pending (`StallBounded`).
* *DMA commands restart a finished channel.* Stop, pause, resume and disable write
  `CH_CMD | bit` (`dma_350_command_lib.c:97`); when the channel ends between
  read and write, ENABLECMD is written as read: the channel starts anew, and drops
  the flags of the end nobody has seen yet. The three software trigger calls
  mask it ("Set W1S fields to 0", `:1122`), and `BusWritesAsAsked` shows that
  they then do not.
* *The settings of the DMA tests clear themselves.* With `.CLEARCMD = 1`
  (`dma350_tests.c:106`, "Cleaning DMA Channel registers at the end of the command
  is enabled", `:99`) `AdaChannelSettings` sets CLEARCMD on a channel that is not
  enabled (`dma_350_command_lib.c:341`). By `dma_350_regdef.h:235` a clear is put
  off only for a channel that is enabled or is being enabled with it, so the channel
  is cleared there and then, between the calls that set it up, and may start without
  what they asked for. How soon a clear comes is up to the engine, which is not in
  the repository. `ProgrammedFields` says what is left, with such calls in the run
  and in the theorem: a field holds what was asked for or, if a clear came after it
  was written, its value at reset, and no read-modify-write brings back anything
  else.
* *Two DMA link getters.* `:1434` shifts and ANDs two nibbles, which is always
  zero, and `:1474` sign-extends bit 31 of the link address. Both are ASSUMEs of
  `Dma350Lib`, evaluated by TLC. `:34` checks a channel against 8 and indexes a
  table of 3.
* *A second selection of JTAG.* `SetInterfaceJTAG` takes the TAP to its reset and
  does not forget which scan chain the program believes selected
  (`debugtester.c:356`); so does the ID scan of `GetTAPID`, which only the order
  of the accesses after it makes good. `GetTAPID` with the port off, then a
  second `SetInterfaceJTAG`, and the next answers are read from the wrong chain:
  `AnswerIsTrue` fails with `Reselect = TRUE`.
* `watchdog_demo.c:333`: `watchdog_set(10000)` writes CTRL, not LOAD, and the two
  control bits of 10000 are 0: it turns the watchdog off instead of reloading it,
  and the loop's other rounds look at a stopped counter. Modelled as written.
* `self_reset_demo.c:161`: a wrong reset cause in part 2 is printed and
  forgotten; `dualtimer_demo.c:144`: main ignores the integration test's result.
  `ReportIsTrue` speaks of what the programs do check.

## 6. Proofs

TLAPS proves, for every value of the constants allowed by the named assumptions:

* `SampleFifoProofs` (`DepthAssumption`, `DataAssumption`). `FifoTypeOK` and
  `FifoCountMatchesPointers`: the inductive invariant is the type of memory and
  pointers with `count \in 0..Depth` and the equation between the pointers and
  the count; the types alone are not inductive, since a count that disagreed
  with the pointers could pass `Depth`. `FifoImplementsQueue`: each clock maps to
  a push, pop, both, flush or stutter of the queue read from the memory; one
  lemma per case shows what happens to the sequence `Contents`, and uses the
  invariant to know that a write does not touch a slot that is held.
* `SampleProvenanceProofs`, of `SensingWrapper` (`WrapperAssumption`). `WrapperNoOverrun` and
  `WrapperPopHasSample` share the invariant `Inv`. Its strengthening is
  `PulseBetweenAccesses`: a pending pop or flush means that the access that caused
  it was in the cycle before, so no other pulse can coincide with it.
  `WrapperStatusNotPhantom` adds `PhantomBetweenAccesses`, and `MinQuiet >= 2`;
  with one cycle it is false. The AHB-APB bridge leaves more. The ADC is an
  arbitrary environment of these facts, so they hold for every converter.
  `WrapperWriteHoldsLastResult` is about the crossing of the clocks. Its
  invariant `CaptureInv` says that `valid` stands until the next conversion has
  sampled (`ValidStands`), that the first flop is behind it only in the half cycle
  after an edge of `sar_clk`, which stays high for a cycle (`Synchronised`), and
  that between the rise seen by the synchroniser and the FSM's write sarlogic is
  not about to publish another result (`NoResultDue`, `Fetching`).
* `SampleProvenanceProofs`, of `SampleProvenance` (`WrapperAssumption`, `RunAssumption`,
  `PowersOfTwo`). `SampleEndedAfterTrigger`: until a conversion has ended
  after the trigger, what is left of an earlier `valid` can only go *out* of the
  synchroniser (`LeftOver`), and the FSM waits for it to be low before it waits
  for it to be high. `SampleServedInTime`: a measure of the edges of `sar_clk` the
  converter still needs, state by state (`EndsBy`), and of the cycles the FSM
  has waited (`LatencyInv`). The bound it finds is one run, one period of
  `sar_clk` and four cycles; `LatencyBounded` is the test bench's bound
  of two runs and follows. A conversion that runs already when the trigger comes
  does not add to it: the FSM takes its result.
* `SarAdcProofs` (`AdcAssumption`, and `PowersOfTwo`: the prover has no theory of
  exponentials, so two facts about `2 ^ k` are named as an assumption, which TLC
  evaluates). `ConversionTheorem`, `SearchTheorem`, `ResultTheorem` for every
  width of result and trim. The invariant says that while a conversion runs the
  bit on trial is a power of two, the decided bits are a multiple of twice that
  bit, and the ideal code lies in the interval the bit leaves open; each step
  halves the interval on the side the comparator picks. A calibration is a
  conversion whose result is not claimed, during which the trim bit on trial is
  one bit or, outside, none.
* `RtcPathProofs` (`PathAssumption`, `SettleAssumption`). `PathTypeOK`,
  `PathAlarmArmed`, `PathTriggerAnswersAlarm`, `PathQuietWhenPaused`, for every
  counter width, set of offsets, ratio of the clocks, and master. The states
  alone do not say what the PL031 holds, because the FSM's transfer is on the bus
  a cycle after the state that drives it: `Driven` says, state by state, what is
  on the bus, `Enabled` and `Armed` what has been written or is being written,
  `Owed` and `Pausing` how far an alarm or a pause has got. A passthrough
  reaches only RTCLR, and never while the FSM is on the bus (`OnlyTheFsmWrites`).
  `DriverIsMaster` shows that each behaviour with the firmware driver is one of
  `RtcPath`, so what is proved of a master holds of the driver.
  The second half is about times, with the cycles spent so far in the invariant.
  `PathAlarmServedSoon`: a pending alarm lets one transfer by (`Deferring`).
  `PathStallBounded`: `HeldAt` bounds, state by state, how long a transfer can
  have been held, by whether it has had its SETUP and whether the re-arm is the one
  behind a reset; the largest is the 24 cycles claimed, which
  `sensing_driver` reaches; 21 and more are reached only in the second re-arm.
  `PathAlarmAhead`, for every set of offsets, under `SlowCLK1HZ` (`TickMin >= 4`):
  `Coming` follows the distance from the time to the match through the re-arm. From
  the capture on, the match is an offset after the time that was read (`From`), and
  the counter is that far behind it (`Ahead`) or, if CLK1HZ has risen since
  (`crossed`), one second less; it cannot rise twice in the four cycles before the
  match is written. So a parked FSM is `ArmedFor` an offset: the alarm is to come,
  or the offset was the one second that has ended. CLK1HZ is 100 cycles or more in
  every build.
  `DriverHelperNeverStalls`, under `LongDelay` (`SENSING_PARK_SETTLE >= 11`; the
  driver's is 300, `sensing_driver.h:43`): after a pause the FSM needs at most 13
  cycles to come to rest, and the settle delay and the bus take as many.
* `Dma350Proofs` (`ChannelAssumption`, `FramesAssumption`, `ProgramsAssumption`).
  `ConfigurationHolds` and `WritesDoAsAsked`, for every number of channels and every
  set of calls, not only the library's, whose programs keep the discipline
  `Disciplined` of `Dma350Programs`: what a write stores beside its own fields has
  been read from the same register by the same call, with no write of those fields
  in between; a register behind CHPTR is accessed after the pointer was set to
  the channel meant; a write of CH_STATUS or STATUS names all its flags; a software
  trigger names all command bits. Any call may set CLEARCMD. That the functions of
  `dma_350_command_lib.c` are such programs is what TLC evaluates in
  `dma350`, for each call of the run, and that three bug variants of them
  are not (`BugVariantsBreakIt`). The discipline is of
  a call that begins; `Inv` says what is left of it in the middle of one. What the
  call still has to write back is fresh, or will be read before (`UpToDate`); a field
  that it names holds what was asked, has been cleared, or is still to be written
  (`Programmed`). A clear may come between the read and the write of a call, whose
  write then brings back what the clear has reset. `Fresh` says why that does no
  harm: a field that the call has read set and the register no longer has was
  cleared since, and is one that was asked for or that the call itself will write
  (`Wanted`). One lemma each says what an access of the program, of the
  handler and of the engine can change; `ChannelCleared` is the one about clears.
* `DapWireProofs` (`WireAssumption`). `EndsInStep`, `OneDriver`, `WordsWhole`, for
  every length of a word and of a line reset and any number of WAIT answers. A
  stage of an access is a known sequence of pulses, so the invariant `Inv` counts
  down: with `Left` pulses to make, those are the ones a function of the stage
  tells (`Making`), and that number fixes the phase of the port (`HeadingPhase`,
  `ReadingPhase`, `WritingPhase`) or the state of the TAP and the contents of its
  registers (`ScanningIR`, `ScanningDR`), and what the tester has kept. While a
  data register is scanned it holds the rest of what it showed followed by what
  the tester has sent, whatever its length. For a reset, `ResetIn(n)` is the set of TAP
  states from which n clocks with TMS high reach Test-Logic-Reset; it is every
  state at five, which is why the routine clocks five ones. The lemmas come in
  two groups: one pulse of each stage keeps it (`SelectingClock`, `HeadingClock`,
  `ReadingClock`, `WritingClock`, `RestingClock`, `JtagSelectingClock`,
  `ScanningClock`), and each routine makes the pulses its stage counts
  (the lemmas `...Follows`). `OneDriver` is then that the pulses of the phases in
  which the port drives are those that float. That an access comes to its end is
  liveness and left to TLC.
* `CmsdkDriverProofs` (`DriverAssumption`). `ConsoleSentInOrder`,
  `ConsoleLossIsFlagged`, `TimerStartsFull`, for any number of calls, any sets of
  pins, characters and reload values, and every interleaving of the handler with
  the program. The invariant `DriverInv` ties what a call has left to do to what it
  has seen: a call that is about to write a character has seen room since
  (`Sending`; the handler sends nothing), a handler about to read one has seen
  one (`Taking`), a timer that is being set up stands still from the
  first write on (`Starting`). The contents of buffers, wire and logs are sequences
  of any length. `ConsoleAssumption` only ties the explicit registers of a started
  console (`ConsoleUp`) to the program that starts it; TLC evaluates it, and the proofs
  do not use it.
  `CallsSerialize` has no hypothesis about the pins. Its invariant `AtomInv` adds
  that the registers, once the handler has made the rest of its call and then the
  program the rest of its own, are beside the shared pins one of the serial outcomes
  in `want` (`OneOrder`) and in each bit of a shared pin some outcome (`EachBit`). An
  access of a thread leaves what its whole call does (`AccessDone`, from
  `FirstAccess`); a handler that starts either leaves the software's registers alone
  (`IsrElsewhere`) or sets pins up. A sequence of accesses to pins
  keeps a bit or leaves the same in it whatever was there (`PinRun`), and leaves
  other pins and registers alone (`PinRunElsewhere`). So a bit that the rest of the
  program's call still touches is as its whole call leaves it (`Based`), and any
  other as the handler does. These are inductions over the
  accesses of a call. The library's induction theorem for the naturals cannot be
  instantiated by the provers here; `NatSetInduction` says the same of a set and
  follows from the well-foundedness of < (`WFMin`), and with it a recursive
  function is shown to exist (`RunExists`) and to be what `Uninterrupted` returns
  (`LastOfRun`).

* `DebugTesterProofs` (`TableAssumption`). `VerdictOfCall` holds of every constant:
  `Orderly` follows the call over the GPIO lines, who is waiting for whom at each
  point of either program (`Handshake`), and which functions may be at the points
  inside the two that act on the core (`CoreCalls`). Of what a function does it needs
  only that it returns a value (`HasRd`).
  `PictureIsTrue` and `PassWithoutFault` need what each function leaves of the port,
  so every operator of `DapPort` has a lemma. `CacheCoherent` is not inductive: it
  says nothing about a port whose power is off, and the next function powers it up.
  `Resting` adds that the scan chain is not the access port's, that the bank
  is 0 whenever no access has failed, and that over serial wire a fault at
  the port has been counted by the program (`Known`). In the middle of a function
  the weaker `Pictured` holds, and after an identification scan, which leaves the TAP
  on another chain than the program believes, `Scanned`: the access that follows
  is one to the access port, for which the program selects the chain anew. What a
  function that loops for ever leaves is only `Stopped`. Block transfers are inductions over their words (`BlockExists`,
  `NatSetInduction`). The two theorems have two hypotheses.
  `Reselect = FALSE`: a second selection of JTAG breaks the picture (section 5); the
  test programs select once, and the interface's own check asks for the port to be off.
  `"ReadMemSpecial" \notin Spare`: that function, which no entry of the program's
  table calls, forgets one error on purpose, so that `Known` is not kept by it; the
  run makes that call too and finds no violation.

Only model-checked: of the debug tester, what the answers are (`AnswerIsTrue`
beyond its first conjunct, which is what `PassWithoutFault` states); its trace
parser, the AES program and the demos; of the wires, that an access ends; all
liveness, which is out of the prover's reach, as is `ENABLED`.
`AnswerIsTrue` is about the bytes of particular words after many accesses, values
that TLC computes and the provers do not. The five properties of
section 4 are false, and so is `CacheCoherent` without `Reselect = FALSE` (section 5).
Nothing is proved of recursive operators or of folds over sequences; what is
defined by a recursive function can be, by `NatSetInduction`.

## 7. Not modelled

* *AHB decoder and mux, reset synchroniser, NanoSoC subsystem:* wiring between IP
  that is not in the repository. The mux's select is two clocks old and not held
  on wait states (`AHB/AHBMUX.v:53`), which is listed as a hazard from reading:
  whether a response goes astray depends on the timing of those blocks.
* *Analog behaviour* below the behavioural model; the AMUX and PLL, which are
  dummies; superseded revisions; CPU, memories, bridge, pads, ASIC and AMS flows.
* *Sampling calls of the driver* beyond single accesses (drain, wait for a
  sample): the master of `SensingWrapper` makes their accesses in every order.
* *Other platform programs* (hello, dhrystone, bootloader, romtable tests,
  `interrupt_demo`, the validation tests): straight-line programs or third-party
  benchmarks. The register headers that only name fields.
* *Big-endian and other core types* of the debug tester, which are parameters of
  `DapPort` no run sets.
* Reset is modelled as clean: release near a clock edge is the synchroniser's
  business.

## 8. What could follow

`InStep` of the trace parser and `ResultIsPrefix` of the AES drivers as theorems,
and `PassWithoutFault` with `ReadMemSpecial` in the table; the composition
of the two halves of the wrapper as an implementation of "each alarm yields one
sample or a reported drop"; the big-endian debug target.
