----------------------------- MODULE TimerDemos -----------------------------
(***************************************************************************)
(* The programs that wait for a timer's interrupt: dualtimer_demo.c, which *)
(* polls what its handler counts, and sleep_demo.c, which sleeps until the *)
(* handler has run.  A behaviour runs one of them.                         *)
(*                                                                         *)
(* The processor executes the handler between two accesses of the program. *)
(* The timers, the NVIC and the processor are external.  Time is counted   *)
(* in ticks of CyclesPerTick cycles.                                       *)
(***************************************************************************)
EXTENDS Integers, Sequences

CONSTANTS CyclesPerTick, \* [program -> cycles in a tick]
          PrintTicks,    \* most ticks while a message is printed
          Reads          \* bound: values the dual timer demo shows (10)

VARIABLES
  program,     \* the image in the program memory
  pc,          \* where the program and the interrupt handler are
  todo,        \* accesses each still makes before it goes on from there
  sw,          \* the program's variables
  io,          \* the timers, the NVIC and the sleep control
  asleep,      \* what the processor sleeps in
  event,       \* its event register
  slack,       \* ticks that may pass before its next step
  expired,     \* (history) the timer reached zero since it was started
  out          \* what the program has said: "running" until it ends
ioVars == << io, asleep, event, expired >>
vars == << program, pc, todo, sw, ioVars, slack, out >>

TimerPrograms == {"dualtimer", "sleep"}
Ticks(cycles) == (cycles + CyclesPerTick[program] - 1) \div CyclesPerTick[program]

-------------------------------------------------------------------------------
(* Accesses: what they go to, the register and the value.                  *)

puts == << "puts", "", 0 >>
Say(condition) == IF condition THEN << puts >> ELSE <<>>
ITOP(v) == << "ITOP", "", v >>
ITCR(v) == << "ITCR", "", v >>
NVIC(op) == << "NVIC", op, 0 >>
SLEEPDEEP(v) == << "SCR", "SLEEPDEEP", v >>
SLEEPONEXIT(v) == << "SCR", "SLEEPONEXIT", v >>
PMUCTRL(v) == << "PMUCTRL", "", v >>

\* An assignment to a variable of the program, which the handler can see.
Set(variable, v) == << "set", variable, v >>
Inc(variable)    == << "inc", variable, 0 >>

ClearVariables == << Set("dtimer_irq_expected", 0), Set("dtimer1_irq_occurred", 0),
                     Set("dtimer2_irq_occurred", 0) >>

dualtimer_irq_clear(d) == << << d, "INTCLR", 0 >> >>
dualtimer_stop(d) == << << d, "STOP", 0 >> >>

\* (bug variant) an old interrupt is left in the timer
dualtimer_setupUncleared(d, load, bits) ==
  << << d, "CTRL", {} >>, << d, "LOAD", load >>, << d, "CTRL", bits >> >>

dualtimer_setup(d, load, bits) ==
  << << d, "CTRL", {} >> >> \o dualtimer_irq_clear(d)
  \o << << d, "LOAD", load >>, << d, "CTRL", bits >> >>

\* One part of a demonstration: a timer set up, and what is done with it.
Part(d, cycles, irq, bits, n) ==
  [timer |-> d, cycles |-> cycles, irq |-> irq, n |-> n, opening |-> <<>>,
   bits |-> bits \cup {"EN"} \cup IF irq THEN {"INTEN"} ELSE {}]

freerunning16(d, cycles, irq, n) == Part(d, cycles, irq, {}, n)
freerunning32(d, cycles, irq, n) == Part(d, cycles, irq, {"SIZE"}, n)
periodic16(d, cycles, irq, n)    == Part(d, cycles, irq, {"MODE"}, n)
periodic32(d, cycles, irq, n)    == Part(d, cycles, irq, {"MODE", "SIZE"}, n)
oneshot16(d, cycles, irq, n)     == Part(d, cycles, irq, {"MODE", "ONESHOOT"}, n)
oneshot32(d, cycles, irq, n)     == Part(d, cycles, irq, {"MODE", "ONESHOOT", "SIZE"}, n)

\* Every demonstration begins by clearing the variables.
Demonstration(parts) == [parts EXCEPT ![1].opening = ClearVariables]

\* Cycles are the count times the prescaler's 1, 16 or 256.
dualtimer_16_free_running_demo(d) == Demonstration(
  << freerunning16(d, 5000, FALSE, Reads), freerunning16(d, 200 * 16, FALSE, Reads),
     freerunning16(d, 20 * 256, FALSE, Reads), freerunning16(d, 5000, TRUE, 1) >>)
dualtimer_32_free_running_demo(d) == Demonstration(
  << freerunning32(d, 5000, FALSE, Reads), freerunning32(d, 200 * 16, FALSE, Reads),
     freerunning32(d, 20 * 256, FALSE, Reads), freerunning32(d, 5000, TRUE, 1) >>)
dualtimer_16_periodic_demo(d) == Demonstration(
  << periodic16(d, 1000, FALSE, Reads), periodic16(d, 200 * 16, FALSE, Reads),
     periodic16(d, 20 * 256, FALSE, Reads), periodic16(d, 3000, TRUE, 4) >>)
dualtimer_32_periodic_demo(d) == Demonstration(
  << periodic32(d, 1000, FALSE, Reads), periodic32(d, 200 * 16, FALSE, Reads),
     periodic32(d, 20 * 256, FALSE, Reads), periodic32(d, 3000, TRUE, 4) >>)
dualtimer_16_one_shot_demo(d) == Demonstration(
  << oneshot16(d, 2000, FALSE, Reads), oneshot16(d, 100 * 16, FALSE, Reads),
     oneshot16(d, 3000, TRUE, 1) >>)
dualtimer_32_one_shot_demo(d) == Demonstration(
  << oneshot32(d, 2000, FALSE, Reads), oneshot32(d, 100 * 16, FALSE, Reads),
     oneshot32(d, 3000, TRUE, 1) >>)

\* main prints three lines before it goes through the demos of a timer.
Banner == << puts, puts, puts >>
AllDemos(d) ==
  LET parts == dualtimer_16_free_running_demo(d) \o dualtimer_16_periodic_demo(d)
               \o dualtimer_16_one_shot_demo(d) \o dualtimer_32_free_running_demo(d)
               \o dualtimer_32_periodic_demo(d) \o dualtimer_32_one_shot_demo(d)
  IN  [parts EXCEPT ![1].opening = Banner \o @]
Demos == AllDemos("DUALTIMER1") \o AllDemos("DUALTIMER2")

\* The tests of sleep_demo.c: the way each sleeps, and what it writes to SCR
\* to say how deeply; the last three of the four sleep deeply, and WicTests,
\* with the wake-up controller, only if there is a power management unit.
Test(way, depth) == [way |-> way, depth |-> depth]
Shallow == << SLEEPDEEP(FALSE) >>
Deep    == << SLEEPDEEP(TRUE) >>
NormalTests == << Test("WFI", Shallow), Test("WFE", Shallow), Test("exit", Shallow) >>
DeepTests   == << Test("WFI", Deep), Test("WFE", Deep), Test("exit", Deep) >>
WicTests    == << Test("WFI", Deep), Test("WFE", Deep), Test("exit", <<>>) >>
LastTest    == << Test("WFI", Deep) >>
Tests == NormalTests \o DeepTests \o << Test("PMU on", <<>>) >> \o WicTests
         \o << Test("PMU off", <<>>) >> \o LastTest

CMSDK_timer_Init_IntClock(cycles) ==
  << << "TIMER0", "CTRL", {} >>, << "TIMER0", "VALUE", Ticks(cycles) >>,
     << "TIMER0", "RELOAD", Ticks(cycles) >>, << "TIMER0", "CTRL", {"EN", "INTEN", "MODE"} >> >>
CMSDK_timer_StopTimer  == << << "TIMER0", "STOP", 0 >> >>
CMSDK_timer_DisableIRQ == << << "TIMER0", "DISABLE", 0 >> >>
CMSDK_timer_ClearIRQ   == << << "TIMER0", "INTCLR", 0 >> >>
StopTimer0 == CMSDK_timer_StopTimer \o CMSDK_timer_DisableIRQ

-------------------------------------------------------------------------------
(* The timers and the interrupt controller.                                *)

Timers == {"DUALTIMER1", "DUALTIMER2", "TIMER0"}

\* The 32-bit wrap of a free-running timer lies beyond the end of its part.
WrapOf(bits) == IF "SIZE" \in bits THEN 0 ELSE Ticks(65536)

\* The value of a stopped timer is forgotten: no program reads it.
TimerWritten(t, reg, v) ==
  CASE reg = "CTRL"   -> [t EXCEPT !.ctrl = v]
    [] reg = "LOAD"   -> [t EXCEPT !.load = v, !.value = v]
    [] reg = "VALUE"  -> [t EXCEPT !.value = v]
    [] reg = "RELOAD" -> [t EXCEPT !.load = v]
    [] reg = "INTCLR" -> [t EXCEPT !.ris = FALSE]
    [] reg = "STOP"   -> [t EXCEPT !.ctrl = @ \ {"EN"}, !.value = 0]
    [] reg = "DISABLE" -> [t EXCEPT !.ctrl = @ \ {"INTEN"}]

\* One tick; at zero the timer interrupts and wraps, reloads or stops.
TimerTick(t) ==
  IF "EN" \notin t.ctrl \/ t.value = 0 THEN t
  ELSE IF t.value > 1 THEN [t EXCEPT !.value = @ - 1]
  ELSE [t EXCEPT !.ris = TRUE,
                 !.value = IF "ONESHOOT" \in t.ctrl THEN 0
                           ELSE IF "MODE" \in t.ctrl THEN t.load ELSE WrapOf(t.ctrl)]

MIS(t) == t.ris /\ "INTEN" \in t.ctrl
Line(s) == IF s.itcr THEN s.itop # 0 ELSE \E t \in Timers : MIS(s.timer[t])

\* The NVIC's pending bit follows a rising line; cleared, it follows the line.
Pending(s, new) == [new EXCEPT !.pending = @ \/ (Line(new) /\ ~Line(s))]

IoWritten(s, a) ==
  CASE a[1] \in Timers -> [s EXCEPT !.timer[a[1]] = TimerWritten(@, a[2], a[3])]
    [] a[1] = "ITOP" -> [s EXCEPT !.itop = a[3]]
    [] a[1] = "ITCR" -> [s EXCEPT !.itcr = a[3]]
    [] a[1] = "SCR"  -> [s EXCEPT !.scr[a[2]] = a[3]]
    [] a[1] = "PMUCTRL" -> [s EXCEPT !.pmuctrl = a[3] /\ s.pmu]
    [] a[1] = "NVIC" /\ a[2] = "clear" -> [s EXCEPT !.pending = Line(s)]
    [] a[1] = "NVIC" -> [s EXCEPT !.enabled = (a[2] = "enable")]
    [] OTHER -> s

TimerReset == [ctrl |-> {}, load |-> 0, value |-> 0, ris |-> FALSE]
\* present: the program's timer has the part number it looks for; pmu: there is
\* a power management unit.
IoReset(present, pmu) ==
  [timer |-> [t \in Timers |-> TimerReset], itcr |-> FALSE, itop |-> 0,
   enabled |-> FALSE, pending |-> FALSE, present |-> present, pmu |-> pmu, pmuctrl |-> FALSE,
   scr |-> [SLEEPDEEP |-> FALSE, SLEEPONEXIT |-> FALSE]]

-------------------------------------------------------------------------------
(* The processor.                                                          *)

Interrupted == io.pending /\ io.enabled /\ pc["handler"] = "idle"

Running(t) == /\ out = "running" /\ program \in TimerPrograms
              /\ t = IF pc["handler"] # "idle" THEN "handler" ELSE "main"
              /\ t = "main" => ~Interrupted /\ asleep = "awake"

\* A message takes ticks; between other accesses at most one passes, in all.
SlackFor(accesses) == IF accesses # <<>> /\ accesses[1] = puts THEN PrintTicks
                      ELSE IF slack > 0 THEN 1 ELSE 0

SwWritten(s, a) ==
  CASE a[1] = "set" -> [s EXCEPT ![a[2]] = a[3]]
    [] a[1] = "inc" -> [s EXCEPT ![a[2]] = @ + 1]
    [] OTHER -> s

Execute(t) ==
  /\ Running(t) /\ todo[t] # <<>>
  /\ LET a == Head(todo[t])
     IN  /\ io' = Pending(io, IoWritten(io, a))
         /\ sw' = SwWritten(sw, a)
         /\ expired' = (expired /\ ~(a[2] = "CTRL" /\ a[3] # {}))
         /\ slack' = SlackFor(Tail(todo[t]))
  /\ todo' = [todo EXCEPT ![t] = Tail(@)]
  /\ UNCHANGED << program, pc, asleep, event, out >>

At(t, point) == Running(t) /\ pc[t] = point /\ todo[t] = <<>>

GoTo(t, point, accesses, set) ==
  /\ pc' = [pc EXCEPT ![t] = point]
  /\ todo' = [todo EXCEPT ![t] = accesses]
  /\ sw' = set
  /\ slack' = SlackFor(accesses)
  /\ UNCHANGED << program, ioVars, out >>

End(verdict) ==
  /\ out' = verdict
  /\ UNCHANGED << program, pc, todo, sw, ioVars, slack >>

\* Once more round a loop that waits.
Spin == slack' = 1 /\ UNCHANGED << program, pc, todo, sw, ioVars, out >>

\* The processor takes the interrupt, awake or asleep.
IRQ ==
  /\ out = "running" /\ program \in TimerPrograms /\ Interrupted
  /\ pc' = [pc EXCEPT !["handler"] = "entered"]
  /\ io' = [io EXCEPT !.pending = FALSE]
  /\ asleep' = "awake" /\ event' = TRUE
  /\ slack' = IF asleep = "awake" THEN slack ELSE 1
  /\ UNCHANGED << program, todo, sw, expired, out >>

\* It leaves the handler, to sleep again with SLEEPONEXIT.
Leave ==
  /\ At("handler", "leave")
  /\ pc' = [pc EXCEPT !["handler"] = "idle"]
  /\ io' = [io EXCEPT !.pending = @ \/ Line(io)]
  /\ asleep' = IF io.scr.SLEEPONEXIT THEN "exit" ELSE "awake"
  /\ event' = TRUE
  /\ UNCHANGED << program, todo, sw, slack, expired, out >>

\* Time passes between two steps of the processor, and while it sleeps.
Tick ==
  /\ out = "running" /\ program \in TimerPrograms
  /\ \E t \in Timers : "EN" \in io.timer[t].ctrl /\ io.timer[t].value > 0
  /\ slack > 0 \/ asleep # "awake"
  /\ io' = Pending(io, [io EXCEPT !.timer = [t \in Timers |-> TimerTick(@[t])]])
  /\ expired' = (expired \/ \E t \in Timers : io'.timer[t].ris /\ ~io.timer[t].ris)
  /\ slack' = IF slack > 0 THEN slack - 1 ELSE 0
  /\ UNCHANGED << program, pc, todo, sw, asleep, event, out >>

\* The program looks for its timer, and skips the test without it.
IdCheck ==
  /\ program \in TimerPrograms
  /\ \/ /\ At("main", "start")
        /\ IF io.present THEN GoTo("main", "next", <<>>, sw)
           ELSE GoTo("main", "skip", << puts >>, sw)
     \/ At("main", "skip") /\ End("skipped")

Finish == program \in TimerPrograms /\ At("main", "end") /\ End("passed")

-------------------------------------------------------------------------------
(* dualtimer_demo.c                                                        *)

DualSw == [part |-> 1, i |-> 0, result |-> 0, dtimer_irq_expected |-> 0,
           dtimer1_irq_occurred |-> 0, dtimer2_irq_occurred |-> 0,
           dtimer_integration_test |-> 0]

\* main and the demo functions: the next part, until the integration test.
NextPart ==
  /\ program = "dualtimer" /\ At("main", "next")
  /\ IF sw.part <= Len(Demos)
     THEN LET p == Demos[sw.part]
              setup == dualtimer_setup(p.timer, Ticks(p.cycles), p.bits)
              enable == << Set("dtimer_irq_expected", 1), NVIC("enable") >>
          IN  IF p.irq
              THEN GoTo("main", "wait", p.opening \o << puts >> \o enable \o setup,
                        [sw EXCEPT !.i = 0])
              ELSE GoTo("main", "show", p.opening \o << puts >> \o setup, [sw EXCEPT !.i = 0])
     ELSE GoTo("main", "itcr", Banner \o << puts, Set("dtimer_integration_test", 1) >>
                                 \o ClearVariables \o << ITOP(0), ITCR(TRUE) >>, sw)

\* The timer's value, again and again.
Show ==
  /\ program = "dualtimer" /\ At("main", "show")
  /\ LET p == Demos[sw.part]
     IN  IF sw.i < p.n
         THEN GoTo("main", "show", << puts >>, [sw EXCEPT !.i = @ + 1])
         ELSE GoTo("main", "next", dualtimer_stop(p.timer), [sw EXCEPT !.part = @ + 1])

\* "Wait until timer interrupt take place".
Wait ==
  /\ program = "dualtimer"
  /\ \/ /\ At("main", "wait") /\ sw.i < Demos[sw.part].n
        /\ IF sw.dtimer1_irq_occurred + sw.dtimer2_irq_occurred = 0 THEN Spin
           ELSE GoTo("main", "seen", <<>>, sw)
     \/ /\ At("main", "seen")
        /\ GoTo("main", "wait",
                << Set("dtimer1_irq_occurred", 0), Set("dtimer2_irq_occurred", 0), puts >>,
                [sw EXCEPT !.i = @ + 1])
     \/ /\ At("main", "wait") /\ sw.i = Demos[sw.part].n
        /\ GoTo("main", "next",
                dualtimer_stop(Demos[sw.part].timer) \o << NVIC("disable") >> \o ClearVariables,
                [sw EXCEPT !.part = @ + 1])

\* The interrupts by the test registers; main ignores the result.
dualtimer_integration_test ==
  /\ program = "dualtimer"
  /\ \/ /\ At("main", "itcr")
        /\ IF ~io.itcr THEN GoTo("main", "tested", << puts >>, [sw EXCEPT !.result = @ + 1])
           ELSE GoTo("main", "first",
                     << Set("dtimer_integration_test", 1), Set("dtimer_irq_expected", 1),
                        NVIC("enable"), ITOP(1), ITOP(0) >>, sw)
     \/ /\ At("main", "first")
        /\ LET missed == sw.dtimer1_irq_occurred = 0
           IN  GoTo("main", "second",
                    Say(missed) \o << Set("dtimer1_irq_occurred", 0),
                                      Set("dtimer2_irq_occurred", 0), ITOP(2), ITOP(0) >>,
                    [sw EXCEPT !.result = @ + IF missed THEN 1 ELSE 0])
     \/ /\ At("main", "second")
        /\ LET missed == sw.dtimer2_irq_occurred = 0
           IN  GoTo("main", "itcr off", Say(missed) \o << ITCR(FALSE) >>,
                    [sw EXCEPT !.result = @ + IF missed THEN 1 ELSE 0])
     \/ /\ At("main", "itcr off")
        /\ GoTo("main", "tested", Say(io.itcr), [sw EXCEPT !.result = @ + IF io.itcr THEN 1 ELSE 0])
     \/ /\ At("main", "tested")
        /\ GoTo("main", "end",
                << Set("dtimer_integration_test", 0), NVIC("disable"), puts, puts >>, sw)

\* One handler for both timers: it looks at one and then at the other.  In the
\* integration test it cannot tell which has interrupted, and counts both.
DUALTIMER_HANDLER ==
  /\ program = "dualtimer"
  /\ \/ /\ At("handler", "entered") /\ sw.dtimer_integration_test # 0
        /\ GoTo("handler", "leave",
                << ITOP(0), Inc("dtimer1_irq_occurred"), Inc("dtimer2_irq_occurred"), puts >>, sw)
     \/ /\ At("handler", "entered") /\ sw.dtimer_integration_test = 0
        /\ IF MIS(io.timer["DUALTIMER1"])
           THEN GoTo("handler", "timer 1",
                     dualtimer_irq_clear("DUALTIMER1") \o << Inc("dtimer1_irq_occurred") >>, sw)
           ELSE GoTo("handler", "look at 2", <<>>, sw)
     \/ /\ At("handler", "timer 1")
        /\ IF sw.dtimer_irq_expected = 0 THEN End("failed")
           ELSE GoTo("handler", "look at 2", <<>>, sw)
     \/ /\ At("handler", "look at 2")
        /\ IF MIS(io.timer["DUALTIMER2"])
           THEN GoTo("handler", "timer 2",
                     dualtimer_irq_clear("DUALTIMER2") \o << Inc("dtimer2_irq_occurred") >>, sw)
           ELSE GoTo("handler", "leave", <<>>, sw)
     \/ /\ At("handler", "timer 2")
        /\ IF sw.dtimer_irq_expected = 0 THEN End("failed")
           ELSE GoTo("handler", "leave", <<>>, sw)

-------------------------------------------------------------------------------
(* sleep_demo.c                                                            *)

\* said: (history) the last test reported an interrupt.
SleepSw == [test |-> 1, IntTaken |-> 0, SleepOnExitTest |-> 0, said |-> FALSE]

\* (bug variant) the announcement comes after the start of the timer
WfiTestLate(depth) ==
  depth \o << NVIC("clear") >> \o CMSDK_timer_Init_IntClock(240) \o << NVIC("enable"), puts >>

\* Each test announces itself, starts the timer and enables its interrupt.
WfiTest(depth) ==
  << puts >> \o depth \o << NVIC("clear") >> \o CMSDK_timer_Init_IntClock(240)
  \o << NVIC("enable") >>
WfeTest(depth) ==
  << puts >> \o depth \o << NVIC("clear"), Set("IntTaken", 0) >>
  \o CMSDK_timer_Init_IntClock(240) \o << NVIC("enable") >>
SleepOnExit(depth) ==
  << puts >> \o depth
  \o << SLEEPONEXIT(TRUE), NVIC("clear"), Set("IntTaken", 0), Set("SleepOnExitTest", 1) >>
  \o CMSDK_timer_Init_IntClock(8192) \o << NVIC("enable") >>

NextTest ==
  /\ program = "sleep" /\ At("main", "next")
  /\ IF sw.test > Len(Tests) THEN GoTo("main", "end", << puts >>, sw)
     ELSE LET test == Tests[sw.test]
          IN  GoTo("main", test.way,
                   CASE test.way = "WFI"     -> WfiTest(test.depth)
                     [] test.way = "WFE"     -> WfeTest(test.depth)
                     [] test.way = "exit"    -> SleepOnExit(test.depth)
                     [] test.way = "PMU on"  -> << puts, PMUCTRL(TRUE) >>
                     [] test.way = "PMU off" -> << PMUCTRL(FALSE) >>,
                   sw)

\* What PMUCTRL reads back: without the unit its tests are left out.
PmuControl ==
  /\ program = "sleep"
  /\ \/ /\ At("main", "PMU on")
        /\ IF io.pmuctrl THEN GoTo("main", "next", <<>>, [sw EXCEPT !.test = @ + 1])
           ELSE GoTo("main", "next", << puts >>, [sw EXCEPT !.test = @ + 1 + Len(WicTests)])
     \/ /\ At("main", "PMU off")
        /\ GoTo("main", "next", Say(io.pmuctrl), [sw EXCEPT !.test = @ + 1])

\* __WFI: it sleeps unless an interrupt is there.
Wfi ==
  /\ program = "sleep" /\ At("main", "WFI")
  /\ pc' = [pc EXCEPT !["main"] = "woken"]
  /\ asleep' = "WFI"
  /\ UNCHANGED << program, todo, sw, io, event, slack, expired, out >>

\* (bug variant) __WFE without a loop
WfeOnce ==
  /\ program = "sleep" /\ At("main", "WFE")
  /\ pc' = [pc EXCEPT !["main"] = "woken"]
  /\ asleep' = IF event THEN "awake" ELSE "WFE"
  /\ event' = FALSE
  /\ UNCHANGED << program, todo, sw, io, slack, expired, out >>

\* __WFE in its loop: an event from the past ends it at once.
Wfe ==
  /\ program = "sleep" /\ At("main", "WFE")
  /\ \/ /\ sw.IntTaken = 0 /\ event
        /\ event' = FALSE /\ slack' = 1
        /\ UNCHANGED << program, pc, todo, sw, io, asleep, expired, out >>
     \/ /\ sw.IntTaken = 0 /\ ~event
        /\ asleep' = "WFE"
        /\ UNCHANGED << program, pc, todo, sw, io, event, slack, expired, out >>
     \/ /\ sw.IntTaken # 0
        /\ GoTo("main", "woken", <<>>, sw)

\* Sleep on exit: the program itself only spins, and runs again when the
\* handler's second run has ended that mode.
SpinUntilTaken ==
  /\ program = "sleep" /\ At("main", "exit")
  /\ IF sw.IntTaken = 0 THEN Spin
     ELSE GoTo("main", "woken", <<>>, sw)

\* The timer is stopped; after WFI the interrupt is reported if it was taken.
Woken ==
  /\ program = "sleep"
  /\ \/ /\ At("main", "woken")
        /\ GoTo("main", "report", StopTimer0, sw)
     \/ /\ At("main", "report")
        /\ LET way == Tests[sw.test].way
               irq == way = "WFE" \/ (way = "WFI" /\ sw.IntTaken # 0)
           IN  GoTo("main", "next",
                    CASE way = "WFI"  -> Say(irq) \o << NVIC("disable"), Set("IntTaken", 0) >>
                      [] way = "WFE"  -> Say(irq) \o << Set("IntTaken", 0) >>
                      [] way = "exit" -> << Set("IntTaken", 0), Set("SleepOnExitTest", 0),
                                            SLEEPONEXIT(FALSE) >>,
                    [sw EXCEPT !.test = @ + 1, !.said = irq])

\* It signals the program; the timer goes on for a second run only in the
\* sleep-on-exit tests.
TIMER0_Handler ==
  /\ program = "sleep"
  /\ \/ /\ At("handler", "entered")
        /\ GoTo("handler", "taken", CMSDK_timer_ClearIRQ \o << Inc("IntTaken") >>, sw)
     \/ /\ At("handler", "taken") /\ sw.SleepOnExitTest = 1
        /\ GoTo("handler", "leave",
                << puts >> \o Say(sw.IntTaken = 1)
                \o IF sw.IntTaken = 2 THEN << SLEEPONEXIT(FALSE) >> \o StopTimer0 ELSE <<>>,
                sw)
     \/ /\ At("handler", "taken") /\ sw.SleepOnExitTest # 1
        /\ GoTo("handler", "leave", StopTimer0, sw)

-------------------------------------------------------------------------------
Init ==
  /\ program \in TimerPrograms
  /\ pc = [main |-> "start", handler |-> "idle"]
  /\ todo = [main |-> << puts >>, handler |-> <<>>]
  /\ sw = IF program = "dualtimer" THEN DualSw ELSE SleepSw
  /\ \E present, pmu \in BOOLEAN : io = IoReset(present, pmu)
  /\ asleep = "awake" /\ event \in BOOLEAN /\ slack = PrintTicks
  /\ expired = FALSE /\ out = "running"

Cpu == \/ \E t \in {"main", "handler"} : Execute(t)
       \/ IRQ \/ Leave \/ IdCheck \/ Finish
       \/ NextPart \/ Show \/ Wait \/ dualtimer_integration_test \/ DUALTIMER_HANDLER
       \/ NextTest \/ PmuControl \/ Wfi \/ Wfe \/ SpinUntilTaken \/ Woken \/ TIMER0_Handler

Next == Cpu \/ Tick

-------------------------------------------------------------------------------
\* What a program says of its interrupts is so: it reports one only when the
\* timer it has just set up has run out, not for one left from the part before
\* or from a wake-up by an old event; it never reports an unexpected one; and
\* the integration test whose result main ignores has succeeded.
IrqsReported ==
  /\ out # "failed"
  /\ program = "dualtimer" /\ pc["main"] = "seen" => expired
  /\ program = "sleep" /\ pc["main"] = "next" /\ sw.said => expired
  /\ program = "dualtimer" /\ out = "passed" => sw.result = 0
===============================================================================
