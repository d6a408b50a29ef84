----------------------------- MODULE ResetDemos -----------------------------
(***************************************************************************)
(* The programs that live through a reset: watchdog_demo.c,                *)
(* self_reset_demo.c, and fault_recovery_test.c with the HardFault handler *)
(* of sensing_fault.h.  Each boots, reads the cause of the last reset from *)
(* the system controller and takes up its test where the reset left it;    *)
(* nothing but that register survives.  A behaviour runs one of them.      *)
(*                                                                         *)
(* The processor executes the NMI handler between two accesses of the      *)
(* program.  The CMSDK watchdog and the processor are external.  Time is   *)
(* counted in ticks, each a fixed number of the watchdog's clock cycles.   *)
(***************************************************************************)
EXTENDS Integers, Sequences

CONSTANTS Programs,     \* programs to run
          Long,         \* ticks in the 10000 cycles of the demo
          Threshold,    \* ticks in the 8000 cycles of its loop
          Short,        \* ticks in its 5000 cycles
          Rounds,       \* times the loop sets the watchdog again
          PrintTicks,   \* most ticks while a message is printed
          MaxResets     \* bound: resets from outside

DemoAssumption ==
  /\ Programs \subseteq {"watchdog", "self_reset", "fault_recovery"}
  /\ {Long, Threshold, Short, Rounds, PrintTicks} \subseteq Nat \ {0}
  /\ Threshold < Long /\ MaxResets \in Nat

VARIABLES
  program,     \* the image in the program memory
  parts,       \* what of it the program's ID checks find on this chip
  pc,          \* where the program and the NMI handler are
  todo,        \* accesses each still makes before it goes on from there
  sw,          \* the program's variables
  rstinfo,     \* RSTINFO of the system controller
  resetop,     \* its lockup reset option
  wdog,        \* the watchdog
  nmi,         \* the NMI is pending
  slack,       \* ticks that may pass before the processor's next step
  seen,        \* (history) causes of the resets since power-on
  resets,      \* resets from outside so far
  out          \* what the program has said: "running" until it ends
vars == << program, parts, pc, todo, sw, rstinfo, resetop, wdog, nmi, slack,
           seen, resets, out >>

-------------------------------------------------------------------------------
(* Accesses.                                                               *)

Write(reg, value) == << reg, value >>
puts == << "puts", 0 >>

\* CTRL values: the two bits the watchdog has.
NoAction == {}
Interrupt == {"INTEN"}
ResetToo == {"INTEN", "RESEN"}

watchdog_unlock == << Write("LOCK", TRUE) >>
watchdog_lock   == << Write("LOCK", FALSE) >>

\* (bug variants) a write to the locked watchdog, and a plain write of RSTINFO
watchdog_irq_clearLocked == << Write("INTCLR", 0) >>
ClearTestOutputLocked == << Write("ITOP", FALSE) >>
ClearCausePlain(cause) == << Write("RSTINFO", {}) >>

watchdog_init(cycle, ctrl) ==
  watchdog_unlock \o << Write("LOAD", cycle), Write("CTRL", ctrl) >> \o watchdog_lock
\* The cycle count goes into CTRL: 10000 has both bits clear.
watchdog_set == watchdog_unlock \o << Write("CTRL", NoAction) >> \o watchdog_lock
watchdog_irq_clear == watchdog_unlock \o << Write("INTCLR", 0) >> \o watchdog_lock
\* The NMI handler's end in the integration test leaves the watchdog open.
ClearTestOutput == watchdog_unlock \o << Write("ITOP", FALSE) >>
\* RSTINFO is cleared by writing ones.
ClearCause(cause) == << Write("RSTINFO", {cause}) >>

Guarded == {"LOAD", "CTRL", "INTCLR", "ITCR", "ITOP"}

\* The watchdog's answer to a write; LOCK guards every other register.
Written(w, reg, value) ==
  CASE reg = "LOCK" -> [w EXCEPT !.open = value]
    [] reg \in Guarded /\ ~w.open -> w
    [] reg = "LOAD" -> [w EXCEPT !.load = value, !.value = value]
    [] reg = "CTRL" -> [w EXCEPT !.ctrl = value,
                          !.value = IF w.ctrl = {} /\ value # {} THEN w.load ELSE @]
    [] reg = "INTCLR" -> [w EXCEPT !.raw = FALSE, !.value = w.load]
    [] reg = "ITCR" -> [w EXCEPT !.itcr = value]
    [] reg = "ITOP" -> [w EXCEPT !.itop = value]
    [] OTHER -> w

WDOGINT(w) == IF w.itcr THEN w.itop ELSE w.raw /\ "INTEN" \in w.ctrl

WdogReset == [load |-> Long, value |-> Long, ctrl |-> {}, raw |-> FALSE,
              open |-> FALSE, itcr |-> FALSE, itop |-> FALSE]
SwReset == [nmi_occurred |-> 0, nmi_expected |-> FALSE, reset_test |-> FALSE,
            integration_test |-> FALSE, i |-> 0, result |-> 0]

-------------------------------------------------------------------------------
(* The processor.                                                          *)

Running(t) == /\ out = "running" /\ program \in Programs
              /\ t = IF pc["handler"] # "idle" THEN "handler" ELSE "main"
              /\ t = "main" => ~nmi

\* The next access of thread t.
Execute(t) ==
  /\ Running(t) /\ todo[t] # <<>>
  /\ LET a == Head(todo[t])
         w == Written(wdog, a[1], a[2])
     IN  /\ wdog' = w
         /\ nmi' = (nmi \/ (WDOGINT(w) /\ ~WDOGINT(wdog)))
         /\ rstinfo' = IF a[1] = "RSTINFO" THEN rstinfo \ a[2] ELSE rstinfo
         /\ resetop' = IF a[1] = "RESETOP" THEN a[2] ELSE resetop
         /\ slack' = IF Len(todo[t]) > 1 /\ todo[t][2] = puts THEN PrintTicks ELSE 1
  /\ todo' = [todo EXCEPT ![t] = Tail(@)]
  /\ UNCHANGED << program, parts, pc, sw, seen, resets, out >>

\* Thread t is at one of its points, with its accesses done.
At(t, point) == Running(t) /\ pc[t] = point /\ todo[t] = <<>>

\* It goes on to another with accesses to make and its variables set.
GoTo(t, point, accesses, set) ==
  /\ pc' = [pc EXCEPT ![t] = point]
  /\ todo' = [todo EXCEPT ![t] = accesses]
  /\ sw' = set
  /\ slack' = IF accesses # <<>> /\ accesses[1] = puts THEN PrintTicks ELSE 1
  /\ UNCHANGED << program, parts, rstinfo, resetop, wdog, nmi, seen, resets, out >>

\* UartEndSimulation: the program has said its last word.
End(verdict) ==
  /\ out' = verdict
  /\ UNCHANGED << program, parts, pc, todo, sw, rstinfo, resetop, wdog, nmi, slack,
                  seen, resets >>

Wrong(condition) == IF condition THEN 1 ELSE 0

\* A reset of the processor and the peripherals, and the causes it leaves.
Restart(causes) ==
  /\ pc' = [main |-> "boot", handler |-> "idle"]
  /\ todo' = [main |-> << puts >>, handler |-> <<>>]
  /\ sw' = SwReset /\ resetop' = FALSE /\ wdog' = WdogReset /\ nmi' = FALSE
  /\ slack' = PrintTicks
  /\ rstinfo' = rstinfo \cup causes
  /\ seen' = seen \cup causes
  /\ UNCHANGED << program, parts, out >>

\* What a program's ID checks look for; a chip has it or not.
Needs == [watchdog |-> {"SysCtrl", "Watchdog", "expected_id"},
          self_reset |-> {"SysCtrl"}, fault_recovery |-> {}]
Skip(part) == part \notin parts /\ End("skipped")

-------------------------------------------------------------------------------
(* watchdog_demo.c                                                         *)

\* main: the cause of the reset says which part is next.  A program that finds
\* a peripheral missing ends there; part 1 first reads the whole watchdog ID.
WatchdogMain ==
  /\ program = "watchdog" /\ At("main", "boot")
  /\ \/ Skip("SysCtrl")
     \/ /\ "SysCtrl" \in parts
        /\ \/ "WDOGRESETREQ" \in rstinfo
              /\ GoTo("main", "part 2", << puts >>, sw)
           \/ "WDOGRESETREQ" \notin rstinfo /\ "SYSRESETREQ" \in rstinfo
              /\ End("failed")
           \/ /\ rstinfo \cap {"WDOGRESETREQ", "SYSRESETREQ"} = {}
              /\ \/ Skip("Watchdog")
                 \/ /\ "Watchdog" \in parts
                    /\ GoTo("main", "part 1", << puts >>, sw)

main_prog_part_1_ids ==
  /\ At("main", "part 1")
  /\ IF "expected_id" \notin parts THEN End("failed")
     ELSE GoTo("main", "loop", << puts >> \o watchdog_init(Long, Interrupt), SwReset)

\* The loop that sets the watchdog each time it falls below the threshold.
main_prog_part_1_loop ==
  /\ At("main", "loop")
  /\ \/ sw.i < Rounds /\ wdog.value < Threshold
        /\ GoTo("main", "loop", watchdog_set \o << puts >>, [sw EXCEPT !.i = @ + 1])
     \/ sw.i < Rounds /\ wdog.value >= Threshold
        /\ GoTo("main", "loop", <<>>, sw)
     \/ sw.i = Rounds
        /\ GoTo("main", "loop done", watchdog_init(Short, NoAction), sw)

main_prog_part_1 ==
  \/ /\ At("main", "loop done")
     /\ IF sw.nmi_occurred # 0 THEN End("failed")
        ELSE GoTo("main", "wait", << puts >> \o watchdog_init(Short, Interrupt),
                  [sw EXCEPT !.nmi_occurred = 0, !.nmi_expected = TRUE])
  \/ /\ At("main", "wait")
     /\ IF sw.nmi_occurred = 0 THEN GoTo("main", "wait", <<>>, sw)
        ELSE GoTo("main", "stopped", watchdog_init(Short, NoAction) \o << puts >>, sw)
  \/ /\ At("main", "stopped")
     /\ GoTo("main", "spin", watchdog_init(Short, ResetToo),
             [sw EXCEPT !.nmi_occurred = 0, !.nmi_expected = TRUE, !.reset_test = TRUE])
  \/ At("main", "spin") /\ GoTo("main", "spin", <<>>, sw)

\* After the watchdog's reset: the cause, then the NMI by the test registers.
main_prog_part_2 ==
  \/ /\ At("main", "part 2")
     /\ GoTo("main", "cleared", ClearCause("WDOGRESETREQ"),
             [sw EXCEPT !.result = Wrong(rstinfo # {"WDOGRESETREQ"})])
  \/ /\ At("main", "cleared")
     /\ GoTo("main", "itcr",
             watchdog_unlock \o << Write("ITOP", FALSE), Write("ITCR", TRUE) >>,
             [sw EXCEPT !.result = @ + Wrong(rstinfo # {}), !.reset_test = FALSE,
                        !.integration_test = TRUE,
                        !.nmi_expected = FALSE, !.nmi_occurred = 0])
  \/ /\ At("main", "itcr")
     /\ IF ~wdog.itcr
        THEN GoTo("main", "verdict", <<>>, [sw EXCEPT !.result = @ + 1])
        ELSE GoTo("main", "nmi sent", << Write("ITOP", TRUE), Write("ITOP", FALSE) >>,
                  [sw EXCEPT !.nmi_expected = TRUE])
  \/ /\ At("main", "nmi sent")
     /\ GoTo("main", "itcr off", << Write("ITCR", FALSE) >>,
             [sw EXCEPT !.result = @ + Wrong(sw.nmi_occurred = 0)])
  \/ /\ At("main", "itcr off")
     /\ GoTo("main", "verdict", <<>>, [sw EXCEPT !.result = @ + Wrong(wdog.itcr)])
  \/ /\ At("main", "verdict")
     /\ End(IF sw.result = 0 THEN "passed" ELSE "failed")

\* The processor takes the NMI before the program's next access.
NMI ==
  /\ out = "running" /\ program \in Programs /\ nmi /\ pc["handler"] = "idle"
  /\ pc' = [pc EXCEPT !["handler"] = "entered"]
  /\ todo' = [todo EXCEPT !["handler"] = << puts >>]
  /\ nmi' = FALSE
  /\ slack' = PrintTicks
  /\ UNCHANGED << program, parts, sw, rstinfo, resetop, wdog, seen, resets, out >>

\* In the reset test it stays; else it clears the interrupt and counts it.
\* The line is a level: an interrupt that is still there comes again.
NMI_Handler ==
  \/ /\ At("handler", "entered")
     /\ IF sw.reset_test THEN GoTo("handler", "entered", <<>>, sw)
        ELSE GoTo("handler", "clear", watchdog_irq_clear, sw)
  \/ /\ At("handler", "clear")
     /\ IF ~sw.nmi_expected THEN End("failed")
        ELSE GoTo("handler", "leave",
                  IF sw.integration_test THEN ClearTestOutput ELSE <<>>,
                  [sw EXCEPT !.nmi_occurred = 1])
  \/ /\ At("handler", "leave")
     /\ pc' = [pc EXCEPT !["handler"] = "idle"]
     /\ nmi' = WDOGINT(wdog)
     /\ slack' = 1
     /\ UNCHANGED << program, parts, todo, sw, rstinfo, resetop, wdog, seen,
                     resets, out >>

\* One tick of the watchdog: at zero it interrupts, and with the interrupt
\* still there it resets.
Tick ==
  /\ out = "running" /\ program \in Programs /\ slack > 0 /\ wdog.ctrl # {}
  /\ \/ /\ wdog.value > 0
        /\ wdog' = [wdog EXCEPT !.value = @ - 1]
        /\ slack' = slack - 1
        /\ UNCHANGED << program, parts, pc, todo, sw, rstinfo, resetop, nmi, seen,
                        resets, out >>
     \/ /\ wdog.value = 0 /\ ~(wdog.raw /\ "RESEN" \in wdog.ctrl)
        /\ wdog' = [wdog EXCEPT !.value = wdog.load, !.raw = TRUE]
        /\ nmi' = (nmi \/ (~WDOGINT(wdog) /\ WDOGINT(wdog')))
        /\ slack' = slack - 1
        /\ UNCHANGED << program, parts, pc, todo, sw, rstinfo, resetop, seen,
                        resets, out >>
     \/ /\ wdog.value = 0 /\ wdog.raw /\ "RESEN" \in wdog.ctrl
        /\ Restart({"WDOGRESETREQ"})
        /\ UNCHANGED resets

-------------------------------------------------------------------------------
(* self_reset_demo.c                                                       *)

SelfResetMain ==
  /\ program = "self_reset" /\ At("main", "boot")
  /\ \/ Skip("SysCtrl")
     \/ /\ "SysCtrl" \in parts
        /\ \/ "SYSRESETREQ" \in rstinfo
              /\ GoTo("main", "reset part 2", << puts >>, sw)
           \/ "SYSRESETREQ" \notin rstinfo /\ "LOCKUPRESET" \in rstinfo
              /\ GoTo("main", "reset part 3", << puts >>, sw)
           \/ rstinfo = {"WDOGRESETREQ"}
              /\ End("failed")
           \/ rstinfo = {}
              /\ GoTo("main", "reset part 1", << puts >>, sw)

\* NVIC_SystemReset
SelfReset_part_1 ==
  /\ At("main", "reset part 1")
  /\ Restart({"SYSRESETREQ"}) /\ UNCHANGED resets

\* A wrong cause is printed and forgotten; then the read of a bad address.
SelfReset_part_2 ==
  \/ /\ At("main", "reset part 2")
     /\ GoTo("main", "reset cleared", ClearCause("SYSRESETREQ")
                                     \o << puts, Write("RESETOP", TRUE) >>, sw)
  \/ /\ At("main", "reset cleared")
     /\ IF ~resetop \/ rstinfo # {} THEN End("failed")
        ELSE GoTo("main", "HardFault", << puts >>, sw)

\* The second fault locks the processor up; the option turns that into a reset.
SelfReset_HardFault_Handler ==
  /\ At("main", "HardFault") /\ program = "self_reset" /\ resetop
  /\ Restart({"LOCKUPRESET"}) /\ UNCHANGED resets

SelfReset_part_3 ==
  \/ /\ At("main", "reset part 3")
     /\ GoTo("main", "lockup cleared", ClearCause("LOCKUPRESET"),
             [sw EXCEPT !.result = Wrong(rstinfo # {"LOCKUPRESET"})])
  \/ /\ At("main", "lockup cleared")
     /\ End(IF sw.result + Wrong(rstinfo # {}) = 0 THEN "passed" ELSE "failed")

-------------------------------------------------------------------------------
(* fault_recovery_test.c and sensing_fault.h                               *)

FaultRecoveryMain ==
  /\ program = "fault_recovery"
  /\ \/ /\ At("main", "boot")
        /\ IF "SYSRESETREQ" \in rstinfo
           THEN GoTo("main", "recovered", << puts >> \o ClearCause("SYSRESETREQ"), sw)
           ELSE GoTo("main", "HardFault", << puts >>, sw)
     \/ At("main", "recovered") /\ End("passed")

\* The production handler asks for a reset and never returns.
HardFault_Handler ==
  /\ At("main", "HardFault") /\ program = "fault_recovery"
  /\ Restart({"SYSRESETREQ"}) /\ UNCHANGED resets

-------------------------------------------------------------------------------
(* Resets from outside: the debug port's leaves no cause, power-on none at all *)

DebugReset ==
  /\ out = "running" /\ program \in Programs /\ resets < MaxResets
  /\ Restart({}) /\ resets' = resets + 1

PowerOn ==
  /\ out = "running" /\ program \in Programs /\ resets < MaxResets
  /\ pc' = [main |-> "boot", handler |-> "idle"]
  /\ todo' = [main |-> << puts >>, handler |-> <<>>]
  /\ sw' = SwReset /\ resetop' = FALSE /\ wdog' = WdogReset /\ nmi' = FALSE
  /\ slack' = PrintTicks
  /\ rstinfo' = {} /\ seen' = {}
  /\ resets' = resets + 1
  /\ UNCHANGED << program, parts, out >>

-------------------------------------------------------------------------------
Init ==
  /\ program \in Programs /\ parts \in SUBSET Needs[program]
  /\ "expected_id" \in parts => "Watchdog" \in parts   \* the whole ID includes it
  /\ pc = [main |-> "boot", handler |-> "idle"]
  /\ todo = [main |-> << puts >>, handler |-> <<>>]
  /\ sw = SwReset /\ rstinfo = {} /\ resetop = FALSE /\ wdog = WdogReset
  /\ nmi = FALSE /\ slack = PrintTicks /\ seen = {} /\ resets = 0 /\ out = "running"

Cpu == \/ \E t \in {"main", "handler"} : Execute(t)
       \/ WatchdogMain \/ main_prog_part_1_ids \/ main_prog_part_1_loop
       \/ main_prog_part_1 \/ main_prog_part_2
       \/ NMI \/ NMI_Handler
       \/ SelfResetMain \/ SelfReset_part_1 \/ SelfReset_part_2
       \/ SelfReset_HardFault_Handler \/ SelfReset_part_3
       \/ FaultRecoveryMain \/ HardFault_Handler

Next == Cpu \/ Tick \/ PowerOn \/ DebugReset

-------------------------------------------------------------------------------
\* What a program says of the resets is so: where its peripherals are present
\* it never reports an error, and says "TEST PASSED" when the resets it tests
\* have happened since power-on and their causes are cleared, wherever a reset
\* from outside cut it short.  On another chip it never says "TEST PASSED".
Tested == [watchdog |-> {"WDOGRESETREQ"}, self_reset |-> {"SYSRESETREQ", "LOCKUPRESET"},
           fault_recovery |-> {"SYSRESETREQ"}]
CausesReported ==
  out # "running" =>
    IF parts = Needs[program]
    THEN out = "passed" /\ Tested[program] \subseteq seen /\ rstinfo = {}
    ELSE out # "passed"
===============================================================================
