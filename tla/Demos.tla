-------------------------------- MODULE Demos --------------------------------
(* The test programs that live through resets and timer interrupts; a       *)
(* behaviour runs one of either kind.                                        *)
EXTENDS ResetDemos

CONSTANTS Reads, MessageTicks
VARIABLES io, asleep, event, expired

\* The sleep demo's timer runs 240 cycles, four ticks of 60; the dual timer demo's
\* parts run a few thousand.  A message takes up to MessageTicks ticks.
CyclesPerTick == [dualtimer |-> 1000, sleep |-> 60]

T == INSTANCE TimerDemos WITH PrintTicks <- MessageTicks

timerVars == << io, asleep, event, expired >>
resetVars == << parts, rstinfo, resetop, wdog, nmi, seen, resets >>

DemoInit ==
  \/ /\ Init
     /\ io = T!IoReset(TRUE, FALSE) /\ asleep = "awake" /\ event = FALSE /\ expired = FALSE
  \/ /\ T!Init
     /\ parts = {} /\ rstinfo = {} /\ resetop = FALSE /\ wdog = WdogReset /\ nmi = FALSE
     /\ seen = {} /\ resets = 0

DemoCpu  == (Cpu /\ UNCHANGED timerVars) \/ (T!Cpu /\ UNCHANGED resetVars)
DemoTick == (Tick /\ UNCHANGED timerVars) \/ (T!Tick /\ UNCHANGED resetVars)
DemoNext == DemoCpu \/ DemoTick \/ ((PowerOn \/ DebugReset) /\ UNCHANGED timerVars)

\* What a program says is so, of the resets it has seen and of the interrupts
\* it has taken.
ReportIsTrue == IF program \in Programs THEN CausesReported ELSE T!IrqsReported

\* "unlock watchdog" before, "lock watchdog" after: the NMI handler locks the
\* watchdog too, and never between the program's unlock and its write, which
\* the watchdog would then drop.
WritesUnlocked ==
  [][\A t \in {"main", "handler"} :
       program \in Programs /\ Execute(t) /\ Head(todo[t])[1] \in Guarded => wdog.open]_vars

\* The program comes to its end: the watchdog is on whenever it waits for it,
\* the interrupt of the integration test goes away, and the timer's interrupt
\* comes after the program has begun to wait or to sleep, not before.
DemoEnds == <>(out # "running")
===============================================================================
