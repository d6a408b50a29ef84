----------------------------- MODULE MCBareMetal -----------------------------
(* The programs that run on the processor without an operating system: the    *)
(* CMSDK driver under a program and a handler that call it, the demos, which   *)
(* use the peripherals through accesses of their own, and the AES-128 test.    *)
(* A behaviour runs one of them.                                               *)
EXTENDS CmsdkDriver

CONSTANTS Programs, Long, Threshold, Short, Rounds, PrintTicks, MaxResets,
          Reads, MessageTicks, Block, Word, MaxXfers, BufSize, MaxLen, Lengths,
          MaxCalls
VARIABLES program, parts, pc, accesses, sw, rstinfo, resetop, wdog, nmi, slack,
          seen, resets, out, io, asleep, event, expired,
          apc, call, calls, fail, fault, mem, aes, dma, pend, count, runs

D == INSTANCE Demos WITH todo <- accesses
A == INSTANCE AesDma WITH pc <- apc
ASSUME D!DemoAssumption /\ A!SizesAssumption

demoVars == <<program, parts, pc, accesses, sw, rstinfo, resetop, wdog, nmi, slack,
              seen, resets, out, io, asleep, event, expired>>
aesVars == <<apc, call, calls, fail, fault, mem, aes, dma, pend, count>>
bareVars == <<vars, demoVars, aesVars, runs>>

\* What does not run stays as it is after a reset.
BareInit ==
    /\ Init /\ D!DemoInit /\ A!Init /\ runs \in {"driver", "demo", "aes"}
    /\ runs # "driver" => dev = "timer"
    /\ runs # "demo" => program = "self_reset" /\ parts = {}

DriverRuns == runs = "driver" /\ Next /\ UNCHANGED <<demoVars, aesVars, runs>>
DemoRuns == runs = "demo" /\ D!DemoNext /\ UNCHANGED <<vars, aesVars, runs>>
AesRuns == runs = "aes" /\ A!Next /\ UNCHANGED <<vars, demoVars, runs>>

\* A demo's processor runs, and so do the clocks of the timers and the watchdog;
\* the AES test's processor, its handlers, the engine and each DMA channel run.
OfDemo(act) == runs = "demo" /\ act
OfAes(act) == runs = "aes" /\ act
BareSpec == /\ BareInit /\ [][DriverRuns \/ DemoRuns \/ AesRuns]_bareVars
            /\ WF_demoVars(OfDemo(D!DemoCpu)) /\ WF_demoVars(OfDemo(D!DemoTick))
            /\ WF_aesVars(OfAes(A!Cpu)) /\ WF_aesVars(OfAes(A!Handlers))
            /\ WF_aesVars(OfAes(A!ExpandKey)) /\ WF_aesVars(OfAes(A!Process))
            /\ \A c \in A!Channels : WF_aesVars(OfAes(A!DmaBurst(c)))

\* What a demo says is so, of the resets it has seen and of the interrupts it has
\* taken.
ReportIsTrue == D!ReportIsTrue

\* The NMI handler never locks the watchdog between a demo's unlock and its write.
WritesUnlocked == D!WritesUnlocked

\* A demo comes to its end.
DemoEnds == runs = "demo" => D!DemoEnds

\* main of the AES test counts no failure, whatever calls it makes.
TestPasses == A!TestPasses

\* During an AES driver call the result buffer is processed up to some unit and
\* untouched beyond it.
ResultIsPrefix == A!ResultIsPrefix

\* Every AES driver call returns, unless the output DMA of a chunk is over before
\* the driver's first poll of it.
DriverReturns == runs = "aes" => A!DriverReturns
=============================================================================
