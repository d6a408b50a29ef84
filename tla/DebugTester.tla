----------------------------- MODULE DebugTester -----------------------------
(***************************************************************************)
(* The debug tester and the processor that uses it.  The test program on   *)
(* the target (mcu_debugtester_interface.c, debug_tests.c) selects a       *)
(* function over GPIO lines and waits; the tester (debugtester.c) runs it  *)
(* through the debug port of that same target and raises ERROR when it     *)
(* failed.  Two functions act on the core itself: one wakes it from sleep, *)
(* one frees it from lockup, while its program is in the middle of a call. *)
(***************************************************************************)
EXTENDS DapPort

CONSTANTS Reselect,  \* TRUE: the interface may be selected more than once
          Spare      \* library calls put in the spare entries of Func

LibraryCalls == {"ReadMemH", "ReadMemB", "ReadMemSpecial", "WriteMemBlock", "APReadCSW",
                 "DPReadIDR", "APReadIDR", "APReadBASE", "DPReadHALTEV"}
ASSUME TableAssumption == Reselect \in BOOLEAN /\ Spare \subseteq LibraryCalls

Func == {"SetInterfaceJTAG", "SetInterfaceSW", "DAPPowerUp", "DAPPowerDown",
         "GetTAPID", "GetDPReg", "GetAPReg", "GetAPMem", "SetAPMem",
         "GetAPMemCSIDs", "ConnectWakeUnhalt", "ConnectCheckUnlockup",
         "EnableHaltingDebug", "DAPAccess", "ConfigTrace", "CheckTrace",
         "EmptyFunction"} \cup Spare

VARIABLES dbg,     \* the tester's and the target's debug state (DapPort)
          tester,  \* where the tester is in its main loop
          io,      \* the GPIO lines: running, error, strobe, funcsel
          mcu,     \* the test program: where it is, its call and the verdict
          trace_errors  \* the trace parser's error count, 0 or more

vars == <<dbg, tester, io, mcu, trace_errors>>

-----------------------------------------------------------------------------
(* The target's memory: the vector table, the communication region, the    *)
(* identification words of a component.                                    *)

StackTop == 4
NonFault == 71          \* a NOP and a return
FaultLoad == 241        \* an instruction that does not exist
ComponentBase == 16
Unmapped == 92

InitMem ==
    [w \in Words |-> IF w = 0 THEN SwapEndian(StackTop)
                     ELSE IF w \in 8 .. 19 THEN 80 + w + (w \div 4) ELSE 0]

\* The communication region as the processor sees it (DEBUGTESTERDATA).
Data(i) == SwapEndian(dbg.mem[(StackTop \div 4) + i])
WithData(mem, i, v) == [mem EXCEPT ![(StackTop \div 4) + i] = SwapEndian(v)]

-----------------------------------------------------------------------------
(* The functions of the table that run while the core waits.               *)

Return(x, verdict) == [x EXCEPT !.rd = verdict]
\* Most functions need the port powered.
WhenOn(x, y) == IF x.st.on THEN y ELSE Return(x, TEST_FAIL)

\* Five clocks with TMS high put the TAP in Test-Logic-Reset, which selects
\* the IDCODE instruction.
SetInterfaceJTAG(x) ==
    IF x.st.on THEN Return(x, TEST_FAIL)
    ELSE Return([JTAGScanIR(x, "IDCODE") EXCEPT !.st.jtagnsw = TRUE], TEST_PASS)

SWConnect(x) == CheckDAPSTATUS(Access(x, DP, READ, DPIDR, 0))
SetInterfaceSW(x) ==
    IF x.st.on THEN Return(x, TEST_FAIL) ELSE SWConnect([x EXCEPT !.st.jtagnsw = FALSE])

WaitPower(x, up) == WaitFor(x, Bit(x.rd, POWERUP) = up)
On(x) == IF x.hung THEN x ELSE CheckDAPSTATUS([x EXCEPT !.st.on = TRUE])
\* Bug variant: the picture of the port survives the loss of power.
OffKeepsPicture(x) == IF x.hung THEN x ELSE CheckDAPSTATUS([x EXCEPT !.st.on = FALSE])
Off(x) == IF x.hung THEN x
          ELSE CheckDAPSTATUS([x EXCEPT !.st = [InitDAPSTATUS EXCEPT
                   !.jtagnsw = x.st.jtagnsw, !.error = x.st.error]])
DAPPowerUp(x) ==
    IF x.st.on THEN Return(x, TEST_FAIL)
    ELSE On(WaitPower(DPReadCTRLSTAT(DPWriteCTRLSTAT(x, POWERUP)), TRUE))
DAPPowerDown(x) ==
    WhenOn(x, Off(WaitPower(DPReadCTRLSTAT(DPWriteCTRLSTAT(x, 0)), FALSE)))

\* The argument is the word at index 0 of the region, the answer replaces it.
Argument(x) == ReadCommRegion(InitCommRegion(x), 0)
\* Bug variant: the fault of the posted write is not looked for.
AnswerUnchecked(x) == Return(WriteCommRegion(x, 0, x.rd), TEST_PASS)
Answer(x) == CheckDAPSTATUS(WriteCommRegion(x, 0, x.rd))

GetTAPID(x) == IF x.st.jtagnsw THEN Answer(JTAGScanIDCODE(InitCommRegion(x)))
               ELSE Return(InitCommRegion(x), TEST_FAIL)
GetDPReg(x) == WhenOn(x, Answer(LET D(y) == DpReadNow(y, y.rd) IN D(Argument(x))))
GetAPReg(x) ==
    WhenOn(x, Answer(LET D(y) == ApReadNow(DPWriteBANKSEL(y, y.rd \div 16), y.rd)
                     IN  D(Argument(x))))
GetAPMem(x) == WhenOn(x, Answer(LET D(y) == ReadMem(y, y.rd) IN D(Argument(x))))

\* The test addr&0x3 == 0 reads addr & (0x3 == 0) and is never true.
SetAPMem(x) == WhenOn(x, Return(ReadCommRegion(Argument(x), 1), TEST_FAIL))

\* The words PID4..PID7, PID0..PID3, CID0..CID3, packed by their low bytes.
LowBytes(words, from) == Pack([i \in 0 .. 3 |-> ByteOf(words[from + i], 0)])
GetAPMemCSIDs(x) ==
    WhenOn(x, LET Block(y) == ReadMemBlock(y, y.rd + PID4_OFFSET, 12)
                  Packed(y) == WriteCommRegion(WriteCommRegion(WriteCommRegion(y,
                                   0, LowBytes(y.block, 9)), 1, LowBytes(y.block, 5)),
                                   2, LowBytes(y.block, 1))
              IN  CheckDAPSTATUS([Packed(Block(Argument(x))) EXCEPT !.block = <<>>]))

EnableHaltingDebug(x) == WhenOn(x, CheckDAPSTATUS(WriteMem(x, DHCSR_ADDR, C_DEBUGEN)))

\* A word, a halfword in its upper half and a byte at offset 1, each read back.
DAPAccess(x) ==
    WhenOn(x, LET Zero(y) == WriteMem(y, y.mcu.stacktop, 0)
                  Half(y) == WriteMemH(y, y.mcu.stacktop + 2, 14)
                  Byte(y) == WriteMemB(y, y.mcu.stacktop + 1, 1)
                  Expect(y, word, bit) == [y EXCEPT !.acc = @ + IF y.rd = word THEN bit ELSE 0]
                  Top(y) == ReadMem(y, y.mcu.stacktop)
                  Start(y) == [InitCommRegion(y) EXCEPT !.acc = 0]
                  Tally(y) == [WriteCommRegion(y, 0, y.acc) EXCEPT !.acc = 0]
              IN  CheckDAPSTATUS(Tally(
                      Expect(Top(Byte(
                      Expect(Top(Half(
                      Expect(Top(Zero(Start(x))), 0, 1))), 14 * 16, 2))), (14 * 16) + 4, 4))))

ConfigTrace(x) ==
    WhenOn(x, CheckDAPSTATUS([ReadCommRegion(InitCommRegion(x), 0)
                                 EXCEPT !.mcu.traceconfigured = TRUE]))

\* `captured` tells what the trace buffer holds; the parser itself is module
\* TraceParser.  Its error count is never reset, and is the verdict.
CheckTrace(x, captured, errors) ==
    WhenOn(x, IF ~x.mcu.traceconfigured THEN Return(x, TEST_FAIL)
              ELSE LET y == [InitCommRegion(x) EXCEPT !.mcu.traceconfigured = FALSE]
                       Zero(z, n) == WriteCommRegion(z, n, 0)
                   IN  IF captured # "frames" THEN Return(y, TEST_FAIL)
                       ELSE Return(Zero(Zero(Zero(Zero(y, 0), 1), 2), 3), errors))

\* A spare entry that makes one library call and answers with its result.
LibraryCall(f, y) ==
    CASE f = "ReadMemH" -> ReadMemH(y, StackTop)
      [] f = "ReadMemB" -> ReadMemB(y, StackTop)
      [] f = "ReadMemSpecial" -> ReadMemSpecial(y, WORD, Unmapped)
      [] f = "WriteMemBlock" -> WriteMemBlock(y, 2 * StackTop, [i \in 1 .. 3 |-> 100 + i])
      [] f = "APReadCSW" -> APReadCSW(y)
      [] f = "DPReadIDR" -> DPReadIDR(y)
      [] f = "APReadIDR" -> APReadIDR(y)
      [] f = "APReadBASE" -> APReadBASE(y)
      [] f = "DPReadHALTEV" -> DPReadHALTEV(y)

Run(f, x) ==
    CASE f = "SetInterfaceJTAG" -> SetInterfaceJTAG(x)
      [] f = "SetInterfaceSW" -> SetInterfaceSW(x)
      [] f = "DAPPowerUp" -> DAPPowerUp(x)
      [] f = "DAPPowerDown" -> DAPPowerDown(x)
      [] f = "GetTAPID" -> GetTAPID(x)
      [] f = "GetDPReg" -> GetDPReg(x)
      [] f = "GetAPReg" -> GetAPReg(x)
      [] f = "GetAPMem" -> GetAPMem(x)
      [] f = "SetAPMem" -> SetAPMem(x)
      [] f = "GetAPMemCSIDs" -> GetAPMemCSIDs(x)
      [] f = "EnableHaltingDebug" -> EnableHaltingDebug(x)
      [] f = "DAPAccess" -> DAPAccess(x)
      [] f = "ConfigTrace" -> ConfigTrace(x)
      [] f = "EmptyFunction" -> Return(x, TEST_FAIL)
      [] OTHER -> WhenOn(x, Answer(LibraryCall(f, InitCommRegion(x))))

-----------------------------------------------------------------------------
(* The parts of the two functions that act on the core: what each does     *)
(* between two points where the core's own progress matters.               *)

SampleCore(x) == ReadMem(InitCommRegion(x), DHCSR_ADDR)
WaitHalted(x) == WaitFor(x, Bit(x.rd, S_HALT))
\* TEST_PASS here stands for going on.
Found(x, flag) == Return(x, IF Bit(x.rd, flag) THEN TEST_PASS ELSE TEST_FAIL)
HaltCore(x) ==
    WaitHalted(ReadMem(WriteMem(x, DHCSR_ADDR, C_HALT + C_DEBUGEN), DHCSR_ADDR))
\* Bug variant: the flag in the wrong word.
WriteFlagElsewhere(x) == WriteCommRegion(x, 1, 1)
WriteFlag(x) == WriteCommRegion(x, 0, 1)
\* The faulting instruction is replaced, then the return address is made to
\* point at the replacement.
CopyTo3(x) == WriteCommRegion(x, 3, x.rd)
ReplaceFault(x) == CopyTo3(ReadCommRegion(x, 2))
\* DCRDR gets the register through DCRSR, and writes it back the same way; the
\* tester waits for the core after each.
WaitRegister(x) == WaitFor(x, Bit(x.rd, S_REGRDY))
AskCore(x, request) == WaitRegister(ReadMem(WriteMem(x, DCRSR_ADDR, request), DHCSR_ADDR))
SetReturnAddress(x) ==
    LET Target(y) == WriteMem(y, DCRDR_ADDR, y.mcu.stacktop + 12)
        Write(y) == IF y.hung THEN y ELSE AskCore(Target(ReadMem(y, DCRDR_ADDR)), REGWnR)
    IN  Write(AskCore(x, 0))
Unhalt(x) == CheckDAPSTATUS(WriteMem(x, DHCSR_ADDR, 0))

\* Where each part leads.
CoreParts ==
    [halt |-> [ConnectWakeUnhalt |-> "flag", ConnectCheckUnlockup |-> "replace"],
     flag |-> [ConnectWakeUnhalt |-> "unhalt"],
     replace |-> [ConnectCheckUnlockup |-> "return"],
     return |-> [ConnectCheckUnlockup |-> "unhalt"],
     unhalt |-> [ConnectWakeUnhalt |-> "result", ConnectCheckUnlockup |-> "result"]]
CorePart(part, x) == CASE part = "halt" -> HaltCore(x)
                       [] part = "flag" -> WriteFlag(x)
                       [] part = "replace" -> ReplaceFault(x)
                       [] part = "return" -> SetReturnAddress(x)
                       [] part = "unhalt" -> Unhalt(x)
TesterPoints == {"poll", "select", "wait strobe", "run", "result", "finished", "hung"}
                    \cup DOMAIN CoreParts
Wanted(f) == IF f = "ConnectWakeUnhalt" THEN S_SLEEP ELSE S_LOCKUP
ActsOnCore(f) == f \in {"ConnectWakeUnhalt", "ConnectCheckUnlockup"}

-----------------------------------------------------------------------------
Init ==
    /\ \E jtag \in BOOLEAN :
           dbg = [st |-> InitDAPSTATUS,
                  mcu |-> [stacktop |-> 0, traceconfigured |-> FALSE],
                  port |-> [jtag |-> jtag, ir |-> "IDCODE", bank |-> 0, tar |-> 0,
                            csw |-> [size |-> 0, incr |-> FALSE],
                            req |-> FALSE, sticky |-> FALSE, buf |-> 0],
                  mem |-> InitMem,
                  core |-> [mode |-> "running", halted |-> FALSE, debugen |-> FALSE,
                            ret |-> 0, dcrdr |-> 0],
                  rd |-> 0, acc |-> 0, block |-> <<>>, hung |-> FALSE]
    /\ tester = "poll"
    /\ io = [running |-> FALSE, error |-> FALSE, strobe |-> FALSE,
             funcsel |-> "SetInterfaceJTAG"]
    /\ mcu = [pc |-> "idle", fn |-> "none", arg |-> 0, verdict |-> TEST_PASS,
              selected |-> FALSE]
    /\ trace_errors = 0

CoreRuns == dbg.core.mode = "running" /\ ~dbg.core.halted

-----------------------------------------------------------------------------
(* The test program on the target.                                         *)

\* A call writes its argument and selects the function with the strobe in one
\* masked GPIO write.  The program selects the interface of its own port
\* before anything else ("DAP must be power down when setting the interface").
Args(f) == CASE f = "GetDPReg" -> {DPIDR, CTRLSTAT}
             [] f = "GetAPReg" -> {BASE, IDR, TAR}
             [] f = "GetAPMem" -> {StackTop, 2 * ComponentBase, Unmapped}
             [] f = "GetAPMemCSIDs" -> {ComponentBase}
             [] f = "SetAPMem" -> {2 * StackTop}
             [] OTHER -> {0}
Permitted(f) ==
    CASE f = "SetInterfaceJTAG" -> dbg.port.jtag /\ (Reselect \/ ~mcu.selected)
      [] f = "SetInterfaceSW" -> ~dbg.port.jtag /\ (Reselect \/ ~mcu.selected)
      [] OTHER -> mcu.selected

StartDebugTester(f, arg) ==
    /\ mcu.pc = "idle" /\ CoreRuns /\ Permitted(f)
    /\ LET given == WithData(dbg.mem, 0, arg)
       IN  dbg' = [dbg EXCEPT !.mem =
                      IF f = "ConnectCheckUnlockup"
                      THEN WithData(WithData(given, 2, NonFault), 3, FaultLoad) ELSE given]
    /\ io' = [io EXCEPT !.strobe = TRUE, !.funcsel = f]
    /\ mcu' = [mcu EXCEPT !.pc = "started", !.fn = f, !.arg = arg,
                          !.selected = @ \/ f \in {"SetInterfaceJTAG", "SetInterfaceSW"}]
    /\ UNCHANGED <<tester, trace_errors>>

\* Running seen: the strobe is cleared.
ClearStrobe ==
    /\ mcu.pc = "started" /\ io.running
    /\ io' = [io EXCEPT !.strobe = FALSE]
    /\ mcu' = [mcu EXCEPT !.pc = IF mcu.fn = "ConnectWakeUnhalt" THEN "wait flag"
                                 ELSE IF mcu.fn = "ConnectCheckUnlockup" THEN "fault"
                                 ELSE "check"]
    /\ UNCHANGED <<dbg, tester, trace_errors>>

\* while (DEBUGTESTERDATA[0] == 0) __WFI();
WaitFlag ==
    /\ mcu.pc = "wait flag" /\ CoreRuns
    /\ IF Data(0) = 0
       THEN dbg' = [dbg EXCEPT !.core.mode = "sleeping"] /\ UNCHANGED mcu
       ELSE mcu' = [mcu EXCEPT !.pc = "check"] /\ UNCHANGED dbg
    /\ UNCHANGED <<tester, io, trace_errors>>

\* The faulting function takes the core to HardFault and, in its handler, to
\* lockup; its replacement returns.
Fault ==
    /\ mcu.pc = "fault" /\ CoreRuns
    /\ IF Data(3) = FaultLoad
       THEN dbg' = [dbg EXCEPT !.core.mode = "lockup"] /\ UNCHANGED mcu
       ELSE /\ dbg.core.ret = StackTop + 12
            /\ mcu' = [mcu EXCEPT !.pc = "check"] /\ UNCHANGED dbg
    /\ UNCHANGED <<tester, io, trace_errors>>

CheckDebugTester ==
    /\ mcu.pc = "check" /\ CoreRuns /\ ~io.running
    /\ mcu' = [mcu EXCEPT !.pc = "verdict"]
    /\ UNCHANGED <<dbg, tester, io, trace_errors>>
\* The program has used the answer; the region is cleared for the next call.
ReadError ==
    /\ mcu.pc = "verdict" /\ CoreRuns
    /\ dbg' = [dbg EXCEPT !.mem = InitMem]
    /\ mcu' = [mcu EXCEPT !.pc = "idle", !.arg = 0,
                          !.verdict = IF io.error THEN TEST_FAIL ELSE TEST_PASS]
    /\ UNCHANGED <<tester, io, trace_errors>>

-----------------------------------------------------------------------------
(* The tester's main loop.                                                 *)

Goto(pc) == tester' = pc /\ UNCHANGED <<mcu, trace_errors>>

\* Bug variant: ERROR is left as the last call set it.
PollKeepsError == /\ tester = "poll" /\ io.strobe
                  /\ Goto("select") /\ UNCHANGED <<dbg, io>>
Poll == /\ tester = "poll" /\ io.strobe
        /\ io' = [io EXCEPT !.error = FALSE]
        /\ Goto("select") /\ UNCHANGED dbg
\* The function is read, then RUNNING raised.
Select == /\ tester = "select"
          /\ io' = [io EXCEPT !.running = TRUE]
          /\ Goto("wait strobe") /\ UNCHANGED dbg
StrobeGone == /\ tester = "wait strobe" /\ ~io.strobe
              /\ Goto("run") /\ UNCHANGED <<dbg, io>>

RunFunction ==
    /\ tester = "run" /\ ~ActsOnCore(io.funcsel) /\ io.funcsel # "CheckTrace"
    /\ dbg' = Run(io.funcsel, dbg)
    /\ Goto(IF dbg'.hung THEN "hung" ELSE "result") /\ UNCHANGED io

RunCheckTrace ==
    /\ tester = "run" /\ io.funcsel = "CheckTrace"
    /\ \E captured \in {"nothing", "overflow", "frames"}, errors \in 0 .. 1 :
           /\ errors >= trace_errors
           /\ dbg' = CheckTrace(dbg, captured, errors)
           /\ trace_errors' = IF dbg.st.on /\ dbg.mcu.traceconfigured /\ captured = "frames"
                              THEN errors ELSE trace_errors
    /\ tester' = "result" /\ UNCHANGED <<mcu, io>>

\* Looks once whether the core is asleep (or locked up).
RunSampleCore ==
    /\ tester = "run" /\ ActsOnCore(io.funcsel)
    /\ dbg' = WhenOn(dbg, Found(SampleCore(dbg), Wanted(io.funcsel)))
    /\ Goto(IF dbg'.rd = TEST_FAIL THEN "result" ELSE "halt")
    /\ UNCHANGED io

RunCorePart ==
    /\ tester \in DOMAIN CoreParts
    /\ dbg' = CorePart(tester, dbg)
    /\ Goto(IF dbg'.hung THEN "hung" ELSE CoreParts[tester][io.funcsel])
    /\ UNCHANGED io

\* A nonzero result raises ERROR, before RUNNING falls.
FlagError == /\ tester = "result"
             /\ io' = [io EXCEPT !.error = @ \/ dbg.rd # TEST_PASS]
             /\ Goto("finished") /\ UNCHANGED dbg
Finish == /\ tester = "finished"
          /\ io' = [io EXCEPT !.running = FALSE]
          /\ Goto("poll") /\ UNCHANGED dbg

Tester == \/ Poll \/ Select \/ StrobeGone \/ RunFunction \/ RunCheckTrace
          \/ RunSampleCore \/ RunCorePart \/ FlagError \/ Finish
Mcu == ClearStrobe \/ WaitFlag \/ Fault \/ CheckDebugTester \/ ReadError

Next == \/ \E f \in Func : \E arg \in Args(f) : StartDebugTester(f, arg)
        \/ Mcu
        \/ Tester

Spec == Init /\ [][Next]_vars
\* The tester has a step to take.
TesterReady == CASE tester = "poll" -> io.strobe
                 [] tester = "wait strobe" -> ~io.strobe
                 [] OTHER -> tester # "hung"
\* Both processors run: the tester moves on whenever it has a step, and so does
\* the test program; which function it calls is left open.
FairSpec == Spec /\ WF_tester(TesterReady /\ tester' \in TesterPoints) /\ WF_vars(Mcu)

-----------------------------------------------------------------------------
\* The program never writes what it believes the port holds already, so its
\* picture of the port must be true: while the port is powered and no access
\* has failed, scan chain, bank and access size are the port's.
CacheCoherent ==
    dbg.st.on /\ dbg.st.error = 0 /\ ~dbg.port.sticky =>
        /\ dbg.st.jtagnsw /\ dbg.st.jtagapndp # 2 =>
               dbg.port.ir = IF dbg.st.jtagapndp = AP THEN "APACC" ELSE "DPACC"
        /\ dbg.st.banksel # 255 => dbg.port.bank = dbg.st.banksel
        /\ dbg.st.csw # InitDAPSTATUS.csw => dbg.port.csw = dbg.st.csw

Passed(f) == tester = "result" /\ io.funcsel = f /\ dbg.rd = TEST_PASS

\* A function that passes left no error behind at the port: writes are posted,
\* and each function looks for the fault of its last one.  CheckTrace is the
\* exception: it returns the parser's error count and looks at no port error.
PassMeansNoFault ==
    \A f \in Func \ {"CheckTrace"} : Passed(f) => dbg.st.error = 0 /\ ~dbg.port.sticky

\* When a function passes, no access failed, and what it left in the
\* communication region is what the target holds: results come one read late
\* and are fetched accordingly.
AnswerIsTrue ==
    /\ PassMeansNoFault
    /\ Passed("GetTAPID") => Data(0) = IdCode
    /\ Passed("GetDPReg") => Data(0) = IF mcu.arg = DPIDR THEN DpIdr ELSE POWERUP
    /\ Passed("GetAPReg") =>
           Data(0) = CASE mcu.arg = BASE -> ApBase [] mcu.arg = IDR -> ApIdr
                       [] OTHER -> StackTop
    /\ Passed("GetAPMem") => Data(0) = IF mcu.arg = StackTop THEN SwapEndian(StackTop)
                                       ELSE InitMem[mcu.arg \div 4]
    /\ Passed("GetAPMemCSIDs") =>
           \A n \in 0 .. 2 : Data(n) = Pack([i \in 0 .. 3 |->
               ByteOf(InitMem[(ComponentBase + PID4_OFFSET) \div 4 + 8 - 4 * n + i], 0)])
    /\ Passed("DAPAccess") => Data(0) = 7

\* The test program's verdict is its own call's result: ERROR is settled
\* before RUNNING falls, and cleared before the next call runs.
VerdictIsResult ==
    mcu.pc = "verdict" => (io.error <=> dbg.rd # TEST_PASS) /\ io.funcsel = mcu.fn

\* Every call returns to the test program, unless the tester looked at the
\* core before the core had gone to sleep or into lockup, or an access failed:
\* the tester's loops wait for bits that a failed read never shows.
TooEarly == ActsOnCore(mcu.fn) /\ tester = "result" /\ dbg.rd # TEST_PASS
Errored == dbg.st.error # 0 \/ dbg.port.sticky
CallReturns == mcu.pc = "started" ~> (mcu.pc = "idle" \/ TooEarly \/ Errored)
=============================================================================
