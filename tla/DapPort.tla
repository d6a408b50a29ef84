------------------------------ MODULE DapPort ------------------------------
(***************************************************************************)
(* The debug tester's access to a debug access port (debugtester.c), as    *)
(* operators on a record x that holds                                      *)
(*    st    the program's picture of the port (DAPSTATUS)                  *)
(*    mcu   what it knows of the target (Cortex_MCU)                       *)
(*    port  the port itself                                                *)
(*    mem   the target's memory, by word                                   *)
(*    core  the target's core as its debug registers show it               *)
(*    rd    the value the last operation returned                          *)
(*    acc, block   a function's local tally and array                      *)
(*    hung  TRUE once a wait loop has been entered that nothing can end    *)
(*                                                                         *)
(* An operator of the code's name maps the record before a call to the     *)
(* record after it.  The program is the only one to use the port, so a     *)
(* call is one step, except where the core runs on meanwhile (DebugTester).*)
(*                                                                         *)
(* The port and the core are not part of the repository; they are modelled *)
(* from what the program expects of them.  Data is scaled: two bits stand  *)
(* for a byte, so a word is a number below 256.                            *)
(***************************************************************************)
EXTENDS Integers, Sequences

CONSTANTS EXPECTED_BE,  \* TRUE when the target is big-endian
          M0Plus,       \* TRUE when built for CORTEX_M0PLUS
          Wrap          \* bytes in which the port increments an address (0x400)

ASSUME BuildAssumption == /\ EXPECTED_BE \in BOOLEAN /\ M0Plus \in BOOLEAN
                          /\ Wrap \in {4 * n : n \in 1 .. 64}

TEST_PASS == 0
TEST_FAIL == 1

\* Access and direction.
AP == 1
DP == 0
READ == 1
WRITE == 0

\* Register addresses of the debug port and, with the bank, of the access port.
DPIDR == 0
ABORT == 0
CTRLSTAT == 4
HALTEV == 4
SELECT == 8
RDBUFF == 12
CSW == 0
TAR == 4
DRW == 12
BASE == 248
IDR == 252

\* CTRL/STAT: the error bit and the power-up bits, request and acknowledge.
STICKYERR == 1
POWERUP == 2

\* The debug registers of the core and their bits.
DHCSR_ADDR == 80
DCRSR_ADDR == 84
DCRDR_ADDR == 88
S_REGRDY == 1
S_HALT == 2
S_SLEEP == 4
S_LOCKUP == 8
C_DEBUGEN == 1
C_HALT == 2
REGWnR == 1
PID4_OFFSET == 16

-----------------------------------------------------------------------------
(* Words and bytes.                                                        *)

ByteOf(w, i) == (w \div 4^i) % 4
Pack(b) == b[0] + 4 * b[1] + 16 * b[2] + 64 * b[3]
Bit(w, mask) == (w \div mask) % 2 = 1
\* The bytes of a word that an access of `size` bytes at `address` replaces.
PutLanes(old, data, size, address) ==
    Pack([i \in 0 .. 3 |-> IF i \in (address % 4) .. ((address % 4) + size - 1)
                           THEN ByteOf(data, i) ELSE ByteOf(old, i)])
SwapEndian(data) ==
    IF EXPECTED_BE THEN Pack([i \in 0 .. 3 |-> ByteOf(data, 3 - i)]) ELSE data

-----------------------------------------------------------------------------
(* The target: port, memory and core.                                      *)

Words == 0 .. 22            \* mapped words; an access past them faults
IdCode == 1                 \* TAP identification; its top bits are 0
DpIdr == 65
Bogus == 222                \* SWDataRead's value without an OK (0xDEADBEEF)
ApIdr == 66
ApBase == 67

NoSize == [size |-> 0, incr |-> FALSE]
Powered(x) == x.port.req
CtrlStatWord(x) == (IF x.port.sticky THEN STICKYERR ELSE 0)
                       + (IF Powered(x) THEN POWERUP ELSE 0)
DhcsrWord(x) == S_REGRDY + (IF x.core.halted THEN S_HALT
                            ELSE IF x.core.mode = "sleeping" THEN S_SLEEP
                            ELSE IF x.core.mode = "lockup" THEN S_LOCKUP ELSE 0)

MemWord(x, address) ==
    CASE address \div 4 = DHCSR_ADDR \div 4 -> DhcsrWord(x)
      [] address \div 4 = DCRDR_ADDR \div 4 -> x.core.dcrdr
      [] OTHER -> x.mem[address \div 4]

\* Leaving halt completes a WFI; a core in lockup resumes at its return address.
CoreAfterDhcsr(core, data) ==
    [core EXCEPT !.debugen = Bit(data, C_DEBUGEN),
                 !.halted = Bit(data, C_DEBUGEN) /\ Bit(data, C_HALT),
                 !.mode = IF core.halted /\ ~Bit(data, C_HALT) THEN "running" ELSE @]

MemWrite(x, address, data) ==
    CASE address \div 4 = DHCSR_ADDR \div 4 ->
             [x EXCEPT !.core = CoreAfterDhcsr(@, data)]
      [] address \div 4 = DCRSR_ADDR \div 4 ->
             IF Bit(data, REGWnR) THEN [x EXCEPT !.core.ret = x.core.dcrdr]
             ELSE [x EXCEPT !.core.dcrdr = x.core.ret]
      [] address \div 4 = DCRDR_ADDR \div 4 -> [x EXCEPT !.core.dcrdr = data]
      [] OTHER -> [x EXCEPT !.mem[address \div 4] =
                                PutLanes(@, data, x.port.csw.size, address)]

\* TAR after an access to DRW.
NextTar(port) ==
    IF port.csw.incr
    THEN (port.tar - (port.tar % Wrap)) + ((port.tar + 4) % Wrap) ELSE port.tar

\* A read over JTAG leaves its result for the next scan to return.
DpRead(x, a) ==
    LET word == CASE a = DPIDR -> DpIdr [] a = CTRLSTAT -> CtrlStatWord(x)
                  [] OTHER -> x.port.buf
    IN  IF x.st.jtagnsw THEN [x EXCEPT !.rd = x.port.buf, !.port.buf = word]
        ELSE [x EXCEPT !.rd = word]
DpWrite(x, a, v) ==
    CASE a = CTRLSTAT ->
             [x EXCEPT !.port.req = Bit(v, POWERUP),
                       !.port.sticky = @ /\ ~(x.st.jtagnsw /\ Bit(v, STICKYERR)),
                       !.port.csw = IF Bit(v, POWERUP) THEN @ ELSE NoSize]
      [] a = ABORT -> [x EXCEPT !.port.sticky = FALSE]
      [] a = SELECT -> [x EXCEPT !.port.bank = v]
      [] OTHER -> x

\* An access through the access port fails while the port is off or has an
\* error pending, or when it reaches unmapped memory.
Dead(x) == ~Powered(x) \/ x.port.sticky
Faults(x, a) == \/ Dead(x)
                \/ x.port.bank = 0 /\ a = DRW /\ x.port.tar \div 4 \notin Words
ApRegister(x, a) == 16 * x.port.bank + a
ApWord(x, a) == CASE ApRegister(x, a) = DRW -> MemWord(x, x.port.tar)
                  [] ApRegister(x, a) = CSW -> x.port.csw.size
                  [] ApRegister(x, a) = TAR -> x.port.tar
                  [] ApRegister(x, a) = BASE -> ApBase
                  [] ApRegister(x, a) = IDR -> ApIdr
                  [] OTHER -> 0
\* A read returns the result of the read before it.
ApRead(x, a) ==
    IF Faults(x, a)
    THEN [x EXCEPT !.rd = x.port.buf, !.port.sticky = TRUE, !.port.buf = Bogus]
    ELSE [x EXCEPT !.rd = x.port.buf, !.port.buf = ApWord(x, a),
                   !.port.tar = IF ApRegister(x, a) = DRW THEN NextTar(x.port) ELSE @]
ApWrite(x, a, v) ==
    IF Faults(x, a) THEN [x EXCEPT !.port.sticky = TRUE]
    ELSE CASE ApRegister(x, a) = DRW ->
                  [MemWrite(x, x.port.tar, v) EXCEPT !.port.tar = NextTar(x.port)]
           [] ApRegister(x, a) = CSW -> [x EXCEPT !.port.csw = v]
           [] ApRegister(x, a) = TAR -> [x EXCEPT !.port.tar = v]
           [] OTHER -> x

-----------------------------------------------------------------------------
(* The two wire protocols.                                                 *)

JTAGScanIR(x, instruction) == [x EXCEPT !.port.ir = instruction]
JTAGScanIDCODE(x) == [JTAGScanIR(x, "IDCODE") EXCEPT !.rd = IdCode]
\* Scan chains are switched only when the program thinks it must.
JtagAPnDP(x, apndp) ==
    IF x.st.jtagapndp = apndp THEN x
    ELSE [JTAGScanIR(x, IF apndp = AP THEN "APACC" ELSE "DPACC")
             EXCEPT !.st.jtagapndp = apndp]

\* What an access reaches: over JTAG whatever instruction the TAP holds
\* (JTAGScanDR), over serial wire what the header asks for.
Reached(x, apndp) == IF x.st.jtagnsw THEN x.port.ir
                     ELSE IF apndp = AP THEN "APACC" ELSE "DPACC"
Transfer(x, chain, rnw, a, v) ==
    CASE chain = "APACC" /\ rnw = READ -> ApRead(x, a)
      [] chain = "APACC" /\ rnw = WRITE -> ApWrite(x, a, v)
      [] chain = "DPACC" /\ rnw = READ -> DpRead(x, a)
      [] chain = "DPACC" /\ rnw = WRITE -> DpWrite(x, a, v)
      [] OTHER -> [x EXCEPT !.rd = IdCode]

\* Over serial wire a port with an error pending answers FAULT, except to the
\* accesses that find it out and clear it; SWHeader counts the error, no data
\* follows and SWDataRead returns a bogus value.
SWRefused(x, apndp, a) ==
    /\ ~x.st.jtagnsw
    /\ IF apndp = AP THEN Dead(x) ELSE x.port.sticky /\ a # CTRLSTAT /\ a # DPIDR
MaxError == 2   \* the code distinguishes no, one and more errors
CountError(x) == [x EXCEPT !.st.error = IF @ < MaxError THEN @ + 1 ELSE @]
SWFault(x) == [CountError(x) EXCEPT !.st.ack = "FAULT", !.rd = Bogus, !.port.sticky = TRUE]

SwitchTo(x, apndp) == IF x.st.jtagnsw THEN JtagAPnDP(x, apndp) ELSE x
OnChain(x, apndp, rnw, a, v) ==
    Transfer([x EXCEPT !.st.ack = "OK"], Reached(x, apndp), rnw, a, v)
Access(x, apndp, rnw, a, v) ==
    IF SWRefused(x, apndp, a) THEN SWFault(x)
    ELSE OnChain(SwitchTo(x, apndp), apndp, rnw, a, v)

-----------------------------------------------------------------------------
(* Registers of the debug port and of the access port.                     *)

DPReadRDBUFF(x) == Access(x, DP, READ, RDBUFF, 0)
\* A read whose result is fetched from RDBUFF: any over JTAG, AP over both.
Fetch(x) == IF x.st.jtagnsw THEN DPReadRDBUFF(x) ELSE x
DpReadNow(x, a) == Fetch(Access(x, DP, READ, a, 0))
ApReadNow(x, a) == DPReadRDBUFF(Access(x, AP, READ, a % 16, 0))

\* The bank is a field of SELECT, written only when the program thinks it must.
DPWriteBANKSEL(x, banksel) ==
    IF x.st.banksel = banksel THEN x
    ELSE [Access(x, DP, WRITE, SELECT, banksel) EXCEPT !.st.banksel = banksel]
DPWriteCTRLSTAT(x, ctrlstat) == Access(x, DP, WRITE, CTRLSTAT, ctrlstat)
DPReadCTRLSTAT(x) == DpReadNow(x, CTRLSTAT)
DPReadIDR(x) == DpReadNow(x, DPIDR)
\* Selects bank 4 of the access port; the debug port's bank stays 0.
DPReadHALTEV(x) == DPWriteBANKSEL(DpReadNow(DPWriteBANKSEL(x, 4), HALTEV), 0)
APReadCSW(x) == ApReadNow(DPWriteBANKSEL(x, 0), CSW)
APReadIDR(x) == ApReadNow(DPWriteBANKSEL(x, 15), IDR)
APReadBASE(x) == ApReadNow(DPWriteBANKSEL(x, 15), BASE)
APWriteCSW(x, csw) ==
    IF x.st.csw = csw THEN x
    ELSE [Access(DPWriteBANKSEL(x, 0), AP, WRITE, CSW, csw) EXCEPT !.st.csw = csw]
APWriteTAR(x, address) == Access(DPWriteBANKSEL(x, 0), AP, WRITE, TAR, address)
APReadDRW(x) == Access(DPWriteBANKSEL(x, 0), AP, READ, DRW, 0)
APWriteDRW(x, data) == Access(DPWriteBANKSEL(x, 0), AP, WRITE, DRW, data)

\* Clears the error; over JTAG this writes CTRL/STAT, whose power-up requests
\* only the CORTEX_M0PLUS build keeps.
DPClearSTICKYERR(x) ==
    IF x.st.jtagnsw
    THEN Access(x, DP, WRITE, CTRLSTAT, STICKYERR + (IF M0Plus THEN POWERUP ELSE 0))
    ELSE Access(x, DP, WRITE, ABORT, STICKYERR)

InitDAPSTATUS ==
    [jtagnsw |-> FALSE, jtagapndp |-> 2, on |-> FALSE, banksel |-> 255,
     csw |-> [size |-> 255, incr |-> FALSE], error |-> 0, ack |-> "none",
     stkerrclr |-> FALSE]

\* Over JTAG the error bit is looked at; over serial wire errors were counted.
CountSticky(x) == IF Bit(x.rd, STICKYERR) THEN CountError(x) ELSE x
Verdict(x) == [x EXCEPT !.rd = IF x.st.error # 0 THEN TEST_FAIL ELSE TEST_PASS]
CheckDAPSTATUS(x) ==
    Verdict(IF x.st.jtagnsw THEN CountSticky(DPReadCTRLSTAT(x)) ELSE x)

-----------------------------------------------------------------------------
(* Memory.                                                                 *)

BYTE == [size |-> 1, incr |-> FALSE]
HALFWORD == [size |-> 2, incr |-> FALSE]
WORD == [size |-> 4, incr |-> FALSE]
WORDS == [size |-> 4, incr |-> TRUE]

ReadSized(x, csw, address) == DPReadRDBUFF(APReadDRW(APWriteTAR(APWriteCSW(x, csw), address)))
ReadMem(x, address) == ReadSized(x, WORD, address)
ReadMemH(x, address) == ReadSized(x, HALFWORD, address)
ReadMemB(x, address) == ReadSized(x, BYTE, address)

WriteSized(x, csw, address, data) ==
    DPReadRDBUFF(APWriteDRW(APWriteTAR(APWriteCSW(x, csw), address), data))
WriteMem(x, address, data) == WriteSized(x, WORD, address, data)
\* The value is repeated in every lane.
WriteMemH(x, address, data) == WriteSized(x, HALFWORD, address, data * 17)
WriteMemB(x, address, data) == WriteSized(x, BYTE, address, data * 85)

\* Bug variant: the port is trusted to increment the address.
AtWordIncremented(x, tar) == x
\* The address is written again whenever it reaches the end of the part of it
\* that the port increments.
AtWord(x, tar) == IF tar % Wrap = 0 THEN APWriteTAR(x, tar) ELSE x
\* Each DRW read returns the word before; the last word comes from RDBUFF.
Keep(x) == [x EXCEPT !.block = Append(@, x.rd)]
ReadNext(x, address, i) ==
    IF i = 0 THEN APReadDRW(AtWord(x, address))
    ELSE Keep(APReadDRW(AtWord(x, address + 4 * i)))
ReadMemBlock(x, address, numwords) ==
    LET after[i \in 0 .. numwords] ==
            IF i = 0 THEN APWriteTAR(APWriteCSW([x EXCEPT !.block = <<>>], WORDS), address)
            ELSE ReadNext(after[i - 1], address, i - 1)
    IN  Keep(DPReadRDBUFF(after[numwords]))
WriteNext(x, address, data, i) == APWriteDRW(AtWord(x, address + 4 * i), data[i + 1])
WriteMemBlock(x, address, data) ==
    LET after[i \in 0 .. Len(data)] ==
            IF i = 0 THEN APWriteTAR(APWriteCSW(x, WORDS), address)
            ELSE WriteNext(after[i - 1], address, data, i - 1)
    IN  DPReadRDBUFF(after[Len(data)])

\* A read that may fault: one error is looked up, cleared and forgotten.
ClearError(x) == [DPClearSTICKYERR(x) EXCEPT !.st.stkerrclr = TRUE]
ClearIfSticky(x) == IF Bit(x.rd, STICKYERR) THEN ClearError(x) ELSE x
ForgetOne(x) ==
    IF x.st.error # 1 THEN x
    ELSE [IF x.st.jtagnsw THEN ClearError(x) ELSE ClearIfSticky(DPReadCTRLSTAT(x))
             EXCEPT !.st.error = 0]
SpecialChecks(x, value) ==
    [ForgetOne(IF x.st.jtagnsw THEN CountSticky(DPReadCTRLSTAT(x)) ELSE x)
        EXCEPT !.rd = value]
ReadAndCheck(y) == SpecialChecks(y, y.rd)
ReadMemSpecial(x, csw, address) == ReadAndCheck(ReadSized(x, csw, address))

\* The communication region: four words above the target's initial stack
\* pointer, which is read from its vector table on the first use.
SetStackTop(x) == [x EXCEPT !.mcu.stacktop = SwapEndian(x.rd)]
InitCommRegion(x) == IF x.mcu.stacktop # 0 THEN x ELSE SetStackTop(ReadMem(x, 0))
ReadCommRegion(x, index) ==
    [ReadMem(x, x.mcu.stacktop + 4 * index) EXCEPT !.rd = SwapEndian(@)]
WriteCommRegion(x, index, data) ==
    WriteMem(x, x.mcu.stacktop + 4 * index, SwapEndian(data))

\* A wait loop: it ends at once or, as nobody else changes the port, never.
WaitFor(x, cond) == IF cond THEN x ELSE [x EXCEPT !.hung = TRUE]
=============================================================================
