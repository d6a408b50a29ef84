------------------------------- MODULE AesDma -------------------------------
(***************************************************************************)
(* The AES-128 accelerator drivers of the NanoSoC test program: the        *)
(* polling driver aes128_driver_memcpy, the two scatter-gather DMA drivers *)
(* aes128_driver_dma8 and aes128_driver_aligned_dma32 with the splitting   *)
(* of aes128_alignchk_block_dma, the PL230 driver they use, the interrupt  *)
(* handlers, and the checks main makes after a call.  The AES engine and   *)
(* the PL230 controller are external: they do what the drivers rely on.    *)
(*                                                                         *)
(* Data is counted in units.  A block is Block units, a word transfer      *)
(* moves Word units, a byte transfer one.  A pointer is a buffer name and  *)
(* an offset; the engine's three windows are Block units seen through      *)
(* many aliases.                                                           *)
(***************************************************************************)
EXTENDS Integers, Sequences, FiniteSets

CONSTANTS Block,      \* AES_BLOCK_SIZE, in units
          Word,       \* units moved by one PL230_XFER_W transfer
          MaxXfers,   \* DMA_PL230_MAX_XFERS
          BufSize,    \* AES128_BUF_SIZE, the length of a window
          MaxLen,     \* length of the two buffers of the test
          Lengths,    \* lengths a caller passes
          MaxCalls    \* bound: driver calls in a behaviour

SizesAssumption ==
    /\ {Block, Word, MaxXfers, BufSize, MaxLen, MaxCalls} \subseteq Nat \ {0}
    /\ Block % Word = 0 /\ BufSize % Block = 0 /\ MaxLen % Block = 0
    /\ MaxXfers % Block = 0 /\ Word * MaxXfers <= BufSize
    /\ Lengths \subseteq 1..MaxLen

VARIABLES pc,     \* where the program is
          call,   \* arguments and progress of the driver call
          calls,  \* calls made
          fail,   \* the test's count of failures
          fault,  \* hardfault_occurred, hardfault_expected
          mem,    \* the buffers and the engine's windows
          aes,    \* the engine's registers and state
          dma,    \* the PL230 and its descriptors
          pend,   \* pending interrupts
          count   \* interrupts counted by the handlers
vars == <<pc, call, calls, fail, fault, mem, aes, dma, pend, count>>

Modes == {"bypass", "encode", "decode"}
Requests == {"key", "ip", "op", "err"}
Channels == {"IP", "OP"}
Windows == {"KEY128", "TXTIP128", "TXTOP128"}
Buffers == {"a", "b", "key"} \cup Windows

-----------------------------------------------------------------------------
(* Memory, pointers and what the engine computes.                          *)

Ptr(b, o) == [buf |-> b, off |-> o]
Plus(p, k) == [p EXCEPT !.off = @ + k]
At(p) == IF p.buf \in Windows THEN p.off % Block ELSE p.off

\* Moving k units; a later unit of an aliased window replaces an earlier one.
Moved(m, from, to, k) ==
    LET Last(i) == {j \in 0..(k - 1) : At(Plus(to, j)) = i}
        Newest(i) == CHOOSE j \in Last(i) : \A l \in Last(i) : l <= j
    IN  [m EXCEPT ![to.buf] =
            [i \in DOMAIN @ |-> IF Last(i) = {} THEN @[i]
                                ELSE m[from.buf][At(Plus(from, Newest(i)))]]]

Zero == <<"zero", 0>>
Clear(i) == <<"clear", i>>
Blank == <<"blank", 0>>
FreshMemory ==
    [b \in Buffers |->
        CASE b = "a" -> [i \in 0..(MaxLen - 1) |-> Clear(i)]
          [] b = "b" -> [i \in 0..(MaxLen - 1) |-> Blank]
          [] b = "key" -> [i \in 0..(Block - 1) |-> <<"key", i>>]
          [] OTHER -> [i \in 0..(Block - 1) |-> Blank]]

\* Every unit of a ciphered block depends on the mode, the key and the block.
Cipher(m, k, b) ==
    [i \in 0..(Block - 1) |-> IF m = "bypass" THEN b[i] ELSE <<m, k, b, i>>]

-----------------------------------------------------------------------------
(* The engine's requests and the interrupt lines.                          *)

KeyReq(s) == "key" \in s.ctrl /\ s.key = "none"
IpReq(s) == "ip" \in s.ctrl /\ ~s.ipFull
OpReq(s) == "op" \in s.ctrl /\ s.valid
Requested(s) == {r \in Requests : \/ r = "key" /\ KeyReq(s)
                                  \/ r = "ip" /\ IpReq(s)
                                  \/ r = "op" /\ OpReq(s)}
ChannelOf(r) == IF r = "op" THEN "OP" ELSE "IP"

\* "IRQ masked by DRQs": a request an enabled channel answers interrupts nobody.
Lines(s, d) == {r \in Requested(s) \cap s.irq :
                    ~(r \in s.drq /\ ChannelOf(r) \in d.en)}

\* Every step ends with the lines that are up pending at the NVIC.
Pended(served, done) == pend' = (pend \ served) \cup done \cup Lines(aes', dma')

\* The engine sees the last unit of a window go by, written or read.
Touched(s, from, to, k) ==
    LET Passed(p, w) == p.buf = w /\ \E j \in 0..(k - 1) : At(Plus(p, j)) = Block - 1
    IN  [s EXCEPT !.key = IF Passed(to, "KEY128") THEN "expand" ELSE @,
                  !.ipFull = @ \/ Passed(to, "TXTIP128"),
                  !.valid = @ /\ ~Passed(from, "TXTOP128")]

ExpandKey ==
    /\ aes.key = "expand"
    /\ aes' = [aes EXCEPT !.key = "ok"]
    /\ UNCHANGED <<pc, call, calls, fail, fault, mem, dma, count>>
    /\ Pended({}, {})

Process ==
    /\ aes.ipFull /\ aes.key = "ok" /\ ~aes.valid
    /\ mem' = [mem EXCEPT !["TXTOP128"] =
                  Cipher(aes.mode, mem["KEY128"], mem["TXTIP128"])]
    /\ aes' = [aes EXCEPT !.ipFull = FALSE, !.valid = TRUE]
    /\ UNCHANGED <<pc, call, calls, fail, fault, dma, count>>
    /\ Pended({}, {})

-----------------------------------------------------------------------------
(* Descriptors and the PL230.  A channel runs its primary descriptor, which *)
(* brings the next task of the chain into the alternate one, and then the   *)
(* task, one block for each request.                                        *)

PtrEnd(p, siz, num) == Plus(p, siz * (num - 1))

\* n_minus_1 is a field of ten bits: num = 0 asks for the maximum.
Control(cyc, siz, num) == [cycle |-> cyc, siz |-> siz, nm1 |-> (num - 1) % MaxXfers]

Task(from, to, cyc, siz, num) ==
    [src |-> PtrEnd(from, siz, num), dst |-> PtrEnd(to, siz, num),
     ctl |-> Control(cyc, siz, num)]

ServesRequest(c) == \E r \in Requested(aes) \cap aes.drq : ChannelOf(r) = c

DmaBurst(c) ==
    /\ dma.cfg /\ c \in dma.en /\ ServesRequest(c)
    /\ LET ch == dma.ch[c]
           fetch == ~ch.alt
           task == IF fetch THEN Head(ch.chain) ELSE ch.task
           done == IF fetch THEN 0 ELSE ch.done
           siz == task.ctl.siz
           left == task.ctl.nm1 + 1 - done
           k == IF left * siz < Block THEN left ELSE Block \div siz
           back == siz * (left - 1)
           from == Plus(task.src, -back)
           to == Plus(task.dst, -back)
           over == k = left
           ends == over /\ task.ctl.cycle = "basic"
       IN  /\ mem' = Moved(mem, from, to, k * siz)
           /\ aes' = Touched(aes, from, to, k * siz)
           /\ dma' = [dma EXCEPT
                 !.ch[c] = [chain |-> IF fetch THEN Tail(ch.chain) ELSE ch.chain,
                            alt |-> ~over, task |-> task, done |-> done + k],
                 !.en = IF ends THEN @ \ {c} ELSE @]
           /\ Pended({}, IF ends THEN {"dma"} ELSE {})
    /\ UNCHANGED <<pc, call, calls, fail, fault, count>>

-----------------------------------------------------------------------------
(* Interrupt handlers.  A handler runs before the program's next access.    *)

CpuRuns == pend = {}

\* EXP0_Handler to EXP3_Handler: count the request, mask it.
RequestHandler ==
    \E r \in Requests \cap pend :
        /\ count' = [count EXCEPT ![r] = @ + 1]
        /\ aes' = [aes EXCEPT !.irq = @ \ {r}]
        /\ UNCHANGED <<pc, call, calls, fail, fault, mem, dma>>
        /\ Pended({r}, {})

\* DMA_Handler, the branch of a finished channel.
DMA_Handler ==
    /\ "dma" \in pend
    /\ count' = [count EXCEPT !["dma"] = @ + 1]
    /\ UNCHANGED <<pc, call, calls, fail, fault, mem, aes, dma>>
    /\ Pended({"dma"}, {})

-----------------------------------------------------------------------------
(* Detection of the controller, and the fault it may raise.                 *)

NoCall == [api |-> "memcpy", mode |-> "bypass", siz |-> 1, total |-> 0,
           n |-> 0, chunk |-> 0, chunks |-> 0, src |-> Ptr("a", 0), dst |-> Ptr("b", 0),
           result |-> "b"]
NoCounts == [r \in Requests \cup {"dma"} |-> 0]

\* pl230_dma_detect: the ID registers are read; the read faults on an empty bus.
pl230_dma_detect ==
    /\ pc = "detect" /\ CpuRuns
    /\ fault' = [fault EXCEPT !.expected = TRUE]
    /\ pc' \in {"ids", "hardfault"}
    /\ UNCHANGED <<call, calls, fail, mem, aes, dma, count, pend>>

HardFault_Handler_c ==
    /\ pc = "hardfault"
    /\ fault' = [fault EXCEPT !.occurred = TRUE]
    /\ pc' = IF fault.expected THEN "ids" ELSE "stop"
    /\ UNCHANGED <<call, calls, fail, mem, aes, dma, count, pend>>

ID_Check ==
    /\ pc = "ids"
    /\ \E differ \in BOOLEAN :
        pc' = IF fault.occurred \/ differ THEN "stop" ELSE "main"
    /\ fault' = [occurred |-> FALSE, expected |-> FALSE]
    /\ UNCHANGED <<call, calls, fail, mem, aes, dma, count, pend>>

-----------------------------------------------------------------------------
(* The calls of main and the entry of the two interfaces.                   *)

\* A DMA call takes whole blocks; the aligned case uses word transfers.
Call(api, m, n, d, s) ==
    /\ pc = "main" /\ CpuRuns /\ calls < MaxCalls
    /\ api = "dma" => n % Block = 0
    /\ calls' = calls + 1
    /\ call' = [NoCall EXCEPT !.api = api, !.mode = m, !.total = n, !.n = n,
                              !.siz = s, !.dst = Ptr(d, 0), !.result = d]
    /\ count' = NoCounts
    /\ mem' = [FreshMemory EXCEPT !["KEY128"] = mem["KEY128"],
                   !["TXTIP128"] = mem["TXTIP128"], !["TXTOP128"] = mem["TXTOP128"]]
    /\ pc' = IF api = "dma" THEN "split" ELSE "reset"
    /\ UNCHANGED <<fail, fault, aes, dma, pend>>

\* The reset both interfaces begin with: masks, CTRL (which empties the
\* engine and enables the requests) and the mode.
ResetEngine(requests) ==
    aes' = [ctrl |-> requests, mode |-> call.mode, key |-> "none", ipFull |-> FALSE,
            valid |-> FALSE, drq |-> {}, irq |-> {}]

-----------------------------------------------------------------------------
(* aes128_driver_memcpy.                                                    *)

MemReset ==
    /\ pc = "reset" /\ CpuRuns
    /\ ResetEngine(Requests)
    /\ pc' = "unmask"
    /\ UNCHANGED <<call, calls, fail, fault, mem, dma, count>>
    /\ Pended({}, {})

MemUnmask ==
    /\ pc = "unmask" /\ CpuRuns
    /\ aes' = [aes EXCEPT !.irq = Requests]
    /\ pc' = "key"
    /\ UNCHANGED <<call, calls, fail, fault, mem, dma, count>>
    /\ Pended({}, {})

MemKey ==
    /\ pc = "key" /\ CpuRuns
    /\ mem' = Moved(mem, Ptr("key", 0), Ptr("KEY128", 0), Block)
    /\ aes' = Touched(aes, Ptr("key", 0), Ptr("KEY128", 0), Block)
    /\ pc' = "keyok"
    /\ UNCHANGED <<call, calls, fail, fault, dma, count>>
    /\ Pended({}, {})

\* The poll of KEYOK ends.
MemKeyOk ==
    /\ pc = "keyok" /\ CpuRuns /\ aes.key = "ok"
    /\ pc' = "load"
    /\ UNCHANGED <<call, calls, fail, fault, mem, aes, dma, count, pend>>

\* Bug variant: the rest of the block keeps the last block's units.
MemLoadUnpadded ==
    /\ pc = "load" /\ CpuRuns
    /\ LET len == IF call.n > Block THEN Block ELSE call.n
       IN  mem' = [mem EXCEPT !["TXTIP128"] =
                      [i \in 0..(Block - 1) |->
                          IF i < len THEN mem[call.src.buf][call.src.off + i] ELSE @[i]]]
    /\ aes' = Touched(aes, call.src, Ptr("TXTIP128", 0), Block)
    /\ pc' = "valid"
    /\ UNCHANGED <<call, calls, fail, fault, dma, count>>
    /\ Pended({}, {})
\* len units of input, then zeros up to a block; the last one starts the engine.
MemLoad ==
    /\ pc = "load" /\ CpuRuns
    /\ LET len == IF call.n > Block THEN Block ELSE call.n
       IN  mem' = [mem EXCEPT !["TXTIP128"] =
                      [i \in 0..(Block - 1) |->
                          IF i < len THEN mem[call.src.buf][call.src.off + i] ELSE Zero]]
    /\ aes' = Touched(aes, call.src, Ptr("TXTIP128", 0), Block)
    /\ pc' = "valid"
    /\ UNCHANGED <<call, calls, fail, fault, dma, count>>
    /\ Pended({}, {})

\* Bug variant: the requests the handlers masked stay masked.
MemStoreMasked ==
    /\ pc = "valid" /\ CpuRuns /\ aes.valid
    /\ LET len == IF call.n > Block THEN Block ELSE call.n
       IN  /\ mem' = Moved(mem, Ptr("TXTOP128", 0), call.dst, Block)
           /\ aes' = Touched(aes, Ptr("TXTOP128", 0), call.dst, Block)
           /\ call' = [call EXCEPT !.n = @ - len, !.src = Plus(@, len),
                                   !.dst = Plus(@, len)]
           /\ pc' = IF call.n > len THEN "load" ELSE "end"
    /\ UNCHANGED <<calls, fail, fault, dma, count>>
    /\ Pended({}, {})
\* The poll of VALID ends: a whole block is copied out, whatever len was.
MemStore ==
    /\ pc = "valid" /\ CpuRuns /\ aes.valid
    /\ LET len == IF call.n > Block THEN Block ELSE call.n
       IN  /\ mem' = Moved(mem, Ptr("TXTOP128", 0), call.dst, Block)
           /\ aes' = [Touched(aes, Ptr("TXTOP128", 0), call.dst, Block)
                         EXCEPT !.irq = @ \cup {"ip", "op"}]
           /\ call' = [call EXCEPT !.n = @ - len, !.src = Plus(@, len),
                                   !.dst = Plus(@, len)]
           /\ pc' = IF call.n > len THEN "load" ELSE "end"
    /\ UNCHANGED <<calls, fail, fault, dma, count>>
    /\ Pended({}, {})

MemEnd ==
    /\ pc = "end" /\ CpuRuns
    /\ aes' = [aes EXCEPT !.ctrl = {}]
    /\ pc' = "check"
    /\ UNCHANGED <<call, calls, fail, fault, mem, dma, count>>
    /\ Pended({}, {})

-----------------------------------------------------------------------------
(* aes128_alignchk_block_dma and the two DMA drivers.                       *)

dma_max == call.siz * MaxXfers

\* The next driver call: dma_max while more than that is left, then the rest.
Split ==
    /\ pc = "split" /\ CpuRuns
    /\ call' = [call EXCEPT !.chunk = IF call.n > dma_max THEN dma_max ELSE call.n,
                            !.chunks = @ + 1]
    /\ pc' = "program"
    /\ UNCHANGED <<calls, fail, fault, mem, aes, dma, count, pend>>

Channel(tasks) == [chain |-> tasks, alt |-> FALSE, task |-> Head(tasks), done |-> 0]

\* Reset of the engine, the empty table, the three tasks and the two primary
\* descriptors.
Program ==
    /\ pc = "program" /\ CpuRuns
    /\ ResetEngine(Requests \ {"err"})
    /\ LET s == call.siz
           num == call.chunk \div s
           key == Task(Ptr("key", 0), Ptr("KEY128", BufSize - Block),
                       "chain_alt", s, Block \div s)
           input == Task(call.src, Ptr("TXTIP128", BufSize - call.chunk), "basic", s, num)
           output == Task(Ptr("TXTOP128", BufSize - call.chunk), call.dst, "basic", s, num)
       IN  dma' = [dma EXCEPT !.ch = [IP |-> Channel(<<key, input>>),
                                      OP |-> Channel(<<output>>)]]
    /\ pc' = "init"
    /\ UNCHANGED <<call, calls, fail, fault, mem, count>>
    /\ Pended({}, {})

\* Bug variant: the controller itself stays off.
dma_pl230_init_disabled(mask) ==
    dma' = [dma EXCEPT !.en = mask, !.cfg = FALSE,
                       !.ch = [c \in Channels |-> [dma.ch[c] EXCEPT !.alt = FALSE]]]
\* dma_pl230_init: everything off, then the channels of the mask.  A burst is
\* one step here, so the controller is always idle or stalled.
dma_pl230_init(mask) ==
    dma' = [dma EXCEPT !.en = mask, !.cfg = mask # {},
                       !.ch = [c \in Channels |-> [dma.ch[c] EXCEPT !.alt = FALSE]]]

DmaInit ==
    /\ pc = "init" /\ CpuRuns
    /\ dma_pl230_init(Channels)
    /\ pc' = "drq"
    /\ UNCHANGED <<call, calls, fail, fault, mem, aes, count>>
    /\ Pended({}, {})

DmaUnmaskRequests ==
    /\ pc = "drq" /\ CpuRuns
    /\ aes' = [aes EXCEPT !.drq = @ \cup {"key", "ip", "op"}]
    /\ pc' = "irq"
    /\ UNCHANGED <<call, calls, fail, fault, mem, dma, count>>
    /\ Pended({}, {})

DmaUnmaskInterrupts ==
    /\ pc = "irq" /\ CpuRuns
    /\ aes' = [aes EXCEPT !.irq = Requests]
    /\ pc' = "started"
    /\ UNCHANGED <<call, calls, fail, fault, mem, dma, count>>
    /\ Pended({}, {})

dma_pl230_channel_active(c) == c \in dma.en

\* "test to ensure output DMA has started", then the wait for its end.
DmaStarted ==
    /\ pc = "started" /\ CpuRuns /\ dma_pl230_channel_active("OP")
    /\ pc' = "finished"
    /\ UNCHANGED <<call, calls, fail, fault, mem, aes, dma, count, pend>>

DmaFinished ==
    /\ pc = "finished" /\ CpuRuns /\ ~dma_pl230_channel_active("OP")
    /\ pc' = "mask"
    /\ UNCHANGED <<call, calls, fail, fault, mem, aes, dma, count, pend>>

DmaMask ==
    /\ pc = "mask" /\ CpuRuns
    /\ aes' = [aes EXCEPT !.drq = {}, !.irq = {}]
    /\ pc' = "off"
    /\ UNCHANGED <<call, calls, fail, fault, mem, dma, count>>
    /\ Pended({}, {})

DmaOff ==
    /\ pc = "off" /\ CpuRuns
    /\ dma_pl230_init({})
    /\ call' = [call EXCEPT !.n = @ - call.chunk, !.src = Plus(@, call.chunk),
                            !.dst = Plus(@, call.chunk)]
    /\ pc' = IF call.n > call.chunk THEN "split" ELSE "check"
    /\ UNCHANGED <<calls, fail, fault, mem, aes, count>>
    /\ Pended({}, {})

-----------------------------------------------------------------------------
(* What main checks after a call.                                           *)

Blocks == (call.total + Block - 1) \div Block

\* The result a call owes, unit by unit, padding included.
InputBlock(q) == [j \in 0..(Block - 1) |->
                     IF q * Block + j < call.total THEN Clear(q * Block + j) ELSE Zero]
Owed(i) == Cipher(call.mode, FreshMemory["key"], InputBlock(i \div Block))[i % Block]

aes128_buffer_verify == \A i \in 0..(call.total - 1) : mem[call.result][i] = Owed(i)

\* One key, Blocks + 1 input and Blocks output interrupts for a polled call;
\* "IRQ masked by DRQs - except when input buffer empty after DMA done".
CountsExpected ==
    IF call.api = "memcpy"
    THEN count["key"] = 1 /\ count["ip"] = Blocks + 1 /\ count["op"] = Blocks
    ELSE count["key"] = 0 /\ count["ip"] = call.chunks /\ count["op"] = 0

Check ==
    /\ pc = "check" /\ CpuRuns
    /\ fail' = fail + (IF aes128_buffer_verify THEN 0 ELSE 1)
                    + (IF CountsExpected /\ count["err"] = 0 THEN 0 ELSE 1)
    /\ pc' = IF calls = MaxCalls THEN "stop" ELSE "main"
    /\ UNCHANGED <<call, calls, fault, mem, aes, dma, count, pend>>

-----------------------------------------------------------------------------
Init ==
    /\ pc = "detect" /\ call = NoCall /\ calls = 0 /\ fail = 0
    /\ fault = [occurred |-> FALSE, expected |-> FALSE]
    /\ mem = FreshMemory
    /\ aes = [ctrl |-> {}, mode |-> "bypass", key |-> "none", ipFull |-> FALSE,
              valid |-> FALSE, drq |-> {}, irq |-> {}]
    /\ dma = [cfg |-> FALSE, en |-> {},
              ch |-> [c \in Channels |->
                  Channel(<<Task(Ptr("a", 0), Ptr("b", 0), "stop", 1, 1)>>)]]
    /\ pend = {} /\ count = NoCounts

Detect == pl230_dma_detect \/ HardFault_Handler_c \/ ID_Check
Memcpy == MemReset \/ MemUnmask \/ MemKey \/ MemKeyOk \/ MemLoad \/ MemStore \/ MemEnd
Dma == \/ Split \/ Program \/ DmaInit \/ DmaUnmaskRequests \/ DmaUnmaskInterrupts
       \/ DmaStarted \/ DmaFinished \/ DmaMask \/ DmaOff
Calls == \/ \E m \in Modes, n \in Lengths, d \in {"a", "b"} : Call("memcpy", m, n, d, 1)
         \/ \E m \in Modes, n \in Lengths, d \in {"a", "b"}, s \in {1, Word} :
                Call("dma", m, n, d, s)
Cpu == Detect \/ Memcpy \/ Dma \/ Check
Handlers == RequestHandler \/ DMA_Handler
Engines == ExpandKey \/ Process \/ \E c \in Channels : DmaBurst(c)

Next == Calls \/ Cpu \/ Handlers \/ Engines

Spec == Init /\ [][Next]_vars

\* The processor, its interrupts, the engine and each channel keep running.
FairSpec == /\ Spec
            /\ WF_vars(Cpu) /\ WF_vars(Handlers)
            /\ WF_vars(ExpandKey) /\ WF_vars(Process)
            /\ \A c \in Channels : WF_vars(DmaBurst(c))

-----------------------------------------------------------------------------
(* Properties.                                                              *)

\* The program reports no failure: every call, polled or split into DMA chunks
\* of either transfer size, in place or not, leaves the processed input in the
\* result and raises exactly the interrupts main counts.
TestPasses == fail = 0

\* While a call runs, the result buffer is the processed input up to some unit
\* and untouched beyond it: blocks arrive in order, each from its own input,
\* and nothing past the last whole block is written.
ResultIsPrefix ==
    pc \in {"detect", "ids", "hardfault", "main", "stop"} \/
    \E k \in 0..Blocks :
        /\ \A i \in 0..(k * Block - 1) : mem[call.result][i] = Owed(i)
        /\ \A i \in (k * Block)..(MaxLen - 1) :
              mem[call.result][i] = FreshMemory[call.result][i]

\* The output DMA is over before the driver looks whether it has started.
OverBeforePoll == pc \in {"irq", "started"} /\ ~dma_pl230_channel_active("OP")

\* Every driver call returns, of any length and in any number of chunks, unless
\* the output DMA of a chunk is over before the driver's first poll of it.
DriverReturns == (pc = "reset" \/ pc = "split") ~> (pc = "check" \/ OverBeforePoll)

\* "test to ensure output DMA has started": a driver that has enabled the DMA
\* gets past that test.  False: a transfer that has started and is over looks to
\* dma_pl230_channel_active like one that has not started.
StartIsSeen == (pc = "init") ~> (pc = "finished")
=============================================================================
