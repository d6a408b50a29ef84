-------------------------- MODULE CmsdkDriverProofs --------------------------
(***************************************************************************)
(* Proofs about CmsdkDriver, for every number of calls, every set of pins, *)
(* reload values and characters, and every interleaving of the handler     *)
(* with the program: characters leave in order, a lost one is flagged, a   *)
(* timer that is set up starts full, and calls leave the registers as some *)
(* order of whole calls does.                                              *)
(***************************************************************************)
EXTENDS CmsdkDriver, TLAPS, WellFoundedInduction

-----------------------------------------------------------------------------
(* Types.                                                                   *)

Bits == Pins \cup {"EN", "IRQEN", "SELEXTCLK", "SELEXTEN", "TXEN", "RXEN",
                   "timer", "tx", "rx", "GP1.5"}

\* The accesses of a handler that take nothing from a port.
Looks == [op : {"set", "clr", "read"}, reg : GpioRegs \cup {"INTSTATUS"}, val : SUBSET Bits]
         \cup [op : {"readnum"}, reg : {"VALUE"}, val : {{}}]
         \cup [op : {"masked"}, reg : {"DATAOUT"}, mask : SUBSET Bits, val : SUBSET Bits]
         \cup [op : {"flags", "clrflags", "rxfull"}, reg : Ports, val : {{}}]
\* What the GPIO calls for the pins in own are made of.
PinAccesses(own) ==
    [op : {"set", "clr"}, reg : GpioRegs \cup {"INTSTATUS"}, val : SUBSET own]
    \cup [op : {"read"}, reg : GpioRegs \cup {"INTSTATUS"}, val : {{}}]
    \cup [op : {"masked"}, reg : {"DATAOUT"}, mask : SUBSET own, val : SUBSET own]
\* Those of the program that send nothing.
Quiet == Looks
         \cup [op : {"write", "read", "or", "and", "set"}, reg : SetRegs, val : SUBSET Bits]
         \cup [op : {"num"}, reg : NumRegs \cup {"VALUE"}, num : Nat]
         \cup [op : {"readnum"}, reg : NumRegs, val : {{}}]
         \cup [op : {"chartime", "txfull", "waittx"}, reg : Ports, val : {{}}]
Accesses == Quiet \cup [op : {"waitrx", "take", "waitany", "getc"}, reg : Ports, val : {{}}]
                  \cup [op : {"data", "putc"}, reg : Ports, chr : Chars]

HwType == [value : Nat, ints : SUBSET Bits, tx : [Ports -> Seq(Chars)],
           rx : [Ports -> Seq(Chars)], over : SUBSET (Ports \X {"TXOR", "RXOR"})]
LogType == [wire : [Ports -> Seq(Chars)], sent : [Ports -> Seq(Chars)],
            came : [Ports -> Seq(Chars)], got : [Ports -> Seq(Chars)], cleared : SUBSET Ports]

Typed ==
    /\ dev \in {"timer", "uart", "gpio"}
    /\ reg = [r \in SetRegs \cup NumRegs |-> reg[r]]
    /\ \A r \in SetRegs : reg[r] \in SUBSET Bits
    /\ \A r \in NumRegs : reg[r] \in Nat
    /\ hw \in HwType
    /\ todo \in [Threads -> Seq(Accesses)]
    /\ tmp \in [Threads -> SUBSET Bits]
    /\ base = [outcomes |-> base.outcomes, body |-> base.body]
    /\ log \in LogType

-----------------------------------------------------------------------------
(* What is left of a call.                                                  *)

\* The program sends after it has seen room: the port's buffer stays empty, or
\* its transmitter is off.
Room(p) == "TXEN" \in reg[CtrlOf(p)] => hw.tx[p] = <<>>
Sending ==
    \/ todo["main"] \in Seq(Quiet)
    \/ \E c \in Chars : todo["main"] = UartPutc(c)
    \/ \E p \in Ports, c \in Chars : \/ todo["main"] = CMSDK_uart_SendChar(p, c)
                                     \/ todo["main"] = <<SendTo(p, c)>> /\ Room(p)
    \/ /\ "TXEN" \notin reg["USRT2_CTRL"]
       /\ \E c \in Chars :
            \/ todo["main"] = <<Acc("waittx", "UART2", {}), SendTo("UART2", c),
                                SendTo("USRT2", c)>>
            \/ todo["main"] = <<SendTo("UART2", c), SendTo("USRT2", c)>> /\ Room("UART2")

\* The handler takes a character after it has seen one.
Taking ==
    \/ todo["isr"] \in Seq(Looks)
    \/ \E p \in Ports : \/ todo["isr"] = CMSDK_uart_ReceiveChar(p)
                        \/ todo["isr"] = <<Acc("take", p, {})>> /\ hw.rx[p] # <<>>
    \/ todo["isr"] = UartGetc
    \/ todo["isr"] = <<Acc("getc", "UART2", {})>> /\ \E p \in Ports : hw.rx[p] # <<>>

\* A timer being set up stands still from the first write on.
Sources == {{}, {"SELEXTCLK"}, {"SELEXTEN"}}
SettingUp(v, i, s) ==
    LET init == Timer_Init(v, i, s)
    IN  \/ todo["main"] = init
        \/ /\ reg["CTRL"] = {}
           /\ \/ todo["main"] = <<init[2], init[3], init[4]>>
              \/ /\ hw.value = v
                 /\ \/ todo["main"] = <<init[3], init[4]>>
                    \/ todo["main"] = <<init[4]>> /\ reg["RELOAD"] = v
Starting == \A v \in Reloads, i \in BOOLEAN, s \in Sources :
                base.body = Timer_Init(v, i, s) => SettingUp(v, i, s)

Inv == Typed /\ Sending /\ Taking /\ Starting /\ SentInOrder /\ LossIsFlagged

\* A call loses its first access.
LEMMA Cut ==
  ASSUME NEW S, NEW s \in Seq(S), s # <<>>
  PROVE  Head(s) \in S /\ Tail(s) \in Seq(S)
OBVIOUS

\* A write of a register keeps the types and touches that register only.
LEMMA WrittenTyped ==
  ASSUME Typed, NEW t \in Threads, NEW a \in Quiet, a.reg \in SetRegs \cup NumRegs
  PROVE  LET R == Written(reg, tmp[t], a)
         IN  /\ R = [r \in SetRegs \cup NumRegs |-> R[r]]
             /\ \A r \in SetRegs : R[r] \in SUBSET Bits
             /\ \A r \in NumRegs : R[r] \in Nat
             /\ \A r \in SetRegs \cup NumRegs : r # a.reg => R[r] = reg[r]
<1> DEFINE R == Written(reg, tmp[t], a)
<1> USE DEF Typed
<1>1. CASE a.op = "num"
  <2>1. a.reg \in NumRegs /\ a.num \in Nat
    BY <1>1 DEF Quiet, Looks, Ports, SetRegs, NumRegs, GpioRegs
  <2>2. R = [reg EXCEPT ![a.reg] = a.num]
    BY <1>1 DEF Written
  <2> QED
    BY <2>1, <2>2 DEF SetRegs, NumRegs, GpioRegs
<1>2. CASE a.op \in {"read", "readnum"}
  <2>1. R = reg
    BY <1>2 DEF Written
  <2> QED
    BY <2>1
<1>3. CASE a.op \notin {"num", "read", "readnum"}
  <2>1. /\ a.reg \in SetRegs /\ a.val \in SUBSET Bits
        /\ a.op = "masked" => a.mask \in SUBSET Bits
        /\ a.op \in {"write", "set", "clr", "or", "and", "masked"}
    BY <1>3 DEF Quiet, Looks, Ports, SetRegs, NumRegs, GpioRegs
  <2>2. \E v \in SUBSET Bits : R = [reg EXCEPT ![a.reg] = v]
    <3>1. tmp[t] \in SUBSET Bits /\ reg[a.reg] \in SUBSET Bits
      BY <2>1
    <3>2. CASE a.op = "write"
      BY <2>1, <3>2 DEF Written
    <3>3. CASE a.op = "set"
      BY <2>1, <3>1, <3>3 DEF Written
    <3>4. CASE a.op = "clr"
      BY <2>1, <3>1, <3>4 DEF Written
    <3>5. CASE a.op = "or"
      BY <2>1, <3>1, <3>5 DEF Written
    <3>6. CASE a.op = "and"
      BY <2>1, <3>1, <3>6 DEF Written
    <3>7. CASE a.op = "masked"
      BY <2>1, <3>1, <3>7 DEF Written
    <3> QED
      BY <2>1, <3>2, <3>3, <3>4, <3>5, <3>6, <3>7
  <2> QED
    BY <2>1, <2>2 DEF SetRegs, NumRegs, GpioRegs
<1> QED
  BY <1>1, <1>2, <1>3

-----------------------------------------------------------------------------
(* The bodies of the calls.                                                 *)

LEMMA Short ==
  ASSUME NEW S, NEW a \in S, NEW b \in S
  PROVE  <<a>> \in Seq(S) /\ <<a, b>> \in Seq(S)
OBVIOUS

LEMMA Long ==
  ASSUME NEW S, NEW a \in S, NEW b \in S, NEW c \in S, NEW d \in S, NEW e \in S, NEW f \in S
  PROVE  /\ <<a, b, c, d>> \in Seq(S) /\ <<a, b, c, d, e>> \in Seq(S)
         /\ <<a, b, c, d, e, f>> \in Seq(S)
OBVIOUS

\* The accesses the handlers are made of.
LEMMA LookAccesses ==
  /\ \A r \in GpioRegs \cup {"INTSTATUS"} : Read(r) \in Looks
  /\ \A r \in GpioRegs \cup {"INTSTATUS"}, v \in SUBSET Bits :
        SetBits(r, v) \in Looks /\ ClrBits(r, v) \in Looks
  /\ ReadNum("VALUE") \in Looks
  /\ \A m \in SUBSET Bits, v \in SUBSET Bits : Masked(m, v) \in Looks
  /\ \A p \in Ports, op \in {"flags", "clrflags", "rxfull"} : Acc(op, p, {}) \in Looks
BY DEF Read, SetBits, ClrBits, ReadNum, Masked, Acc, Looks

\* GPIO calls touch their own pins, and never a port or a CTRL register.
LEMMA GpioBody ==
  ASSUME NEW own \in SUBSET Pins, NEW b \in GpioCalls(own)
  PROVE  b \in Seq(PinAccesses(own)) /\ b \in Seq(Looks)
<1> DEFINE R == GpioRegs \cup {"INTSTATUS"}
           P == PinAccesses(own)
<1>0. SUFFICES b \in Seq(P)
  <2>1. P \subseteq Looks
    BY DEF PinAccesses, Looks, Bits
  <2> QED
    BY <2>1
<1>1. \A n \in own : {n} \in SUBSET own
  OBVIOUS
<1>2. {"OUTENABLE", "ALTFUNC", "INTEN", "INTTYPE", "INTPOL", "INTSTATUS"} \subseteq R
  BY DEF GpioRegs
<1>3. \/ \E r \in R : b \in {<<SetBits(r, own)>>, <<ClrBits(r, own)>>, <<Read(r)>>}
      \/ \E n \in own, r \in R, q \in R :
           b \in {<<ClrBits(r, {n}), Read(q)>>, <<SetBits(r, {n}), Read(q)>>,
                  <<ClrBits(r, {n}), SetBits(q, {n})>>, <<SetBits(r, {n}), SetBits(q, {n})>>,
                  <<ClrBits(r, {n}), ClrBits(q, {n})>>, <<SetBits(r, {n}), ClrBits(q, {n})>>}
      \/ \E v \in SUBSET own : b = <<Masked(own \cap Lower, v), Masked(own \cap Upper, v)>>
  <2>1. CASE b \in {CMSDK_gpio_SetOutEnable(own), CMSDK_gpio_ClrOutEnable(own),
                    CMSDK_gpio_GetOutEnable, CMSDK_gpio_SetAltFunc(own),
                    CMSDK_gpio_ClrAltFunc(own), CMSDK_gpio_GetAltFunc}
    BY <2>1, <1>2 DEF CMSDK_gpio_SetOutEnable, CMSDK_gpio_ClrOutEnable,
       CMSDK_gpio_GetOutEnable, CMSDK_gpio_SetAltFunc, CMSDK_gpio_ClrAltFunc,
       CMSDK_gpio_GetAltFunc
  <2>2. ASSUME NEW n \in own,
               b \in {CMSDK_gpio_IntClear(n), CMSDK_gpio_SetIntEnable(n),
                      CMSDK_gpio_ClrIntEnable(n), CMSDK_gpio_SetIntHighLevel(n),
                      CMSDK_gpio_SetIntRisingEdge(n), CMSDK_gpio_SetIntLowLevel(n),
                      CMSDK_gpio_SetIntFallingEdge(n)}
        PROVE  \E r \in R, q \in R :
           b \in {<<ClrBits(r, {n}), Read(q)>>, <<SetBits(r, {n}), Read(q)>>,
                  <<ClrBits(r, {n}), SetBits(q, {n})>>, <<SetBits(r, {n}), SetBits(q, {n})>>,
                  <<ClrBits(r, {n}), ClrBits(q, {n})>>, <<SetBits(r, {n}), ClrBits(q, {n})>>}
    BY <2>2, <1>2 DEF CMSDK_gpio_IntClear, CMSDK_gpio_SetIntEnable,
       CMSDK_gpio_ClrIntEnable, CMSDK_gpio_SetIntHighLevel, CMSDK_gpio_SetIntRisingEdge,
       CMSDK_gpio_SetIntLowLevel, CMSDK_gpio_SetIntFallingEdge
  <2>3. ASSUME NEW v \in SUBSET own, b = CMSDK_gpio_MaskedWrite(v, own)
        PROVE  b = <<Masked(own \cap Lower, v), Masked(own \cap Upper, v)>>
    BY <2>3 DEF CMSDK_gpio_MaskedWrite
  <2> QED
    BY <2>1, <2>2, <2>3 DEF GpioCalls
<1>4. \A v \in SUBSET own : Masked(own \cap Lower, v) \in P /\ Masked(own \cap Upper, v) \in P
  BY DEF Masked, PinAccesses
<1>5. \A r \in R : /\ Read(r) \in P
                    /\ \A v \in SUBSET own : SetBits(r, v) \in P /\ ClrBits(r, v) \in P
  BY DEF Read, SetBits, ClrBits, Acc, PinAccesses
<1>6. CASE \E r \in R : b \in {<<SetBits(r, own)>>, <<ClrBits(r, own)>>, <<Read(r)>>}
  BY <1>1, <1>5, <1>6, Short
<1>7. CASE \E n \in own, r \in R, q \in R :
           b \in {<<ClrBits(r, {n}), Read(q)>>, <<SetBits(r, {n}), Read(q)>>,
                  <<ClrBits(r, {n}), SetBits(q, {n})>>, <<SetBits(r, {n}), SetBits(q, {n})>>,
                  <<ClrBits(r, {n}), ClrBits(q, {n})>>, <<SetBits(r, {n}), ClrBits(q, {n})>>}
  <2>1. PICK n \in own, r \in R, q \in R :
           b \in {<<ClrBits(r, {n}), Read(q)>>, <<SetBits(r, {n}), Read(q)>>,
                  <<ClrBits(r, {n}), SetBits(q, {n})>>, <<SetBits(r, {n}), SetBits(q, {n})>>,
                  <<ClrBits(r, {n}), ClrBits(q, {n})>>, <<SetBits(r, {n}), ClrBits(q, {n})>>}
    BY <1>7
  <2>2. /\ {n} \in SUBSET own /\ Read(q) \in P
        /\ SetBits(r, {n}) \in P /\ ClrBits(r, {n}) \in P
        /\ SetBits(q, {n}) \in P /\ ClrBits(q, {n}) \in P
    BY <1>1, <1>5
  <2>3. \A x \in P, y \in P : <<x, y>> \in Seq(P)
    BY Short
  <2> QED
    BY <2>1, <2>2, <2>3
<1>8. CASE \E v \in SUBSET own : b = <<Masked(own \cap Lower, v), Masked(own \cap Upper, v)>>
  BY <1>4, <1>8, Short
<1> QED
  BY <1>3, <1>6, <1>7, <1>8

\* The handler looks, or takes a character.
LEMMA IsrBody ==
  ASSUME Typed, NEW b \in CallsOf("isr")
  PROVE  b \in Seq(Looks) \/ b = UartGetc \/ \E p \in Ports : b = CMSDK_uart_ReceiveChar(p)
<1>1. CASE dev = "timer"
  <2>1. b \in TimerIsrCalls
    BY <1>1 DEF CallsOf
  <2>2. {"timer"} \in SUBSET Bits
    BY DEF Bits
  <2>3. b \in {<<ClrBits("INTSTATUS", {"timer"})>>, <<Read("INTSTATUS")>>, <<ReadNum("VALUE")>>}
    BY <2>1 DEF TimerIsrCalls, CMSDK_timer_ClearIRQ, CMSDK_timer_StatusIRQ,
       CMSDK_timer_GetValue
  <2> QED
    BY <2>2, <2>3, LookAccesses, Short
<1>2. CASE dev = "uart"
  <2>1. b \in UartIsrCalls
    BY <1>2 DEF CallsOf
  <2>2. {"rx"} \in SUBSET Bits
    BY DEF Bits
  <2>3. \/ b = UartGetc \/ \E p \in Ports : b = CMSDK_uart_ReceiveChar(p)
        \/ b \in {<<ClrBits("INTSTATUS", {"rx"})>>, <<Read("INTSTATUS")>>}
        \/ \E p \in Ports : b \in {<<Acc("flags", p, {})>>, <<Acc("rxfull", p, {})>>,
                                   <<Acc("clrflags", p, {}), Acc("flags", p, {})>>}
    BY <2>1 DEF UartIsrCalls, CMSDK_uart_GetOverrunStatus, CMSDK_uart_ClearOverrunStatus,
       CMSDK_uart_GetRxBufferFull, CMSDK_uart_ClearRxIRQ, CMSDK_uart_GetRxIRQStatus
  <2> QED
    BY <2>2, <2>3, LookAccesses, Short
<1>3. CASE dev = "gpio"
  <2>1. b \in GpioCalls(IsrPins)
    BY <1>3 DEF CallsOf
  <2>2. IsrPins \subseteq Pins
    BY DriverAssumption
  <2> QED
    BY <2>1, <2>2, GpioBody
<1> QED
  BY <1>1, <1>2, <1>3 DEF Typed

\* The accesses the program's calls are made of.
LEMMA QuietAccesses ==
  /\ Looks \subseteq Quiet /\ Quiet \subseteq Accesses
  /\ \A r \in SetRegs : Read(r) \in Quiet
  /\ \A r \in SetRegs, v \in SUBSET Bits :
        Write(r, v) \in Quiet /\ WriteOr(r, v) \in Quiet /\ WriteAnd(r, v) \in Quiet
        /\ SetBits(r, v) \in Quiet
  /\ \A r \in NumRegs \cup {"VALUE"}, n \in Nat : WriteNum(r, n) \in Quiet
  /\ \A r \in NumRegs : ReadNum(r) \in Quiet
  /\ \A p \in Ports, op \in {"chartime", "txfull", "waittx"} : Acc(op, p, {}) \in Quiet
<1>1. Looks \subseteq Quiet /\ Quiet \subseteq Accesses
  BY DEF Quiet, Accesses
<1> QED
  BY <1>1 DEF Read, Write, WriteOr, WriteAnd, SetBits, WriteNum, ReadNum, Acc, Quiet

\* What the program's timer and serial calls are.
LEMMA TimerBody ==
  ASSUME NEW b \in TimerMainCalls
  PROVE  \/ \E v \in {{"IRQEN"}, {"EN"}} :
             b \in {<<Read("CTRL"), WriteOr("CTRL", v)>>, <<Read("CTRL"), WriteAnd("CTRL", v)>>}
         \/ b = <<ReadNum("RELOAD")>>
         \/ \E v \in Reloads : b \in {<<WriteNum("RELOAD", v)>>, <<WriteNum("VALUE", v)>>}
         \/ \E v \in Reloads, i \in BOOLEAN, s \in Sources : b = Timer_Init(v, i, s)
BY DEF TimerMainCalls, CMSDK_timer_EnableIRQ, CMSDK_timer_DisableIRQ,
   CMSDK_timer_StartTimer, CMSDK_timer_StopTimer, CMSDK_timer_GetReload,
   CMSDK_timer_SetReload, CMSDK_timer_SetValue, CMSDK_timer_Init_IntClock,
   CMSDK_timer_Init_ExtClock, CMSDK_timer_Init_ExtEnable, Sources

LEMMA UartBody ==
  ASSUME NEW b \in UartMainCalls
  PROVE  \/ \E p \in Ports, t \in BOOLEAN, r \in BOOLEAN : b = CMSDK_uart_init(p, 1, t, r)
         \/ \E p \in Ports, c \in Chars : b = CMSDK_uart_SendChar(p, c)
         \/ \E p \in Ports : b \in {<<Acc("txfull", p, {})>>, <<ReadNum(BaudOf(p))>>,
                                    <<ClrBits("INTSTATUS", {"tx"})>>}
         \/ \E c \in Chars : b = UartPutc(c)
         \/ b \in {<<Read("INTSTATUS")>>, UartStdOutInit, Uart2StdOutInit}
BY DEF UartMainCalls, CMSDK_uart_GetTxBufferFull, CMSDK_uart_GetBaudDivider,
   CMSDK_uart_ClearTxIRQ, CMSDK_uart_GetTxIRQStatus

\* The program's calls send nothing, but for SendChar and UartPutc.
LEMMA MainBody ==
  ASSUME Typed, NEW b \in CallsOf("main")
  PROVE  \/ b \in Seq(Quiet)
         \/ \E c \in Chars : b = UartPutc(c)
         \/ \E p \in Ports, c \in Chars : b = CMSDK_uart_SendChar(p, c)
<1>0. /\ {"CTRL", "UART2_CTRL", "USRT2_CTRL", "ALTFUNC"} \subseteq SetRegs
      /\ {"RELOAD", "UART2_BAUDDIV", "USRT2_BAUDDIV"} = NumRegs
      /\ \A p \in Ports : CtrlOf(p) \in SetRegs /\ BaudOf(p) \in NumRegs
      /\ {"UART2", "USRT2"} = Ports
  BY DEF SetRegs, NumRegs, GpioRegs, Ports, CtrlOf, BaudOf
<1>1. CASE dev = "timer"
  <2>1. b \in TimerMainCalls
    BY <1>1 DEF CallsOf
  <2>2. \/ \E v \in {{"IRQEN"}, {"EN"}} :
             b \in {<<Read("CTRL"), WriteOr("CTRL", v)>>, <<Read("CTRL"), WriteAnd("CTRL", v)>>}
        \/ b = <<ReadNum("RELOAD")>>
        \/ \E v \in Reloads : b \in {<<WriteNum("RELOAD", v)>>, <<WriteNum("VALUE", v)>>}
        \/ \E v \in Reloads, i \in BOOLEAN, s \in Sources : b = Timer_Init(v, i, s)
    BY <2>1, TimerBody
  <2>3. Reloads \subseteq Nat
    BY DriverAssumption
  <2>4. ASSUME NEW v \in Reloads, NEW i \in BOOLEAN, NEW s \in Sources
        PROVE  Timer_Init(v, i, s) \in Seq(Quiet)
    <3>1. /\ {} \in SUBSET Bits
          /\ {"EN"} \cup s \cup (IF i THEN {"IRQEN"} ELSE {}) \in SUBSET Bits
      BY DEF Sources, Bits
    <3> QED
      BY <3>1, <2>3, <1>0, QuietAccesses, Long DEF Timer_Init
  <2>5. {"IRQEN"} \in SUBSET Bits /\ {"EN"} \in SUBSET Bits
    BY DEF Bits
  <2>6. \A v \in {{"IRQEN"}, {"EN"}} :
          /\ <<Read("CTRL"), WriteOr("CTRL", v)>> \in Seq(Quiet)
          /\ <<Read("CTRL"), WriteAnd("CTRL", v)>> \in Seq(Quiet)
    BY <2>5, <1>0, QuietAccesses, Short
  <2>7. <<ReadNum("RELOAD")>> \in Seq(Quiet)
    BY <1>0, QuietAccesses, Short
  <2>8. \A v \in Reloads : /\ <<WriteNum("RELOAD", v)>> \in Seq(Quiet)
                           /\ <<WriteNum("VALUE", v)>> \in Seq(Quiet)
    BY <2>3, <1>0, QuietAccesses, Short
  <2> QED
    BY <2>2, <2>4, <2>6, <2>7, <2>8
<1>2. CASE dev = "uart"
  <2>1. b \in UartMainCalls
    BY <1>2 DEF CallsOf
  <2>2. \/ \E p \in Ports, t \in BOOLEAN, r \in BOOLEAN : b = CMSDK_uart_init(p, 1, t, r)
        \/ \E p \in Ports, c \in Chars : b = CMSDK_uart_SendChar(p, c)
        \/ \E p \in Ports : b \in {<<Acc("txfull", p, {})>>, <<ReadNum(BaudOf(p))>>,
                                   <<ClrBits("INTSTATUS", {"tx"})>>}
        \/ \E c \in Chars : b = UartPutc(c)
        \/ b \in {<<Read("INTSTATUS")>>, UartStdOutInit, Uart2StdOutInit}
    BY <2>1, UartBody
  <2>3. /\ {} \in SUBSET Bits /\ {"TXEN"} \in SUBSET Bits /\ {"TXEN", "RXEN"} \in SUBSET Bits
        /\ {"GP1.5"} \in SUBSET Bits /\ {"tx"} \in SUBSET Bits
        /\ \A t \in BOOLEAN, r \in BOOLEAN : UartCtrl(t, r) \in SUBSET Bits
    BY DEF Bits, UartCtrl
  <2>4. ASSUME NEW p \in Ports, NEW t \in BOOLEAN, NEW r \in BOOLEAN
        PROVE  CMSDK_uart_init(p, 1, t, r) \in Seq(Quiet)
    <3>1. Acc("flags", p, {}) \in Quiet
      BY QuietAccesses, LookAccesses
    <3> QED
      BY <3>1, <2>3, <1>0, QuietAccesses, Long DEF CMSDK_uart_init
  <2>5. UartStdOutInit \in Seq(Quiet)
    BY <2>3, <1>0, QuietAccesses, Long DEF UartStdOutInit
  <2>6. Uart2StdOutInit \in Seq(Quiet)
    BY <2>3, <1>0, QuietAccesses, Long DEF Uart2StdOutInit
  <2>7. <<Read("INTSTATUS")>> \in Seq(Quiet) /\ <<ClrBits("INTSTATUS", {"tx"})>> \in Seq(Quiet)
    BY <2>3, LookAccesses, QuietAccesses, Short
  <2>8. ASSUME NEW p \in Ports
        PROVE  <<Acc("txfull", p, {})>> \in Seq(Quiet) /\ <<ReadNum(BaudOf(p))>> \in Seq(Quiet)
    BY <1>0, QuietAccesses, Short
  <2> QED
    BY <2>2, <2>4, <2>5, <2>6, <2>7, <2>8
<1>3. CASE dev = "gpio"
  <2>1. b \in GpioCalls(MainPins)
    BY <1>3 DEF CallsOf
  <2>2. MainPins \subseteq Pins
    BY DriverAssumption
  <2>3. b \in Seq(Looks)
    BY <2>1, <2>2, GpioBody
  <2> QED
    BY <2>3, QuietAccesses
<1> QED
  BY <1>1, <1>2, <1>3 DEF Typed

LEMMA MainBodyAccesses ==
  ASSUME Typed, NEW b \in CallsOf("main")
  PROVE  b \in Seq(Accesses)
<1>1. \A c \in Chars : UartPutc(c) \in Seq(Accesses)
  <2>1. \A c \in Chars : [op |-> "putc", reg |-> "USRT2", chr |-> c] \in Accesses
    BY DEF Accesses, Ports
  <2> QED
    BY <2>1, Short DEF UartPutc
<1>2. \A p \in Ports, c \in Chars : CMSDK_uart_SendChar(p, c) \in Seq(Accesses)
  <2>1. \A p \in Ports, c \in Chars : Acc("waittx", p, {}) \in Accesses /\ SendTo(p, c) \in Accesses
    BY DEF Accesses, Quiet, Acc, SendTo
  <2> QED
    BY <2>1, Short DEF CMSDK_uart_SendChar
<1>3. b \in Seq(Quiet) => b \in Seq(Accesses)
  BY QuietAccesses
<1> QED
  BY MainBody, <1>1, <1>2, <1>3

LEMMA IsrBodyAccesses ==
  ASSUME Typed, NEW b \in CallsOf("isr")
  PROVE  b \in Seq(Accesses)
<1>1. UartGetc \in Seq(Accesses)
  <2>1. Acc("waitany", "UART2", {}) \in Accesses /\ Acc("getc", "UART2", {}) \in Accesses
    BY DEF Accesses, Acc, Ports
  <2> QED
    BY <2>1, Short DEF UartGetc
<1>2. \A p \in Ports : CMSDK_uart_ReceiveChar(p) \in Seq(Accesses)
  <2>1. \A p \in Ports : Acc("waitrx", p, {}) \in Accesses /\ Acc("take", p, {}) \in Accesses
    BY DEF Accesses, Acc
  <2> QED
    BY <2>1, Short DEF CMSDK_uart_ReceiveChar
<1>3. Looks \subseteq Accesses
  BY QuietAccesses
<1>4. b \in Seq(Looks) => b \in Seq(Accesses)
  BY <1>3
<1> QED
  BY IsrBody, <1>1, <1>2, <1>4

-----------------------------------------------------------------------------
(* The steps.                                                               *)

\* What an access leaves of the calls.
LEMMA GoesOn ==
  ASSUME Typed, NEW t \in Threads, Runs(t), Goes(t, Tail(todo[t]))
  PROVE  /\ todo[t] \in Seq(Accesses) /\ todo[t] # <<>> /\ Head(todo[t]) \in Accesses
         /\ todo' \in [Threads -> Seq(Accesses)]
         /\ todo'[t] = Tail(todo[t])
         /\ \A u \in Threads \ {t} : todo'[u] = todo[u]
         /\ base' = [outcomes |-> base'.outcomes, body |-> base'.body]
         /\ base'.body \in {base.body, <<>>}
         /\ t = "main" /\ Tail(todo[t]) # <<>> => base'.body = base.body
         /\ t = "isr" => base' = base
         /\ dev' = dev
<1>1. todo[t] \in Seq(Accesses) /\ todo[t] # <<>>
  BY DEF Typed, Runs
<1>2. Head(todo[t]) \in Accesses /\ Tail(todo[t]) \in Seq(Accesses)
  BY <1>1, Cut
<1>3. todo' = [todo EXCEPT ![t] = Tail(todo[t])] /\ dev' = dev
  BY DEF Goes
<1>4. base' = IF t = "main" /\ Tail(todo[t]) = <<>> THEN NoBase ELSE base
  BY DEF Goes
<1>5. base' = [outcomes |-> base'.outcomes, body |-> base'.body] /\ base'.body \in {base.body, <<>>}
  BY <1>4 DEF Typed, NoBase
<1> QED
  BY <1>1, <1>2, <1>3, <1>4, <1>5 DEF Typed

\* A step of the handler leaves a timer that is being set up alone.
LEMMA StartingKept ==
  ASSUME Starting, base'.body = base.body, todo'["main"] = todo["main"],
         reg'["CTRL"] = reg["CTRL"], reg'["RELOAD"] = reg["RELOAD"], hw'.value = hw.value
  PROVE  Starting'
BY DEF Starting, SettingUp

\* An access elsewhere than at a port is one of a call that sends nothing.
LEMMA Quieted ==
  ASSUME Typed, Sending, todo["main"] # <<>>,
         Head(todo["main"]).reg \notin Ports
  PROVE  todo["main"] \in Seq(Quiet)
<1>1. /\ \A c : Head(UartPutc(c)).reg \in Ports
      /\ \A p, c : Head(CMSDK_uart_SendChar(p, c)).reg = p
      /\ \A p, c : Head(<<SendTo(p, c)>>).reg = p
      /\ \A c : Head(<<Acc("waittx", "UART2", {}), SendTo("UART2", c), SendTo("USRT2", c)>>).reg \in Ports
      /\ \A c : Head(<<SendTo("UART2", c), SendTo("USRT2", c)>>).reg \in Ports
  BY DEF UartPutc, CMSDK_uart_SendChar, SendTo, Acc, Ports
<1> QED
  BY <1>1 DEF Sending

\* The same of the handler.
LEMMA Looking ==
  ASSUME Typed, Taking, todo["isr"] # <<>>,
         Head(todo["isr"]).reg \notin Ports
  PROVE  todo["isr"] \in Seq(Looks)
<1>1. /\ \A p : Head(CMSDK_uart_ReceiveChar(p)).reg = p
      /\ \A p : Head(<<Acc("take", p, {})>>).reg = p
      /\ Head(UartGetc).reg \in Ports
      /\ Head(<<Acc("getc", "UART2", {})>>).reg \in Ports
  BY DEF CMSDK_uart_ReceiveChar, UartGetc, Acc, Ports
<1> QED
  BY <1>1 DEF Taking

\* Which register is whose.
LEMMA Places ==
  /\ Ports \cap (SetRegs \cup NumRegs) = {} /\ Ports \cap {"VALUE", "INTSTATUS"} = {}
  /\ {"CTRL", "UART2_CTRL", "USRT2_CTRL"} \subseteq SetRegs \ GpioRegs
  /\ {"VALUE", "INTSTATUS"} \cap (SetRegs \cup NumRegs) = {}
  /\ "RELOAD" \in NumRegs /\ GpioRegs \subseteq SetRegs /\ SetRegs \cap NumRegs = {}
  /\ \A p \in Ports : CtrlOf(p) \in {"UART2_CTRL", "USRT2_CTRL"}
BY DEF Ports, SetRegs, NumRegs, GpioRegs, CtrlOf

\* RegisterAccess, of either thread.
LEMMA RegisterAccessMain ==
  ASSUME Inv, RegisterAccess("main")
  PROVE  Inv'
<1> DEFINE a == Head(todo["main"])
<1> USE DEF Inv
<1>1. /\ Runs("main") /\ a.reg \in SetRegs \cup NumRegs /\ "main" \in Threads
      /\ reg' = Written(reg, tmp["main"], a)
      /\ tmp' = [tmp EXCEPT !["main"] = IF Len(todo["main"]) = 1 THEN {}
                                        ELSE IF a.op = "read" THEN reg[a.reg] ELSE @]
      /\ Goes("main", Tail(todo["main"])) /\ UNCHANGED <<hw, log>>
  BY DEF RegisterAccess, Typed, Threads
<1>2. todo["main"] \in Seq(Quiet) /\ todo["main"] # <<>>
  BY <1>1, Quieted, Places DEF Runs
<1>3. a \in Quiet /\ Tail(todo["main"]) \in Seq(Quiet)
  BY <1>2, Cut
<1>4. todo'["main"] = Tail(todo["main"]) /\ todo'["isr"] = todo["isr"]
  BY <1>1, GoesOn DEF Threads
<1>5. Typed'
  <2>1. a.op = "read" => reg[a.reg] \in SUBSET Bits
    BY <1>1, <1>3, Places DEF Typed, Quiet, Looks
  <2>2. tmp' \in [Threads -> SUBSET Bits]
    BY <1>1, <2>1 DEF Typed
  <2>3. /\ reg' = [r \in SetRegs \cup NumRegs |-> reg'[r]]
        /\ \A r \in SetRegs : reg'[r] \in SUBSET Bits
        /\ \A r \in NumRegs : reg'[r] \in Nat
    BY <1>1, <1>3, WrittenTyped
  <2>4. /\ todo' \in [Threads -> Seq(Accesses)] /\ dev' = dev
        /\ base' = [outcomes |-> base'.outcomes, body |-> base'.body]
    BY <1>1, GoesOn
  <2> QED
    BY <1>1, <2>2, <2>3, <2>4 DEF Typed
<1>6. Sending'
  BY <1>3, <1>4 DEF Sending
<1>7. Taking'
  BY <1>1, <1>4 DEF Taking
<1>8. SentInOrder' /\ LossIsFlagged'
  BY <1>1 DEF SentInOrder, LossIsFlagged
<1>9. Starting'
  <2> SUFFICES ASSUME NEW v \in Reloads, NEW i \in BOOLEAN, NEW s \in Sources,
                      base'.body = Timer_Init(v, i, s)
               PROVE  SettingUp(v, i, s)'
    BY DEF Starting
  <2> DEFINE init == Timer_Init(v, i, s)
  <2>1. init = <<init[1], init[2], init[3], init[4]>>
    BY DEF Timer_Init
  <2>2. /\ init[1] = Write("CTRL", {}) /\ init[2] = WriteNum("VALUE", v)
        /\ init[3] = WriteNum("RELOAD", v) /\ init[4].reg = "CTRL"
    BY DEF Timer_Init, Write, Acc
  <2>3. SettingUp(v, i, s)
    <3>1. base'.body \in {base.body, <<>>}
      BY <1>1, GoesOn
    <3>2. Timer_Init(v, i, s) # <<>>
      BY DEF Timer_Init
    <3> QED
      BY <3>1, <3>2 DEF Starting
  <2>4. CASE todo["main"] = init
    <3>1. a.op = "write" /\ a.reg = "CTRL" /\ a.val = {}
      BY <2>1, <2>2, <2>4 DEF Write, Acc
    <3>3. reg' = [reg EXCEPT !["CTRL"] = {}]
      BY <1>1, <3>1 DEF Written
    <3>2. reg'["CTRL"] = {}
      BY <3>3, Places DEF Typed
    <3>4. todo'["main"] = <<init[2], init[3], init[4]>>
      <4> HIDE DEF init
      <4>1. Tail(<<init[1], init[2], init[3], init[4]>>) = <<init[2], init[3], init[4]>>
        OBVIOUS
      <4>2. todo["main"] = <<init[1], init[2], init[3], init[4]>>
        BY <2>1, <2>4
      <4> QED
        BY <4>1, <4>2, <1>4
    <3> QED
      BY <3>2, <3>4 DEF SettingUp
  <2>5. CASE todo["main"] = <<init[2], init[3], init[4]>>
    BY <1>1, <2>2, <2>5, Places DEF WriteNum
  <2>6. CASE todo["main"] = <<init[3], init[4]>> /\ hw.value = v /\ reg["CTRL"] = {}
    <3>1. a.op = "num" /\ a.reg = "RELOAD" /\ a.num = v
      BY <2>2, <2>6 DEF WriteNum
    <3>2. reg' = [reg EXCEPT !["RELOAD"] = v]
      BY <1>1, <3>1 DEF Written
    <3>3. reg'["CTRL"] = {} /\ reg'["RELOAD"] = v
      BY <3>2, <2>6, Places DEF Typed
    <3>4. todo'["main"] = <<init[4]>>
      BY <1>4, <2>6
    <3> QED
      BY <3>3, <3>4, <1>1, <2>6 DEF SettingUp
  <2>7. CASE todo["main"] = <<init[4]>>
    <3>1. base' = NoBase
      BY <1>1, <2>7 DEF Goes
    <3> QED
      BY <3>1, <2>1 DEF NoBase
  <2> QED
    BY <2>3, <2>4, <2>5, <2>6, <2>7 DEF SettingUp
<1> QED
  BY <1>5, <1>6, <1>7, <1>8, <1>9

LEMMA RegisterAccessIsr ==
  ASSUME Inv, RegisterAccess("isr")
  PROVE  Inv'
<1> DEFINE a == Head(todo["isr"])
<1> USE DEF Inv
<1>1. /\ Runs("isr") /\ a.reg \in SetRegs \cup NumRegs /\ "isr" \in Threads
      /\ reg' = Written(reg, tmp["isr"], a)
      /\ tmp' = [tmp EXCEPT !["isr"] = IF Len(todo["isr"]) = 1 THEN {}
                                       ELSE IF a.op = "read" THEN reg[a.reg] ELSE @]
      /\ Goes("isr", Tail(todo["isr"])) /\ UNCHANGED <<hw, log>>
  BY DEF RegisterAccess, Typed, Threads
<1>2. todo["isr"] \in Seq(Looks) /\ todo["isr"] # <<>>
  BY <1>1, Looking, Places DEF Runs
<1>3. a \in Looks /\ a \in Quiet /\ Tail(todo["isr"]) \in Seq(Looks)
  BY <1>2, Cut, QuietAccesses
<1>4. /\ todo'["isr"] = Tail(todo["isr"]) /\ todo'["main"] = todo["main"]
      /\ todo' \in [Threads -> Seq(Accesses)] /\ dev' = dev /\ base' = base
  BY <1>1, GoesOn DEF Threads
<1>5. a.reg \in GpioRegs
  BY <1>1, <1>3, Places DEF Looks, GpioRegs
<1>6. /\ reg' = [r \in SetRegs \cup NumRegs |-> reg'[r]]
      /\ \A r \in SetRegs : reg'[r] \in SUBSET Bits
      /\ \A r \in NumRegs : reg'[r] \in Nat
      /\ \A r \in SetRegs \cup NumRegs : r # a.reg => reg'[r] = reg[r]
  BY <1>1, <1>3, WrittenTyped
<1>7. /\ reg'["CTRL"] = reg["CTRL"] /\ reg'["RELOAD"] = reg["RELOAD"]
      /\ reg'["USRT2_CTRL"] = reg["USRT2_CTRL"] /\ reg'["UART2_CTRL"] = reg["UART2_CTRL"]
  BY <1>5, <1>6, Places
<1>8. Typed'
  <2>1. a.op = "read" => reg[a.reg] \in SUBSET Bits
    BY <1>5, Places DEF Typed
  <2>2. tmp' \in [Threads -> SUBSET Bits]
    BY <1>1, <2>1 DEF Typed
  <2> QED
    BY <1>1, <1>4, <1>6, <2>2 DEF Typed
<1>9. Sending'
  <2>1. \A p \in Ports : Room(p)' <=> Room(p)
    BY <1>1, <1>7, Places DEF Room
  <2> QED
    BY <1>4, <1>7, <2>1 DEF Sending, Ports
<1>10. Taking'
  BY <1>3, <1>4 DEF Taking
<1>11. Starting'
  BY <1>1, <1>4, <1>7, StartingKept
<1>12. SentInOrder' /\ LossIsFlagged'
  BY <1>1 DEF SentInOrder, LossIsFlagged
<1> QED
  BY <1>8, <1>9, <1>10, <1>11, <1>12

\* PeripheralAccess, of either thread.
LEMMA PeripheralAccessMain ==
  ASSUME Inv, PeripheralAccess("main")
  PROVE  Inv'
<1> DEFINE a == Head(todo["main"])
<1> USE DEF Inv
<1>1. /\ Runs("main") /\ a.reg \in {"VALUE", "INTSTATUS"} /\ "main" \in Threads
      /\ hw' = IF a.op = "num" THEN [hw EXCEPT !.value = a.num]
               ELSE IF a.op = "clr" THEN [hw EXCEPT !.ints = @ \ a.val]
               ELSE hw
      /\ Goes("main", Tail(todo["main"])) /\ UNCHANGED <<reg, tmp, log>>
  BY DEF PeripheralAccess, Threads
<1>2. todo["main"] \in Seq(Quiet) /\ todo["main"] # <<>>
  BY <1>1, Quieted, Places DEF Runs
<1>3. a \in Quiet /\ Tail(todo["main"]) \in Seq(Quiet)
  BY <1>2, Cut
<1>4. /\ todo'["main"] = Tail(todo["main"]) /\ todo'["isr"] = todo["isr"]
      /\ todo' \in [Threads -> Seq(Accesses)] /\ dev' = dev
      /\ base' = [outcomes |-> base'.outcomes, body |-> base'.body]
      /\ base'.body \in {base.body, <<>>}
  BY <1>1, GoesOn DEF Threads
<1>5. /\ hw' \in HwType
      /\ hw'.tx = hw.tx /\ hw'.rx = hw.rx /\ hw'.over = hw.over
      /\ a.op = "num" => hw'.value = a.num
      /\ a.op # "num" => hw'.value = hw.value
  <2>1. a.op = "num" => a.num \in Nat
    BY <1>3 DEF Quiet, Looks
  <2>2. hw.ints \ a.val \in SUBSET Bits
    BY DEF Typed, HwType
  <2> QED
    BY <1>1, <2>1, <2>2 DEF Typed, HwType
<1>6. Typed'
  BY <1>1, <1>4, <1>5 DEF Typed, HwType
<1>7. Sending'
  BY <1>3, <1>4 DEF Sending
<1>8. Taking'
  BY <1>4, <1>5 DEF Taking
<1>9. SentInOrder' /\ LossIsFlagged'
  BY <1>1, <1>5 DEF SentInOrder, LossIsFlagged
<1>10. Starting'
  <2> SUFFICES ASSUME NEW v \in Reloads, NEW i \in BOOLEAN, NEW s \in Sources,
                      base'.body = Timer_Init(v, i, s)
               PROVE  SettingUp(v, i, s)'
    BY DEF Starting
  <2> DEFINE init == Timer_Init(v, i, s)
  <2>1. init = <<init[1], init[2], init[3], init[4]>>
    BY DEF Timer_Init
  <2>2. /\ init[1].reg = "CTRL" /\ init[2] = WriteNum("VALUE", v)
        /\ init[3].reg = "RELOAD" /\ init[4].reg = "CTRL"
    BY DEF Timer_Init, Write, WriteNum, Acc
  <2>3. SettingUp(v, i, s)
    <3>1. Timer_Init(v, i, s) # <<>>
      BY DEF Timer_Init
    <3> QED
      BY <1>4, <3>1 DEF Starting
  <2>4. Head(init) = init[1]
    BY <2>1
  <2>5. todo["main"] # init
    BY <1>1, <2>2, <2>4
  <2> HIDE DEF init
  <2>6. /\ todo["main"] # <<init[3], init[4]>> /\ todo["main"] # <<init[4]>>
    BY <1>1, <2>2
  <2>7. todo["main"] = <<init[2], init[3], init[4]>> /\ reg["CTRL"] = {}
    BY <2>3, <2>5, <2>6 DEF SettingUp, init
  <2>8. a.op = "num" /\ a.num = v
    BY <2>2, <2>7 DEF WriteNum
  <2>9. todo'["main"] = <<init[3], init[4]>> /\ hw'.value = v /\ reg'["CTRL"] = {}
    BY <1>1, <1>4, <1>5, <2>7, <2>8
  <2> QED
    BY <2>9 DEF SettingUp, init
<1> QED
  BY <1>6, <1>7, <1>8, <1>9, <1>10

LEMMA PeripheralAccessIsr ==
  ASSUME Inv, PeripheralAccess("isr")
  PROVE  Inv'
<1> DEFINE a == Head(todo["isr"])
<1> USE DEF Inv
<1>1. /\ Runs("isr") /\ a.reg \in {"VALUE", "INTSTATUS"} /\ "isr" \in Threads
      /\ hw' = IF a.op = "num" THEN [hw EXCEPT !.value = a.num]
               ELSE IF a.op = "clr" THEN [hw EXCEPT !.ints = @ \ a.val]
               ELSE hw
      /\ Goes("isr", Tail(todo["isr"])) /\ UNCHANGED <<reg, tmp, log>>
  BY DEF PeripheralAccess, Threads
<1>2. todo["isr"] \in Seq(Looks) /\ todo["isr"] # <<>>
  BY <1>1, Looking, Places DEF Runs
<1>3. a \in Looks /\ Tail(todo["isr"]) \in Seq(Looks)
  BY <1>2, Cut
<1>4. /\ todo'["isr"] = Tail(todo["isr"]) /\ todo'["main"] = todo["main"]
      /\ todo' \in [Threads -> Seq(Accesses)] /\ dev' = dev /\ base' = base
  BY <1>1, GoesOn DEF Threads
<1>5. /\ hw' \in HwType
      /\ hw'.tx = hw.tx /\ hw'.rx = hw.rx /\ hw'.over = hw.over
      /\ hw'.value = hw.value
  <2>1. a.op # "num"
    BY <1>3 DEF Looks
  <2>2. hw.ints \ a.val \in SUBSET Bits
    BY DEF Typed, HwType
  <2> QED
    BY <1>1, <2>1, <2>2 DEF Typed, HwType
<1>6. Typed'
  BY <1>1, <1>4, <1>5 DEF Typed, HwType
<1>7. Sending'
  BY <1>1, <1>4, <1>5 DEF Sending, Room
<1>8. Taking'
  BY <1>3, <1>4 DEF Taking
<1>9. SentInOrder' /\ LossIsFlagged'
  BY <1>1, <1>5 DEF SentInOrder, LossIsFlagged
<1>10. Starting'
  BY <1>1, <1>4, <1>5, StartingKept
<1> QED
  BY <1>6, <1>7, <1>8, <1>9, <1>10

\* An access of the program to a port is not one of a timer being set up.
LEMMA NotSettingUp ==
  ASSUME Inv, Runs("main"), Head(todo["main"]).reg \in Ports,
         base'.body \in {base.body, <<>>}
  PROVE  Starting'
<1> SUFFICES ASSUME NEW v \in Reloads, NEW i \in BOOLEAN, NEW s \in Sources,
                    base'.body = Timer_Init(v, i, s)
             PROVE  FALSE
  BY DEF Starting
<1> DEFINE init == Timer_Init(v, i, s)
<1>1. init = <<init[1], init[2], init[3], init[4]>>
  BY DEF Timer_Init
<1>2. init[1].reg = "CTRL" /\ init[2].reg = "VALUE" /\ init[3].reg = "RELOAD" /\ init[4].reg = "CTRL"
  BY DEF Timer_Init, Write, WriteNum, Acc
<1>3. SettingUp(v, i, s)
  <2>1. Timer_Init(v, i, s) # <<>>
    BY DEF Timer_Init
  <2> QED
    BY <2>1 DEF Inv, Starting
<1>4. Head(init) = init[1]
  BY <1>1
<1> HIDE DEF init
<1>5. /\ Head(<<init[2], init[3], init[4]>>) = init[2] /\ Head(<<init[3], init[4]>>) = init[3]
      /\ Head(<<init[4]>>) = init[4]
  OBVIOUS
<1>6. Head(todo["main"]).reg \in {"CTRL", "VALUE", "RELOAD"}
  BY <1>2, <1>3, <1>4, <1>5 DEF SettingUp, init
<1> QED
  BY <1>6, Places DEF Ports

\* An access that neither sends nor takes may clear the flags.
LEMMA QuietAtPort ==
  ASSUME Inv, NEW t \in Threads, SerialAccess(t), Head(todo[t]).op \notin {"data", "take", "getc"}
  PROVE  /\ hw' \in HwType /\ log' \in LogType
         /\ hw'.tx = hw.tx /\ hw'.rx = hw.rx /\ hw'.value = hw.value
         /\ SentInOrder' /\ LossIsFlagged'
<1> DEFINE a == Head(todo[t])
           p == a.reg
<1>1. /\ p \in Ports
      /\ hw' = IF a.op = "clrflags" THEN [hw EXCEPT !.over = @ \ {<<p, "TXOR">>, <<p, "RXOR">>}]
               ELSE hw
      /\ log' = IF a.op = "clrflags" /\ <<p, "RXOR">> \in hw.over
                THEN [log EXCEPT !.cleared = @ \cup {p}] ELSE log
  BY DEF SerialAccess
<1> USE DEF Inv, Typed
<1>2. /\ hw' \in HwType /\ hw'.tx = hw.tx /\ hw'.rx = hw.rx /\ hw'.value = hw.value
      /\ \A q \in Ports : <<q, "RXOR">> \in hw.over =>
                              <<q, "RXOR">> \in hw'.over \/ (a.op = "clrflags" /\ q = p)
  BY <1>1 DEF HwType
<1>3. /\ log' \in LogType /\ log'.wire = log.wire /\ log'.sent = log.sent
      /\ log'.got = log.got /\ log'.came = log.came /\ log.cleared \subseteq log'.cleared
      /\ a.op = "clrflags" /\ <<p, "RXOR">> \in hw.over => p \in log'.cleared
  BY <1>1 DEF LogType
<1>4. SentInOrder'
  BY <1>2, <1>3 DEF SentInOrder
<1>5. LossIsFlagged'
  BY <1>2, <1>3 DEF LossIsFlagged
<1> QED
  BY <1>2, <1>3, <1>4, <1>5

\* A character written into an empty buffer is on its way.
LEMMA Sent ==
  ASSUME Inv, SerialAccess("main"), NEW p \in Ports, NEW c \in Chars,
         Head(todo["main"]) = SendTo(p, c), Room(p)
  PROVE  /\ hw' \in HwType /\ log' \in LogType
         /\ \A q \in Ports \ {p} : hw'.tx[q] = hw.tx[q]
         /\ hw'.rx = hw.rx /\ hw'.value = hw.value
         /\ SentInOrder' /\ LossIsFlagged'
<1> DEFINE a == Head(todo["main"])
<1>1. a.op = "data" /\ a.reg = p /\ a.chr = c
  BY DEF SendTo
<1>2. /\ hw \in HwType /\ log \in LogType /\ SentInOrder /\ LossIsFlagged
  BY DEF Inv, Typed, HwType, LogType
<1>3. CASE "TXEN" \notin reg[CtrlOf(p)]
  <2>1. hw' = hw /\ log' = log
    BY <1>1, <1>3 DEF SerialAccess
  <2> QED
    BY <1>2, <2>1 DEF SentInOrder, LossIsFlagged
<1>4. CASE "TXEN" \in reg[CtrlOf(p)]
  <2>1. hw.tx[p] = <<>>
    BY <1>4 DEF Room
  <2>2. /\ hw' = [hw EXCEPT !.tx[p] = <<c>>, !.over = @ \cup {}]
        /\ log' = [log EXCEPT !.sent[p] = Append(@, c)]
    BY <1>1, <1>4, <2>1 DEF SerialAccess
  <2>3. <<c>> \in Seq(Chars) /\ Append(log.sent[p], c) \in Seq(Chars)
    BY <1>2 DEF LogType
  <2>4. hw'.rx = hw.rx /\ hw'.value = hw.value /\ hw'.over = hw.over
        /\ hw'.tx = [hw.tx EXCEPT ![p] = <<c>>] /\ hw'.ints = hw.ints
    BY <1>2, <2>2 DEF HwType
  <2>5. hw' \in HwType
    BY <1>2, <2>2, <2>3 DEF HwType
  <2>6. /\ log'.wire = log.wire /\ log'.got = log.got
        /\ log'.came = log.came /\ log'.cleared = log.cleared
        /\ log'.sent = [log.sent EXCEPT ![p] = Append(log.sent[p], c)]
    BY <1>2, <2>2 DEF LogType
  <2>7. log' \in LogType
    BY <1>2, <2>2, <2>3 DEF LogType
  <2>8. SentInOrder'
    <3> SUFFICES ASSUME NEW q \in Ports PROVE log'.wire[q] \o hw'.tx[q] = log'.sent[q]
      BY DEF SentInOrder
    <3>1. log.wire[q] \o hw.tx[q] = log.sent[q]
      BY <1>2 DEF SentInOrder
    <3>2. CASE q = p
      <4>1. log.wire[p] \in Seq(Chars)
        BY <1>2 DEF LogType
      <4>0. log.wire[p] \o <<>> = log.wire[p]
        BY <4>1
      <4>2. log.sent[p] = log.wire[p]
        BY <2>1, <3>1, <3>2, <4>0
      <4>3. log.wire[p] \o <<c>> = Append(log.wire[p], c)
        BY <4>1
      <4>4. hw'.tx[p] = <<c>> /\ log'.sent[p] = Append(log.sent[p], c)
        BY <1>2, <2>4, <2>6 DEF HwType, LogType
      <4> QED
        BY <2>6, <3>2, <4>2, <4>3, <4>4
    <3>3. CASE q # p
      <4>1. hw'.tx[q] = hw.tx[q] /\ log'.sent[q] = log.sent[q]
        BY <1>2, <2>4, <2>6, <3>3 DEF HwType, LogType
      <4> QED
        BY <2>6, <3>1, <4>1
    <3> QED
      BY <3>2, <3>3
  <2>9. LossIsFlagged'
    BY <1>2, <2>4, <2>6 DEF LossIsFlagged
  <2> QED
    BY <2>4, <2>5, <2>7, <2>8, <2>9, <1>2 DEF HwType
<1> QED
  BY <1>3, <1>4

\* SerialAccess of the program: waiting for room, sending, or neither.
LEMMA SerialAccessMain ==
  ASSUME Inv, SerialAccess("main")
  PROVE  Inv'
<1> DEFINE a == Head(todo["main"])
<1>1. /\ Runs("main") /\ a.reg \in Ports /\ a.op # "putc" /\ "main" \in Threads
      /\ a.op = "waittx" => hw.tx[a.reg] = <<>>
      /\ Goes("main", Tail(todo["main"])) /\ UNCHANGED <<reg, tmp>>
  BY DEF SerialAccess, Threads
<1>2. /\ todo'["main"] = Tail(todo["main"]) /\ todo'["isr"] = todo["isr"]
      /\ todo' \in [Threads -> Seq(Accesses)] /\ dev' = dev
      /\ base' = [outcomes |-> base'.outcomes, body |-> base'.body]
      /\ base'.body \in {base.body, <<>>}
  BY <1>1, GoesOn DEF Threads, Inv
<1>3. Starting'
  BY <1>1, <1>2, NotSettingUp
<1>4. ASSUME hw' \in HwType, log' \in LogType, hw'.rx = hw.rx, Sending',
             SentInOrder', LossIsFlagged'
      PROVE  Inv'
  <2>1. Typed'
    BY <1>1, <1>2, <1>4 DEF Inv, Typed, HwType, LogType
  <2>2. Taking'
    BY <1>2, <1>4 DEF Inv, Taking
  <2> QED
    BY <2>1, <2>2, <1>3, <1>4 DEF Inv
<1>5. CASE todo["main"] \in Seq(Quiet)
  <2>1. a \in Quiet /\ Tail(todo["main"]) \in Seq(Quiet)
    BY <1>1, <1>5, Cut DEF Runs
  <2>2. a.op \notin {"data", "take", "getc"}
    BY <2>1 DEF Quiet, Looks
  <2>3. Sending'
    BY <2>1, <1>2 DEF Sending
  <2> QED
    BY <2>2, <2>3, <1>1, <1>4, QuietAtPort
<1>6. ASSUME NEW p \in Ports, NEW c \in Chars, todo["main"] = CMSDK_uart_SendChar(p, c)
      PROVE  Inv'
  <2>1. a = Acc("waittx", p, {}) /\ Tail(todo["main"]) = <<SendTo(p, c)>>
    BY <1>6 DEF CMSDK_uart_SendChar
  <2>2. /\ a.op = "waittx" /\ hw.tx[p] = <<>>
    BY <1>1, <2>1 DEF Acc
  <2>3. /\ hw' \in HwType /\ log' \in LogType /\ hw'.tx = hw.tx /\ hw'.rx = hw.rx
        /\ SentInOrder' /\ LossIsFlagged'
    BY <2>2, <1>1, QuietAtPort
  <2>4. Sending'
    BY <2>1, <2>2, <2>3, <1>2 DEF Sending, Room
  <2> QED
    BY <2>3, <2>4, <1>4
<1>7. ASSUME NEW p \in Ports, NEW c \in Chars, todo["main"] = <<SendTo(p, c)>>, Room(p)
      PROVE  Inv'
  <2>1. a = SendTo(p, c) /\ Tail(todo["main"]) = <<>>
    BY <1>7
  <2>0. <<>> \in Seq(Quiet)
    OBVIOUS
  <2>2. todo'["main"] \in Seq(Quiet)
    BY <2>0, <2>1, <1>2
  <2>3. Sending'
    BY <2>2 DEF Sending
  <2> QED
    BY <2>1, <2>3, <1>4, <1>7, Sent
<1>8. ASSUME NEW c \in Chars, "TXEN" \notin reg["USRT2_CTRL"],
             todo["main"] = <<Acc("waittx", "UART2", {}), SendTo("UART2", c), SendTo("USRT2", c)>>
      PROVE  Inv'
  <2>1. /\ a = Acc("waittx", "UART2", {})
        /\ Tail(todo["main"]) = <<SendTo("UART2", c), SendTo("USRT2", c)>>
    BY <1>8
  <2>2. /\ a.op = "waittx" /\ hw.tx["UART2"] = <<>>
    BY <1>1, <2>1 DEF Acc
  <2>3. /\ hw' \in HwType /\ log' \in LogType /\ hw'.tx = hw.tx /\ hw'.rx = hw.rx
        /\ SentInOrder' /\ LossIsFlagged'
    BY <2>2, <1>1, QuietAtPort
  <2>4. Sending'
    BY <2>1, <2>2, <2>3, <1>1, <1>2, <1>8 DEF Sending, Room
  <2> QED
    BY <2>3, <2>4, <1>4
<1>9. ASSUME NEW c \in Chars, "TXEN" \notin reg["USRT2_CTRL"],
             todo["main"] = <<SendTo("UART2", c), SendTo("USRT2", c)>>, Room("UART2")
      PROVE  Inv'
  <2>1. a = SendTo("UART2", c) /\ Tail(todo["main"]) = <<SendTo("USRT2", c)>>
    BY <1>9
  <2>2. Sending'
    <3>1. Room("USRT2")'
      BY <1>1, <1>9 DEF Room, CtrlOf
    <3> QED
      BY <2>1, <3>1, <1>2 DEF Sending, Ports
  <2>3. "UART2" \in Ports
    BY DEF Ports
  <2> QED
    BY <2>1, <2>2, <2>3, <1>4, <1>9, Sent
<1>10. ASSUME NEW c \in Chars, todo["main"] = UartPutc(c)
       PROVE  FALSE
  BY <1>1, <1>10 DEF UartPutc
<1> QED
  BY <1>5, <1>6, <1>7, <1>8, <1>9, <1>10 DEF Inv, Sending

\* A character that is there is taken.
LEMMA Taken ==
  ASSUME Inv, SerialAccess("isr"), NEW q \in Ports, hw.rx[q] # <<>>,
         \/ Head(todo["isr"]) = Acc("take", q, {})
         \/ /\ Head(todo["isr"]).op = "getc"
            /\ q = IF hw.rx["UART2"] # <<>> THEN "UART2" ELSE "USRT2"
  PROVE  /\ hw' \in HwType /\ log' \in LogType
         /\ hw'.tx = hw.tx /\ hw'.value = hw.value
         /\ SentInOrder' /\ LossIsFlagged'
<1> DEFINE a == Head(todo["isr"])
<1>1. /\ a.op \in {"take", "getc"}
      /\ q = IF a.op = "getc" THEN IF hw.rx["UART2"] # <<>> THEN "UART2" ELSE "USRT2"
             ELSE a.reg
  BY DEF Acc
<1>2. /\ hw \in HwType /\ log \in LogType /\ SentInOrder /\ LossIsFlagged
  BY DEF Inv, Typed, HwType, LogType
<1>3. /\ hw' = [hw EXCEPT !.rx[q] = <<>>]
      /\ log' = [log EXCEPT !.got[q] = @ \o hw.rx[q]]
  BY <1>1 DEF SerialAccess
<1>4. /\ <<>> \in Seq(Chars) /\ log.got[q] \o hw.rx[q] \in Seq(Chars)
      /\ log.got[q] \o hw.rx[q] \o <<>> = log.got[q] \o hw.rx[q]
  BY <1>2 DEF HwType, LogType
<1>5. /\ hw'.tx = hw.tx /\ hw'.value = hw.value /\ hw'.over = hw.over
      /\ hw'.rx = [hw.rx EXCEPT ![q] = <<>>]
  BY <1>2, <1>3 DEF HwType
<1>6. hw' \in HwType
  BY <1>2, <1>3, <1>4 DEF HwType
<1>7. /\ log'.wire = log.wire /\ log'.sent = log.sent
      /\ log'.came = log.came /\ log'.cleared = log.cleared
      /\ log'.got = [log.got EXCEPT ![q] = log.got[q] \o hw.rx[q]]
  BY <1>2, <1>3 DEF LogType
<1>8. log' \in LogType
  BY <1>2, <1>3, <1>4 DEF LogType
<1>9. SentInOrder'
  BY <1>2, <1>5, <1>7 DEF SentInOrder
<1>10. \A r \in Ports : log'.got[r] \o hw'.rx[r] = log.got[r] \o hw.rx[r]
  <2> SUFFICES ASSUME NEW r \in Ports
               PROVE  log'.got[r] \o hw'.rx[r] = log.got[r] \o hw.rx[r]
    OBVIOUS
  <2>1. CASE r = q
    <3>1. log'.got[r] = log.got[q] \o hw.rx[q] /\ hw'.rx[r] = <<>>
      BY <1>2, <1>5, <1>7, <2>1 DEF HwType, LogType
    <3> QED
      BY <1>4, <2>1, <3>1
  <2>2. CASE r # q
    BY <1>2, <1>5, <1>7, <2>2 DEF HwType, LogType
  <2> QED
    BY <2>1, <2>2
<1>11. LossIsFlagged'
  BY <1>2, <1>5, <1>7, <1>10 DEF LossIsFlagged
<1> QED
  BY <1>5, <1>6, <1>8, <1>9, <1>11

\* SerialAccess of the handler: waiting for a character, taking it, or neither.
LEMMA SerialAccessIsr ==
  ASSUME Inv, SerialAccess("isr")
  PROVE  Inv'
<1> DEFINE a == Head(todo["isr"])
<1>1. /\ Runs("isr") /\ a.reg \in Ports /\ "isr" \in Threads
      /\ a.op = "waitrx" => hw.rx[a.reg] # <<>>
      /\ a.op = "waitany" => \E r \in Ports : hw.rx[r] # <<>>
      /\ Goes("isr", Tail(todo["isr"])) /\ UNCHANGED <<reg, tmp>>
  BY DEF SerialAccess, Threads
<1>2. /\ todo'["isr"] = Tail(todo["isr"]) /\ todo'["main"] = todo["main"]
      /\ todo' \in [Threads -> Seq(Accesses)] /\ dev' = dev /\ base' = base
  BY <1>1, GoesOn DEF Threads, Inv
<1>3. ASSUME hw' \in HwType, log' \in LogType, hw'.tx = hw.tx, hw'.value = hw.value,
             Taking', SentInOrder', LossIsFlagged'
      PROVE  Inv'
  <2>1. Typed'
    BY <1>1, <1>2, <1>3 DEF Inv, Typed, HwType, LogType
  <2>2. Sending'
    BY <1>1, <1>2, <1>3 DEF Inv, Sending, Room
  <2>3. Starting'
    BY <1>1, <1>2, <1>3, StartingKept DEF Inv
  <2> QED
    BY <2>1, <2>2, <2>3, <1>3 DEF Inv
<1>4. CASE todo["isr"] \in Seq(Looks)
  <2>1. a \in Looks /\ Tail(todo["isr"]) \in Seq(Looks)
    BY <1>1, <1>4, Cut DEF Runs
  <2>2. a.op \notin {"data", "take", "getc"}
    BY <2>1 DEF Looks
  <2>3. Taking'
    BY <2>1, <1>2 DEF Taking
  <2> QED
    BY <2>2, <2>3, <1>1, <1>3, QuietAtPort
<1>5. ASSUME NEW p \in Ports, todo["isr"] = CMSDK_uart_ReceiveChar(p)
      PROVE  Inv'
  <2>1. a = Acc("waitrx", p, {}) /\ Tail(todo["isr"]) = <<Acc("take", p, {})>>
    BY <1>5 DEF CMSDK_uart_ReceiveChar
  <2>2. a.op = "waitrx" /\ hw.rx[p] # <<>>
    BY <1>1, <2>1 DEF Acc
  <2>3. /\ hw' \in HwType /\ log' \in LogType /\ hw'.tx = hw.tx /\ hw'.rx = hw.rx
        /\ hw'.value = hw.value /\ SentInOrder' /\ LossIsFlagged'
    BY <2>2, <1>1, QuietAtPort
  <2>4. Taking'
    BY <2>1, <2>2, <2>3, <1>2 DEF Taking
  <2> QED
    BY <2>3, <2>4, <1>3
<1>6. CASE todo["isr"] = UartGetc
  <2>1. a = Acc("waitany", "UART2", {}) /\ Tail(todo["isr"]) = <<Acc("getc", "UART2", {})>>
    BY <1>6 DEF UartGetc
  <2>2. a.op = "waitany" /\ \E r \in Ports : hw.rx[r] # <<>>
    BY <1>1, <2>1 DEF Acc
  <2>3. /\ hw' \in HwType /\ log' \in LogType /\ hw'.tx = hw.tx /\ hw'.rx = hw.rx
        /\ hw'.value = hw.value /\ SentInOrder' /\ LossIsFlagged'
    BY <2>2, <1>1, QuietAtPort
  <2>4. Taking'
    BY <2>1, <2>2, <2>3, <1>2 DEF Taking
  <2> QED
    BY <2>3, <2>4, <1>3
<1>7. ASSUME Tail(todo["isr"]) = <<>>
      PROVE  Taking'
  <2>1. <<>> \in Seq(Looks)
    OBVIOUS
  <2>2. todo'["isr"] \in Seq(Looks)
    BY <2>1, <1>2, <1>7
  <2> QED
    BY <2>2 DEF Taking
<1>8. ASSUME NEW p \in Ports, todo["isr"] = <<Acc("take", p, {})>>, hw.rx[p] # <<>>
      PROVE  Inv'
  <2>1. a = Acc("take", p, {}) /\ Tail(todo["isr"]) = <<>>
    BY <1>8
  <2> QED
    BY <2>1, <1>3, <1>7, <1>8, Taken
<1>9. ASSUME todo["isr"] = <<Acc("getc", "UART2", {})>>, \E p \in Ports : hw.rx[p] # <<>>
      PROVE  Inv'
  <2>1. a.op = "getc" /\ Tail(todo["isr"]) = <<>>
    BY <1>9 DEF Acc
  <2> DEFINE q == IF hw.rx["UART2"] # <<>> THEN "UART2" ELSE "USRT2"
  <2>2. q \in Ports /\ hw.rx[q] # <<>>
    BY <1>9 DEF Ports
  <2>3. /\ hw' \in HwType /\ log' \in LogType /\ hw'.tx = hw.tx /\ hw'.value = hw.value
        /\ SentInOrder' /\ LossIsFlagged'
    BY <2>1, <2>2, Taken
  <2> QED
    BY <2>1, <2>3, <1>3, <1>7
<1> QED
  BY <1>4, <1>5, <1>6, <1>8, <1>9 DEF Inv, Taking

\* Only the program calls UartPutc.
LEMMA PutcOfMain ==
  ASSUME Inv, NEW t \in Threads, PutcAccess(t)
  PROVE  t = "main" /\ \E c \in Chars : todo["main"] = UartPutc(c)
<1>1. Runs(t) /\ Head(todo[t]).op = "putc"
  BY DEF PutcAccess
<1>2. t = "main"
  <2>1. ASSUME t = "isr" PROVE FALSE
    <3>1. todo["isr"] # <<>> /\ Head(todo["isr"]).op = "putc"
      BY <1>1, <2>1 DEF Runs
    <3>2. /\ \A p : Head(CMSDK_uart_ReceiveChar(p)).op = "waitrx"
          /\ \A p : Head(<<Acc("take", p, {})>>).op = "take"
          /\ Head(UartGetc).op = "waitany" /\ Head(<<Acc("getc", "UART2", {})>>).op = "getc"
      BY DEF CMSDK_uart_ReceiveChar, UartGetc, Acc
    <3>3. todo["isr"] \in Seq(Looks)
      BY <3>1, <3>2 DEF Inv, Taking
    <3>4. Head(todo["isr"]) \in Looks
      BY <3>1, <3>3, Cut
    <3> QED
      BY <3>1, <3>4 DEF Looks
  <2> QED
    BY <2>1 DEF Threads
<1>3. \E c \in Chars : todo["main"] = UartPutc(c)
  <2>1. todo["main"] # <<>> /\ Head(todo["main"]).op = "putc"
    BY <1>1, <1>2 DEF Runs
  <2>2. todo["main"] \notin Seq(Quiet)
    <3>1. ASSUME todo["main"] \in Seq(Quiet) PROVE FALSE
      <4>1. Head(todo["main"]) \in Quiet
        BY <2>1, <3>1, Cut
      <4> QED
        BY <2>1, <4>1 DEF Quiet, Looks
    <3> QED
      BY <3>1
  <2>3. /\ \A p, c : Head(CMSDK_uart_SendChar(p, c)).op = "waittx"
        /\ \A p, c : Head(<<SendTo(p, c)>>).op = "data"
        /\ \A c : Head(<<Acc("waittx", "UART2", {}), SendTo("UART2", c), SendTo("USRT2", c)>>).op = "waittx"
        /\ \A c : Head(<<SendTo("UART2", c), SendTo("USRT2", c)>>).op = "data"
    BY DEF CMSDK_uart_SendChar, SendTo, Acc
  <2> QED
    BY <2>1, <2>2, <2>3 DEF Inv, Sending
<1> QED
  BY <1>2, <1>3

\* UartPutc takes its branch.
LEMMA PutcAccessStep ==
  ASSUME Inv, NEW t \in Threads, PutcAccess(t)
  PROVE  Inv'
<1>1. /\ Runs(t) /\ Head(todo[t]).op = "putc"
      /\ Goes(t, PutcBranch(Head(todo[t]).chr) \o Tail(todo[t]))
      /\ UNCHANGED <<reg, hw, tmp, log>>
  BY DEF PutcAccess
<1>2. t = "main"
  BY PutcOfMain
<1>3. PICK c \in Chars : todo["main"] = UartPutc(c)
  BY PutcOfMain
<1>4. /\ Head(todo["main"]).reg \in Ports /\ Head(todo["main"]).chr = c
      /\ Tail(todo["main"]) = <<>>
  BY <1>3 DEF UartPutc, Ports
<1>5. PutcBranch(c) \in Seq(Accesses) /\ PutcBranch(c) # <<>>
  <2>1. /\ Acc("waittx", "UART2", {}) \in Accesses /\ Acc("waittx", "USRT2", {}) \in Accesses
        /\ SendTo("UART2", c) \in Accesses /\ SendTo("USRT2", c) \in Accesses
    BY DEF Accesses, Quiet, Acc, SendTo, Ports
  <2>2. \A x, y, z \in Accesses : <<x, y, z>> \in Seq(Accesses) /\ <<x, y>> \in Seq(Accesses)
    OBVIOUS
  <2>3. /\ <<Acc("waittx", "UART2", {}), SendTo("UART2", c), SendTo("USRT2", c)>> \in Seq(Accesses)
        /\ <<Acc("waittx", "USRT2", {}), SendTo("USRT2", c)>> \in Seq(Accesses)
    BY <2>1, <2>2
  <2> QED
    BY <2>3 DEF PutcBranch
<1>6. PutcBranch(c) \o <<>> = PutcBranch(c)
  BY <1>5
<1>7. Goes("main", PutcBranch(c))
  BY <1>1, <1>2, <1>4, <1>6
<1>8. /\ todo' = [todo EXCEPT !["main"] = PutcBranch(c)] /\ base' = base /\ dev' = dev
  BY <1>5, <1>7 DEF Goes
<1>9. /\ todo' \in [Threads -> Seq(Accesses)] /\ todo'["main"] = PutcBranch(c)
      /\ todo'["isr"] = todo["isr"]
  BY <1>5, <1>8 DEF Inv, Typed, Threads
<1>10. Typed'
  BY <1>1, <1>8, <1>9 DEF Inv, Typed
<1>11. Sending'
  <2>1. CASE "TXEN" \notin reg["USRT2_CTRL"]
    BY <1>1, <1>9, <2>1 DEF Sending, PutcBranch
  <2>2. CASE "TXEN" \in reg["USRT2_CTRL"]
    <3>1. todo'["main"] = CMSDK_uart_SendChar("USRT2", c)
      BY <1>9, <2>2 DEF PutcBranch, CMSDK_uart_SendChar
    <3> QED
      BY <3>1 DEF Sending, Ports
  <2> QED
    BY <2>1, <2>2
<1>12. Taking'
  BY <1>1, <1>9 DEF Inv, Taking
<1>13. Starting'
  BY <1>1, <1>2, <1>4, <1>8, NotSettingUp
<1> QED
  BY <1>1, <1>10, <1>11, <1>12, <1>13 DEF Inv, SentInOrder, LossIsFlagged

\* Calls begin.
LEMMA MainCallStep ==
  ASSUME Inv, MainCall
  PROVE  Inv'
<1>1. PICK b \in CallsOf("main") : /\ todo' = [todo EXCEPT !["main"] = b]
                                   /\ base' = [outcomes |-> want, body |-> b]
  BY DEF MainCall
<1>2. UNCHANGED <<dev, reg, hw, tmp, log>>
  BY DEF MainCall
<1>3. \/ b \in Seq(Quiet)
      \/ \E c \in Chars : b = UartPutc(c)
      \/ \E p \in Ports, c \in Chars : b = CMSDK_uart_SendChar(p, c)
  BY MainBody DEF Inv
<1>4. b \in Seq(Accesses)
  BY MainBodyAccesses DEF Inv
<1>5. /\ todo' \in [Threads -> Seq(Accesses)] /\ todo'["main"] = b
      /\ todo'["isr"] = todo["isr"]
  BY <1>1, <1>4 DEF Inv, Typed, Threads
<1>6. base' = [outcomes |-> base'.outcomes, body |-> base'.body] /\ base'.body = b
  BY <1>1
<1>7. Typed'
  BY <1>2, <1>5, <1>6 DEF Inv, Typed
<1>8. Sending'
  BY <1>3, <1>5 DEF Sending
<1>9. Taking'
  BY <1>2, <1>5 DEF Inv, Taking
<1>10. Starting'
  BY <1>5, <1>6 DEF Starting, SettingUp
<1> QED
  BY <1>2, <1>7, <1>8, <1>9, <1>10 DEF Inv, SentInOrder, LossIsFlagged

LEMMA IsrCallStep ==
  ASSUME Inv, IsrCall
  PROVE  Inv'
<1>1. PICK b \in CallsOf("isr") :
        /\ todo' = [todo EXCEPT !["isr"] = b]
        /\ base' = [base EXCEPT !.outcomes = {Atomically(b, o) : o \in base.outcomes}]
  BY DEF IsrCall
<1>2. UNCHANGED <<dev, reg, hw, tmp, log>>
  BY DEF IsrCall
<1>3. b \in Seq(Looks) \/ b = UartGetc \/ \E p \in Ports : b = CMSDK_uart_ReceiveChar(p)
  BY IsrBody DEF Inv
<1>4. b \in Seq(Accesses)
  BY IsrBodyAccesses DEF Inv
<1>5. /\ todo' \in [Threads -> Seq(Accesses)] /\ todo'["isr"] = b
      /\ todo'["main"] = todo["main"]
  BY <1>1, <1>4 DEF Inv, Typed, Threads
<1>6. base' = [outcomes |-> base'.outcomes, body |-> base'.body] /\ base'.body = base.body
  <2>1. base = [outcomes |-> base.outcomes, body |-> base.body]
    BY DEF Inv, Typed
  <2>2. \A o, y : LET r == [outcomes |-> o, body |-> y]
                  IN  \A x : [r EXCEPT !.outcomes = x] = [outcomes |-> x, body |-> y]
    OBVIOUS
  <2> QED
    BY <1>1, <2>1, <2>2
<1>7. Typed'
  BY <1>2, <1>5, <1>6 DEF Inv, Typed
<1>8. Sending'
  BY <1>2, <1>5 DEF Inv, Sending, Room
<1>9. Taking'
  BY <1>3, <1>5 DEF Taking
<1>10. Starting'
  BY <1>2, <1>5, <1>6, StartingKept DEF Inv
<1> QED
  BY <1>2, <1>7, <1>8, <1>9, <1>10 DEF Inv, SentInOrder, LossIsFlagged

\* A peripheral acts: what threads have left to do stays.
LEMMA Unprogrammed ==
  ASSUME Inv, UNCHANGED <<dev, reg, todo, tmp, base>>, hw' \in HwType, log' \in LogType,
         \A p \in Ports : hw.tx[p] = <<>> => hw'.tx[p] = <<>>,
         \A p \in Ports : hw.rx[p] # <<>> => hw'.rx[p] # <<>>,
         reg["CTRL"] = {} => hw'.value = hw.value,
         SentInOrder', LossIsFlagged'
  PROVE  Inv'
<1>1. Typed'
  BY DEF Inv, Typed, HwType, LogType
<1>2. Sending'
  <2>1. \A p \in Ports : Room(p) => Room(p)'
    BY DEF Room
  <2> QED
    BY <2>1 DEF Inv, Sending, Ports
<1>3. Taking'
  BY DEF Inv, Taking
<1>4. Starting'
  BY DEF Inv, Starting, SettingUp
<1> QED
  BY <1>1, <1>2, <1>3, <1>4 DEF Inv

\* The peripherals.
LEMMA TickStep ==
  ASSUME Inv, Tick
  PROVE  Inv'
<1>1. hw \in HwType /\ log \in LogType /\ SentInOrder /\ LossIsFlagged /\ reg["RELOAD"] \in Nat
  BY Places DEF Inv, Typed, HwType, LogType
<1>2. UNCHANGED <<dev, reg, todo, tmp, base, log>>
  BY DEF Tick
<1>3. PICK v \in Nat, i \in SUBSET Bits : hw' = [hw EXCEPT !.value = v, !.ints = i]
  <2>1. (IF hw.value = 0 THEN reg["RELOAD"] ELSE hw.value - 1) \in Nat
    BY <1>1 DEF HwType
  <2>2. (IF hw.value = 1 /\ "IRQEN" \in reg["CTRL"] THEN hw.ints \cup {"timer"}
         ELSE hw.ints) \in SUBSET Bits
    BY <1>1 DEF HwType, Bits
  <2> QED
    BY <2>1, <2>2 DEF Tick
<1>4. hw' \in HwType /\ hw'.tx = hw.tx /\ hw'.rx = hw.rx /\ hw'.over = hw.over
  BY <1>1, <1>3 DEF HwType
<1>5. SentInOrder' /\ LossIsFlagged'
  BY <1>1, <1>2, <1>4 DEF SentInOrder, LossIsFlagged
<1>6. reg["CTRL"] # {}
  BY DEF Tick
<1>7. log' \in LogType
  BY <1>1, <1>2
<1> QED
  BY <1>2, <1>4, <1>5, <1>6, <1>7, Unprogrammed

LEMMA ShiftStep ==
  ASSUME Inv, NEW p \in Ports, Shift(p)
  PROVE  Inv'
<1>1. hw \in HwType /\ log \in LogType /\ SentInOrder /\ LossIsFlagged
  BY DEF Inv, Typed, HwType, LogType
<1>2. UNCHANGED <<dev, reg, todo, tmp, base>>
  BY DEF Shift
<1>3. /\ hw' = [hw EXCEPT !.tx[p] = <<>>]
      /\ log' = [log EXCEPT !.wire[p] = log.wire[p] \o hw.tx[p]]
  BY DEF Shift
<1>4. /\ <<>> \in Seq(Chars) /\ log.wire[p] \o hw.tx[p] \in Seq(Chars)
      /\ log.wire[p] \o hw.tx[p] \o <<>> = log.wire[p] \o hw.tx[p]
  BY <1>1 DEF HwType, LogType
<1>5. /\ hw' \in HwType /\ hw'.rx = hw.rx /\ hw'.over = hw.over /\ hw'.value = hw.value
      /\ hw'.tx = [hw.tx EXCEPT ![p] = <<>>]
  BY <1>1, <1>3, <1>4 DEF HwType
<1>6. /\ log' \in LogType /\ log'.sent = log.sent /\ log'.got = log.got
      /\ log'.came = log.came /\ log'.cleared = log.cleared
      /\ log'.wire = [log.wire EXCEPT ![p] = log.wire[p] \o hw.tx[p]]
  BY <1>1, <1>3, <1>4 DEF LogType
<1>7. SentInOrder'
  <2> SUFFICES ASSUME NEW q \in Ports
               PROVE  log'.wire[q] \o hw'.tx[q] = log'.sent[q]
    BY DEF SentInOrder
  <2>1. log.wire[q] \o hw.tx[q] = log.sent[q]
    BY <1>1 DEF SentInOrder
  <2>2. CASE q = p
    <3>1. log'.wire[q] = log.wire[p] \o hw.tx[p] /\ hw'.tx[q] = <<>>
      BY <1>1, <1>5, <1>6, <2>2 DEF HwType, LogType
    <3> QED
      BY <1>4, <1>6, <2>1, <2>2, <3>1
  <2>3. CASE q # p
    <3>1. log'.wire[q] = log.wire[q] /\ hw'.tx[q] = hw.tx[q]
      BY <1>1, <1>5, <1>6, <2>3 DEF HwType, LogType
    <3> QED
      BY <1>6, <2>1, <3>1
  <2> QED
    BY <2>2, <2>3
<1>8. LossIsFlagged'
  BY <1>1, <1>5, <1>6 DEF LossIsFlagged
<1>9. \A q \in Ports : hw.tx[q] = <<>> => hw'.tx[q] = <<>>
  BY <1>1, <1>5 DEF HwType
<1> QED
  BY <1>2, <1>5, <1>6, <1>7, <1>8, <1>9, Unprogrammed

LEMMA ArriveStep ==
  ASSUME Inv, NEW p \in Ports, NEW c \in Chars, Arrive(p, c)
  PROVE  Inv'
<1> DEFINE lost == IF hw.rx[p] # <<>> THEN {<<p, "RXOR">>} ELSE {}
<1>1. hw \in HwType /\ log \in LogType /\ SentInOrder /\ LossIsFlagged
  BY DEF Inv, Typed, HwType, LogType
<1>2. UNCHANGED <<dev, reg, todo, tmp, base>>
  BY DEF Arrive
<1>3. /\ hw' = [hw EXCEPT !.rx[p] = <<c>>, !.over = @ \cup lost]
      /\ log' = [log EXCEPT !.came[p] = Append(log.came[p], c),
                            !.cleared = IF hw.rx[p] # <<>> THEN @ \ {p} ELSE @]
  BY DEF Arrive
<1>4. /\ <<c>> \in Seq(Chars) /\ <<c>> # <<>> /\ Append(log.came[p], c) \in Seq(Chars)
      /\ lost \subseteq Ports \X {"TXOR", "RXOR"}
  BY <1>1 DEF LogType
<1>5. /\ hw' \in HwType /\ hw'.tx = hw.tx /\ hw'.over = hw.over \cup lost
      /\ hw'.value = hw.value /\ hw'.rx = [hw.rx EXCEPT ![p] = <<c>>]
  BY <1>1, <1>3, <1>4 DEF HwType
<1>6. /\ log' \in LogType /\ log'.sent = log.sent /\ log'.got = log.got
      /\ log'.wire = log.wire /\ log'.came = [log.came EXCEPT ![p] = Append(log.came[p], c)]
      /\ log'.cleared = IF hw.rx[p] # <<>> THEN log.cleared \ {p} ELSE log.cleared
  BY <1>1, <1>3, <1>4 DEF LogType
<1>7. SentInOrder'
  BY <1>1, <1>5, <1>6 DEF SentInOrder
<1>8. LossIsFlagged'
  <2> SUFFICES ASSUME NEW q \in Ports
               PROVE  \/ log'.got[q] \o hw'.rx[q] = log'.came[q]
                      \/ <<q, "RXOR">> \in hw'.over
                      \/ q \in log'.cleared
    BY DEF LossIsFlagged
  <2>1. \/ log.got[q] \o hw.rx[q] = log.came[q]
        \/ <<q, "RXOR">> \in hw.over
        \/ q \in log.cleared
    BY <1>1 DEF LossIsFlagged
  <2>2. CASE q # p
    <3>1. hw'.rx[q] = hw.rx[q] /\ log'.came[q] = log.came[q]
      BY <1>1, <1>5, <1>6, <2>2 DEF HwType, LogType
    <3> QED
      BY <1>5, <1>6, <2>1, <2>2, <3>1
  <2>3. CASE q = p /\ hw.rx[p] # <<>>
    BY <1>5, <2>3
  <2>4. CASE q = p /\ hw.rx[p] = <<>>
    <3>1. log.got[p] \in Seq(Chars)
      BY <1>1 DEF LogType
    <3>2. log.got[p] \o <<>> = log.got[p] /\ log.got[p] \o <<c>> = Append(log.got[p], c)
      BY <3>1
    <3>3. hw'.rx[p] = <<c>> /\ log'.came[p] = Append(log.came[p], c)
      BY <1>1, <1>5, <1>6 DEF HwType, LogType
    <3>4. CASE log.got[q] \o hw.rx[q] = log.came[q]
      <4>1. log.came[p] = log.got[p]
        BY <2>4, <3>2, <3>4
      <4> QED
        BY <1>6, <2>4, <3>2, <3>3, <4>1
    <3>5. CASE <<q, "RXOR">> \in hw.over
      BY <1>5, <3>5
    <3>6. CASE q \in log.cleared
      BY <1>6, <2>4, <3>6
    <3> QED
      BY <2>1, <3>4, <3>5, <3>6
  <2> QED
    BY <2>2, <2>3, <2>4
<1>9. \A q \in Ports : hw.rx[q] # <<>> => hw'.rx[q] # <<>>
  BY <1>1, <1>4, <1>5 DEF HwType
<1> QED
  BY <1>2, <1>5, <1>6, <1>7, <1>8, <1>9, Unprogrammed

LEMMA PinEventStep ==
  ASSUME Inv, NEW n \in Pins, PinEvent(n)
  PROVE  Inv'
<1>1. hw \in HwType /\ log \in LogType /\ SentInOrder /\ LossIsFlagged
  BY DEF Inv, Typed, HwType, LogType
<1>2. UNCHANGED <<dev, reg, todo, tmp, base, log>>
  BY DEF PinEvent
<1>3. hw' = [hw EXCEPT !.ints = @ \cup {n}] /\ n \in Bits
  BY DEF PinEvent, Bits
<1>4. /\ hw' \in HwType /\ hw'.tx = hw.tx /\ hw'.rx = hw.rx /\ hw'.over = hw.over
      /\ hw'.value = hw.value
  BY <1>1, <1>3 DEF HwType
<1>5. SentInOrder' /\ LossIsFlagged' /\ log' \in LogType
  BY <1>1, <1>2, <1>4 DEF SentInOrder, LossIsFlagged
<1> QED
  BY <1>2, <1>4, <1>5, Unprogrammed

-----------------------------------------------------------------------------
(* What a sequence of accesses does, when nothing comes between.            *)

\* Induction over the natural numbers, for a set.
LEMMA NatSetInduction ==
  ASSUME NEW T, 0 \in T, \A n \in Nat : n \in T => n + 1 \in T
  PROVE  \A n \in Nat : n \in T
<1> DEFINE R == {ss \in Nat \X Nat : ss[1] < ss[2]}
<1>1. R = OpToRel(<, Nat)
  BY Zenon DEF OpToRel
<1>2. IsWellFoundedOn(R, Nat)
  BY <1>1, NatLessThanWellFounded
<1>3. SUFFICES ASSUME Nat \ T # {} PROVE FALSE
  OBVIOUS
<1>4. PICK x \in Nat \ T : \A y \in Nat \ T : <<y, x>> \notin R
  <2> HIDE DEF R
  <2> QED
    BY <1>2, <1>3, WFMin
<1>5. x # 0 /\ x - 1 \in Nat
  BY <1>4
<1>6. <<x - 1, x>> \in R
  BY <1>5
<1>7. x - 1 \in T
  BY <1>4, <1>5, <1>6
<1> QED
  BY <1>4, <1>5, <1>7

\* The states after the first accesses of a sequence.
IsRun(f, q, s, n) == f = [i \in 0 .. n |-> IF i = 0 THEN s ELSE Alone(f[i - 1], q[i])]

LEMMA RunExists ==
  ASSUME NEW q, NEW s, NEW n \in Nat
  PROVE  \E f : IsRun(f, q, s, n)
<1> DEFINE T == {m \in Nat : \E f : IsRun(f, q, s, m)}
<1>1. 0 \in T
  <2>1. IsRun([i \in 0 .. 0 |-> s], q, s, 0)
    BY DEF IsRun
  <2> QED
    BY <2>1
<1>2. ASSUME NEW m \in Nat, m \in T PROVE m + 1 \in T
  <2>1. PICK f : IsRun(f, q, s, m)
    BY <1>2
  <2> DEFINE g == [i \in 0 .. (m + 1) |-> IF i <= m THEN f[i] ELSE Alone(f[m], q[m + 1])]
  <2>2. ASSUME NEW i \in 0 .. (m + 1)
        PROVE  g[i] = IF i = 0 THEN s ELSE Alone(g[i - 1], q[i])
    <3>1. CASE i = 0
      BY <2>1, <3>1 DEF IsRun
    <3>2. CASE i \in 1 .. m
      BY <2>1, <3>2 DEF IsRun
    <3>3. CASE i = m + 1
      BY <3>3
    <3> QED
      BY <3>1, <3>2, <3>3
  <2>3. IsRun(g, q, s, m + 1)
    <3>1. g = [i \in 0 .. (m + 1) |-> g[i]]
      OBVIOUS
    <3> HIDE DEF g
    <3>2. [i \in 0 .. (m + 1) |-> g[i]]
             = [i \in 0 .. (m + 1) |-> IF i = 0 THEN s ELSE Alone(g[i - 1], q[i])]
      BY <2>2
    <3> QED
      BY <3>1, <3>2, Zenon DEF IsRun
  <2> QED
    BY <2>3
<1>3. n \in T
  <2> HIDE DEF T
  <2> QED
    BY <1>1, <1>2, NatSetInduction
<1> QED
  BY <1>3

\* Uninterrupted is the last of them.
LEMMA LastOfRun ==
  ASSUME NEW q, NEW s, Len(q) \in Nat
  PROVE  \E f : IsRun(f, q, s, Len(q)) /\ Uninterrupted(q, s) = f[Len(q)]
<1> DEFINE f == CHOOSE f : f = [i \in 0 .. Len(q) |-> IF i = 0 THEN s ELSE Alone(f[i - 1], q[i])]
<1>1. Uninterrupted(q, s) = f[Len(q)]
  BY Zenon DEF Uninterrupted
<1>2. IsRun(f, q, s, Len(q))
  <2>1. \E g : IsRun(g, q, s, Len(q))
    BY RunExists
  <2> QED
    BY <2>1, Zenon DEF IsRun
<1> QED
  BY <1>1, <1>2

LEMMA NoAccess ==
  ASSUME NEW s
  PROVE  Uninterrupted(<<>>, s) = s
<1>1. Len(<<>>) = 0
  OBVIOUS
<1>2. PICK f : IsRun(f, <<>>, s, 0) /\ Uninterrupted(<<>>, s) = f[0]
  <2> DEFINE e == <<>>
  <2>1. Len(e) = 0
    OBVIOUS
  <2> HIDE DEF e
  <2>2. \E f : IsRun(f, e, s, Len(e)) /\ Uninterrupted(e, s) = f[Len(e)]
    BY <2>1, LastOfRun
  <2> QED
    BY <2>1, <2>2 DEF e
<1> QED
  BY <1>2 DEF IsRun

\* It begins with the first access.
LEMMA FirstAccess ==
  ASSUME NEW S, NEW q \in Seq(S), q # <<>>, NEW s
  PROVE  Uninterrupted(q, s) = Uninterrupted(Tail(q), Alone(s, Head(q)))
<1> DEFINE n == Len(Tail(q))
<1>1. /\ n \in Nat /\ Len(q) = n + 1 /\ Head(q) = q[1]
      /\ \A i \in 1 .. n : Tail(q)[i] = q[i + 1]
  OBVIOUS
<1>2. PICK f : IsRun(f, q, s, n + 1) /\ Uninterrupted(q, s) = f[n + 1]
  BY <1>1, LastOfRun
<1>3. PICK g : IsRun(g, Tail(q), Alone(s, Head(q)), n)
               /\ Uninterrupted(Tail(q), Alone(s, Head(q))) = g[n]
  BY <1>1, LastOfRun
<1> DEFINE T == {i \in Nat : i <= n => g[i] = f[i + 1]}
<1> HIDE DEF n
<1>4. 0 \in T
  BY <1>1, <1>2, <1>3 DEF IsRun
<1>5. ASSUME NEW i \in Nat, i \in T PROVE i + 1 \in T
  <2> SUFFICES ASSUME i + 1 <= n PROVE g[i + 1] = f[i + 2]
    OBVIOUS
  <2>1. g[i] = f[i + 1]
    BY <1>1, <1>5
  <2>2. g[i + 1] = Alone(g[i], Tail(q)[i + 1])
    BY <1>1, <1>3 DEF IsRun
  <2>3. f[i + 2] = Alone(f[i + 1], q[i + 2])
    BY <1>1, <1>2 DEF IsRun
  <2>4. Tail(q)[i + 1] = q[i + 2]
    BY <1>1
  <2> QED
    BY <2>1, <2>2, <2>3, <2>4
<1>6. n \in T
  <2> HIDE DEF T
  <2> QED
    BY <1>1, <1>4, <1>5, NatSetInduction
<1> QED
  BY <1>1, <1>2, <1>3, <1>6

-----------------------------------------------------------------------------
(* States and accesses.                                                     *)

Regs == SetRegs \cup NumRegs
IsState(s) == s = [R |-> s.R, t |-> s.t] /\ s.R = [r \in Regs |-> s.R[r]]

LEMMA AloneState ==
  ASSUME NEW a \in Accesses, NEW s, IsState(s)
  PROVE  IsState(Alone(s, a))
<1>1. CASE a.reg \notin DOMAIN s.R
  BY <1>1 DEF Alone
<1>2. CASE a.reg \in DOMAIN s.R
  <2>1. a.reg \in Regs
    BY <1>2 DEF IsState
  <2>2. a \in Quiet
    BY <2>1, Places DEF Accesses, Regs
  <2>3. a.op \in {"write", "num", "set", "clr", "or", "and", "masked", "read", "readnum"}
    BY <2>1, <2>2, Places DEF Quiet, Looks, Regs
  <2>4. Written(s.R, s.t, a) = [r \in Regs |-> Written(s.R, s.t, a)[r]]
    <3>1. Written(s.R, s.t, a) = s.R \/ \E v : Written(s.R, s.t, a) = [s.R EXCEPT ![a.reg] = v]
      BY <2>3 DEF Written
    <3> QED
      BY <3>1 DEF IsState
  <2> QED
    BY <1>2, <2>4 DEF Alone, IsState
<1> QED
  BY <1>1, <1>2

\* Accesses elsewhere leave the registers.
LEMMA ElsewhereKeeps ==
  ASSUME NEW q, Len(q) \in Nat, NEW s, \A i \in 1 .. Len(q) : q[i].reg \notin DOMAIN s.R
  PROVE  Uninterrupted(q, s) = s
<1> DEFINE n == Len(q)
<1>1. PICK f : IsRun(f, q, s, n) /\ Uninterrupted(q, s) = f[n]
  BY LastOfRun
<1> DEFINE T == {i \in Nat : i <= n => f[i] = s}
<1> HIDE DEF n
<1>2. n \in Nat
  BY DEF n
<1>3. 0 \in T
  BY <1>1, <1>2 DEF IsRun
<1>4. ASSUME NEW i \in Nat, i \in T PROVE i + 1 \in T
  <2> SUFFICES ASSUME i + 1 <= n PROVE f[i + 1] = s
    OBVIOUS
  <2>1. f[i + 1] = Alone(f[i], q[i + 1])
    BY <1>1, <1>2 DEF IsRun
  <2>2. f[i] = s /\ q[i + 1].reg \notin DOMAIN s.R
    BY <1>2, <1>4 DEF n
  <2> QED
    BY <2>1, <2>2 DEF Alone
<1>5. n \in T
  <2> HIDE DEF T
  <2> QED
    BY <1>2, <1>3, <1>4, NatSetInduction
<1> QED
  BY <1>1, <1>2, <1>5

\* A sequence leaves a state of the registers.
LEMMA RunState ==
  ASSUME NEW q \in Seq(Accesses), NEW s, IsState(s)
  PROVE  IsState(Uninterrupted(q, s))
<1> DEFINE n == Len(q)
<1>1. PICK f : IsRun(f, q, s, n) /\ Uninterrupted(q, s) = f[n]
  BY LastOfRun
<1> DEFINE T == {i \in Nat : i <= n => IsState(f[i])}
<1>2. n \in Nat /\ \A i \in 1 .. n : q[i] \in Accesses
  OBVIOUS
<1> HIDE DEF n
<1>3. 0 \in T
  BY <1>1, <1>2 DEF IsRun
<1>4. ASSUME NEW i \in Nat, i \in T PROVE i + 1 \in T
  <2> SUFFICES ASSUME i + 1 <= n PROVE IsState(f[i + 1])
    OBVIOUS
  <2>1. f[i + 1] = Alone(f[i], q[i + 1])
    BY <1>1, <1>2 DEF IsRun
  <2>2. IsState(f[i]) /\ q[i + 1] \in Accesses
    BY <1>2, <1>4
  <2> QED
    BY <2>1, <2>2, AloneState
<1>5. n \in T
  <2> HIDE DEF T
  <2> QED
    BY <1>2, <1>3, <1>4, NatSetInduction
<1> QED
  BY <1>1, <1>2, <1>5

\* Only the second half of a read and a write depends on what was read.
LEMMA Unread ==
  ASSUME NEW q \in Seq(Accesses), \A i \in 1 .. Len(q) : q[i].op \notin {"or", "and"},
         NEW s, IsState(s), NEW u, IsState(u), s.R = u.R
  PROVE  Uninterrupted(q, s).R = Uninterrupted(q, u).R
<1> DEFINE n == Len(q)
<1>1. PICK f : IsRun(f, q, s, n) /\ Uninterrupted(q, s) = f[n]
  BY LastOfRun
<1>2. PICK g : IsRun(g, q, u, n) /\ Uninterrupted(q, u) = g[n]
  BY LastOfRun
<1> DEFINE T == {i \in Nat : i <= n => IsState(f[i]) /\ IsState(g[i]) /\ f[i].R = g[i].R}
<1>3. n \in Nat /\ \A i \in 1 .. n : q[i] \in Accesses /\ q[i].op \notin {"or", "and"}
  OBVIOUS
<1> HIDE DEF n
<1>4. 0 \in T
  BY <1>1, <1>2, <1>3 DEF IsRun
<1>5. ASSUME NEW i \in Nat, i \in T PROVE i + 1 \in T
  <2> SUFFICES ASSUME i + 1 <= n
               PROVE  IsState(f[i + 1]) /\ IsState(g[i + 1]) /\ f[i + 1].R = g[i + 1].R
    OBVIOUS
  <2>1. PICK a : a = q[i + 1]
    OBVIOUS
  <2>2. f[i + 1] = Alone(f[i], a) /\ g[i + 1] = Alone(g[i], a)
    BY <1>1, <1>2, <1>3, <2>1 DEF IsRun
  <2>3. /\ IsState(f[i]) /\ IsState(g[i]) /\ f[i].R = g[i].R
        /\ a \in Accesses /\ a.op \notin {"or", "and"}
    BY <1>3, <1>5, <2>1
  <2>4. IsState(f[i + 1]) /\ IsState(g[i + 1])
    BY <2>2, <2>3, AloneState
  <2>5. CASE a.reg \notin DOMAIN f[i].R
    BY <2>2, <2>3, <2>4, <2>5 DEF Alone
  <2>6. CASE a.reg \in DOMAIN f[i].R
    <3>1. a.reg \in Regs
      BY <2>3, <2>6 DEF IsState
    <3>2. a.op \in {"write", "num", "set", "clr", "masked", "read", "readnum"}
      BY <3>1, <2>3, Places DEF Accesses, Quiet, Looks, Regs
    <3>3. Written(f[i].R, f[i].t, a) = Written(g[i].R, g[i].t, a)
      BY <3>2, <2>3 DEF Written
    <3>4. f[i + 1].R = Written(f[i].R, f[i].t, a) /\ g[i + 1].R = Written(g[i].R, g[i].t, a)
      BY <2>2, <2>3, <2>6 DEF Alone
    <3> QED
      BY <2>4, <3>3, <3>4
  <2> QED
    BY <2>5, <2>6
<1>6. n \in T
  <2> HIDE DEF T
  <2> QED
    BY <1>3, <1>4, <1>5, NatSetInduction
<1> QED
  BY <1>1, <1>2, <1>3, <1>6

-----------------------------------------------------------------------------
(* Accesses to pins.                                                        *)

Adds(a) == CASE a.op = "set" -> a.val
             [] a.op = "masked" -> a.val \cap a.mask
             [] OTHER -> {}
Drops(a) == CASE a.op = "clr" -> a.val
              [] a.op = "masked" -> a.mask
              [] OTHER -> {}
Touched(a) == Adds(a) \cup Drops(a)
Put(R, a) == [r \in Regs |-> IF r = a.reg THEN (R[r] \ Drops(a)) \cup Adds(a) ELSE R[r]]

LEMMA PinAccessesAreAccesses ==
  ASSUME NEW own \in SUBSET Pins, NEW q \in Seq(PinAccesses(own))
  PROVE  q \in Seq(Accesses) /\ \A i \in 1 .. Len(q) : q[i].op \notin {"or", "and"}
<1>1. \A a \in PinAccesses(own) : a \in Accesses /\ a.op \notin {"or", "and"}
  BY DEF PinAccesses, Accesses, Quiet, Looks, Bits
<1> QED
  BY <1>1

\* Such an access does not depend on what was read.
LEMMA PinAccess ==
  ASSUME NEW own, NEW a \in PinAccesses(own), NEW s, IsState(s)
  PROVE  /\ Alone(s, a).R = Put(s.R, a) /\ IsState(Alone(s, a))
         /\ Adds(a) \subseteq own /\ Drops(a) \subseteq own
<1>1. a.op \in {"set", "clr", "read", "masked"}
  BY DEF PinAccesses
<1>2. Adds(a) \subseteq own /\ Drops(a) \subseteq own
  <2>1. /\ a.op \in {"set", "clr"} => a.val \subseteq own
        /\ a.op = "masked" => a.mask \subseteq own
    BY DEF PinAccesses
  <2> QED
    BY <1>1, <2>1 DEF Adds, Drops
<1>3. CASE a.reg \notin Regs
  <2>1. Alone(s, a) = s
    BY <1>3 DEF Alone, IsState
  <2>2. Put(s.R, a) = [r \in Regs |-> s.R[r]]
    BY <1>3 DEF Put
  <2> QED
    BY <1>2, <2>1, <2>2 DEF IsState
<1>4. CASE a.reg \in Regs
  <2> DEFINE v == (s.R[a.reg] \ Drops(a)) \cup Adds(a)
  <2>1. Alone(s, a).R = Written(s.R, s.t, a) /\ Alone(s, a) = [R |-> Alone(s, a).R, t |-> Alone(s, a).t]
    BY <1>4 DEF Alone, IsState
  <2>2. DOMAIN s.R = Regs
    BY DEF IsState
  <2>3. Written(s.R, s.t, a) = [s.R EXCEPT ![a.reg] = v]
    <3>1. CASE a.op = "set"
      <4>1. v = s.R[a.reg] \cup a.val
        BY <3>1 DEF Adds, Drops
      <4>2. Written(s.R, s.t, a) = [s.R EXCEPT ![a.reg] = s.R[a.reg] \cup a.val]
        BY <3>1 DEF Written
      <4> QED
        BY <4>1, <4>2, Zenon
    <3>2. CASE a.op = "clr"
      <4>1. v = s.R[a.reg] \ a.val
        BY <3>2 DEF Adds, Drops
      <4>2. Written(s.R, s.t, a) = [s.R EXCEPT ![a.reg] = s.R[a.reg] \ a.val]
        BY <3>2 DEF Written
      <4> QED
        BY <4>1, <4>2, Zenon
    <3>3. CASE a.op = "masked"
      <4>1. v = (s.R[a.reg] \ a.mask) \cup (a.val \cap a.mask)
        BY <3>3 DEF Adds, Drops
      <4>2. Written(s.R, s.t, a)
              = [s.R EXCEPT ![a.reg] = (s.R[a.reg] \ a.mask) \cup (a.val \cap a.mask)]
        BY <3>3 DEF Written
      <4> QED
        BY <4>1, <4>2, Zenon
    <3>4. CASE a.op = "read"
      <4>1. v = s.R[a.reg]
        BY <3>4 DEF Adds, Drops
      <4>2. Written(s.R, s.t, a) = s.R
        BY <3>4 DEF Written
      <4>3. [s.R EXCEPT ![a.reg] = s.R[a.reg]] = s.R
        BY <2>2 DEF IsState
      <4> QED
        BY <4>1, <4>2, <4>3, Zenon
    <3> QED
      BY <1>1, <3>1, <3>2, <3>3, <3>4
  <2>4. [s.R EXCEPT ![a.reg] = v] = Put(s.R, a)
    <3> HIDE DEF v
    <3>1. [s.R EXCEPT ![a.reg] = v] = [r \in Regs |-> IF r = a.reg THEN v ELSE s.R[r]]
      BY <2>2
    <3>2. Put(s.R, a) = [r \in Regs |-> IF r = a.reg THEN v ELSE s.R[r]]
      BY Zenon DEF Put, v
    <3> QED
      BY <3>1, <3>2
  <2>5. IsState(Alone(s, a))
    <3>1. Put(s.R, a) = [r \in Regs |-> Put(s.R, a)[r]]
      BY DEF Put
    <3> QED
      BY <2>1, <2>3, <2>4, <3>1 DEF IsState
  <2> QED
    BY <1>2, <2>1, <2>3, <2>4, <2>5
<1> QED
  BY <1>3, <1>4

\* What a sequence does to the bit of n in register r.
Keeps(q, r, n) == \A s : IsState(s) => (n \in Uninterrupted(q, s).R[r] <=> n \in s.R[r])
Raises(q, r, n) == \A s : IsState(s) => n \in Uninterrupted(q, s).R[r]
Clears(q, r, n) == \A s : IsState(s) => n \notin Uninterrupted(q, s).R[r]

\* What the rest of a sequence makes of a bit, the whole of it does.
LEMMA FirstPinAccess ==
  ASSUME NEW own, NEW q \in Seq(PinAccesses(own)), q # <<>>, NEW r \in Regs, NEW n
  PROVE  /\ Raises(Tail(q), r, n) => Raises(q, r, n)
         /\ Clears(Tail(q), r, n) => Clears(q, r, n)
         /\ Keeps(Tail(q), r, n) => Keeps(q, r, n) \/ Raises(q, r, n) \/ Clears(q, r, n)
         /\ Keeps(Tail(q), r, n) /\ n \notin own => Keeps(q, r, n)
<1> DEFINE a == Head(q)
<1>1. a \in PinAccesses(own)
  BY Cut
<1> HIDE DEF a
<1>2. ASSUME NEW s, IsState(s)
      PROVE  /\ Uninterrupted(q, s) = Uninterrupted(Tail(q), Alone(s, a))
             /\ IsState(Alone(s, a))
             /\ n \in Alone(s, a).R[r]
                  <=> IF r = a.reg THEN (n \in s.R[r] /\ n \notin Drops(a)) \/ n \in Adds(a)
                                   ELSE n \in s.R[r]
  <2>1. Alone(s, a).R = Put(s.R, a) /\ IsState(Alone(s, a))
    BY <1>1, <1>2, PinAccess
  <2>2. Uninterrupted(q, s) = Uninterrupted(Tail(q), Alone(s, a))
    BY FirstAccess DEF a
  <2>3. Put(s.R, a)[r] = IF r = a.reg THEN (s.R[r] \ Drops(a)) \cup Adds(a) ELSE s.R[r]
    BY DEF Put
  <2> QED
    BY <2>1, <2>2, <2>3
<1>3. ASSUME n \notin own PROVE n \notin Adds(a) /\ n \notin Drops(a)
  <2>1. IsState([R |-> [x \in Regs |-> {}], t |-> {}])
    BY DEF IsState
  <2> QED
    BY <1>1, <1>3, <2>1, PinAccess
<1>4. Raises(Tail(q), r, n) => Raises(q, r, n)
  BY <1>2 DEF Raises
<1>5. Clears(Tail(q), r, n) => Clears(q, r, n)
  BY <1>2 DEF Clears
<1>6. ASSUME Keeps(Tail(q), r, n), NEW s, IsState(s)
      PROVE  n \in Uninterrupted(q, s).R[r]
               <=> IF r = a.reg THEN (n \in s.R[r] /\ n \notin Drops(a)) \/ n \in Adds(a)
                                ELSE n \in s.R[r]
  BY <1>2, <1>6 DEF Keeps
<1>7. ASSUME Keeps(Tail(q), r, n)
      PROVE  Keeps(q, r, n) \/ Raises(q, r, n) \/ Clears(q, r, n)
  <2>1. CASE r # a.reg \/ (n \notin Adds(a) /\ n \notin Drops(a))
    BY <1>6, <1>7, <2>1 DEF Keeps
  <2>2. CASE r = a.reg /\ n \in Adds(a)
    BY <1>6, <1>7, <2>2 DEF Raises
  <2>3. CASE r = a.reg /\ n \notin Adds(a) /\ n \in Drops(a)
    BY <1>6, <1>7, <2>3 DEF Clears
  <2> QED
    BY <2>1, <2>2, <2>3
<1>8. ASSUME Keeps(Tail(q), r, n), n \notin own PROVE Keeps(q, r, n)
  BY <1>3, <1>6, <1>8 DEF Keeps
<1> QED
  BY <1>4, <1>5, <1>7, <1>8

\* A sequence of accesses to pins keeps a bit, or leaves the same in it whatever
\* was there; it keeps the bits of other pins.
LEMMA PinRun ==
  ASSUME NEW own, NEW r \in Regs, NEW n, NEW q \in Seq(PinAccesses(own))
  PROVE  /\ Keeps(q, r, n) \/ Raises(q, r, n) \/ Clears(q, r, n)
         /\ n \notin own => Keeps(q, r, n)
<1> DEFINE P(x) == /\ Keeps(x, r, n) \/ Raises(x, r, n) \/ Clears(x, r, n)
                   /\ n \notin own => Keeps(x, r, n)
           T == {k \in Nat : \A x \in Seq(PinAccesses(own)) : Len(x) = k => P(x)}
<1>1. 0 \in T
  <2>1. P(<<>>)
    BY NoAccess DEF Keeps
  <2>2. \A x \in Seq(PinAccesses(own)) : Len(x) = 0 => x = <<>>
    OBVIOUS
  <2> HIDE DEF P
  <2> QED
    BY <2>1, <2>2
<1>2. ASSUME NEW k \in Nat, k \in T PROVE k + 1 \in T
  <2>1. ASSUME NEW x \in Seq(PinAccesses(own)), Len(x) = k + 1 PROVE P(x)
    <3>1. x # <<>> /\ Tail(x) \in Seq(PinAccesses(own)) /\ Len(Tail(x)) = k
      BY <2>1
    <3>2. P(Tail(x))
      <4> HIDE DEF P
      <4> QED
        BY <1>2, <3>1
    <3> QED
      BY <3>1, <3>2, FirstPinAccess, Zenon
  <2> HIDE DEF P
  <2> QED
    BY <2>1
<1>3. Len(q) \in T
  <2> HIDE DEF T
  <2>1. Len(q) \in Nat
    OBVIOUS
  <2> QED
    BY <2>1, <1>1, <1>2, NatSetInduction
<1> QED
  BY <1>3, Zenon

\* It leaves the registers of the other peripherals.
LEMMA PinRunElsewhere ==
  ASSUME NEW own, NEW r \in Regs \ GpioRegs, NEW q \in Seq(PinAccesses(own)),
         NEW s, IsState(s)
  PROVE  Uninterrupted(q, s).R[r] = s.R[r]
<1> DEFINE P(x) == \A u : IsState(u) => Uninterrupted(x, u).R[r] = u.R[r]
           T == {k \in Nat : \A x \in Seq(PinAccesses(own)) : Len(x) = k => P(x)}
<1>1. 0 \in T
  <2>1. P(<<>>)
    BY NoAccess
  <2>2. \A x \in Seq(PinAccesses(own)) : Len(x) = 0 => x = <<>>
    OBVIOUS
  <2> HIDE DEF P
  <2> QED
    BY <2>1, <2>2
<1>2. ASSUME NEW k \in Nat, k \in T PROVE k + 1 \in T
  <2>1. ASSUME NEW x \in Seq(PinAccesses(own)), Len(x) = k + 1 PROVE P(x)
    <3>1. /\ x # <<>> /\ Tail(x) \in Seq(PinAccesses(own)) /\ Len(Tail(x)) = k
          /\ Head(x) \in PinAccesses(own)
      BY <2>1
    <3>2. P(Tail(x))
      <4> HIDE DEF P
      <4> QED
        BY <1>2, <3>1
    <3>3. Head(x).reg # r
      <4>1. \A a \in PinAccesses(own) : a.reg \in GpioRegs \cup {"INTSTATUS"}
        BY DEF PinAccesses, GpioRegs
      <4> QED
        BY <3>1, <4>1, Places DEF Regs
    <3>4. ASSUME NEW u, IsState(u) PROVE Uninterrupted(x, u).R[r] = u.R[r]
      <4>1. Uninterrupted(x, u) = Uninterrupted(Tail(x), Alone(u, Head(x)))
        BY <3>1, FirstAccess
      <4>2. Alone(u, Head(x)).R = Put(u.R, Head(x)) /\ IsState(Alone(u, Head(x)))
        BY <3>1, <3>4, PinAccess
      <4>3. Put(u.R, Head(x))[r] = u.R[r]
        BY <3>3 DEF Put
      <4> QED
        BY <3>2, <4>1, <4>2, <4>3
    <3> QED
      BY <3>4
  <2> HIDE DEF P
  <2> QED
    BY <2>1
<1>3. Len(q) \in T
  <2> HIDE DEF T
  <2>1. Len(q) \in Nat
    OBVIOUS
  <2> QED
    BY <2>1, <1>1, <1>2, NatSetInduction
<1> QED
  BY <1>3, Zenon

-----------------------------------------------------------------------------
(* What the calls do to the registers.                                      *)

Elsewhere == {a \in Accesses : a.reg \notin Regs}

\* The handlers of the timer and of the serial ports leave the registers alone.
LEMMA IsrElsewhere ==
  ASSUME Typed, dev # "gpio", NEW b \in CallsOf("isr")
  PROVE  b \in Seq(Elsewhere)
<1>1. /\ b \in Seq(Accesses)
      /\ \A i \in 1 .. Len(b) : b[i].reg \in Ports \cup {"INTSTATUS", "VALUE"}
  <2>1. b \in Seq(Accesses)
    BY IsrBodyAccesses
  <2>2. CASE dev = "timer"
    BY <2>1, <2>2 DEF CallsOf, TimerIsrCalls, CMSDK_timer_ClearIRQ, CMSDK_timer_StatusIRQ,
       CMSDK_timer_GetValue, ClrBits, Read, ReadNum, Acc
  <2>3. CASE dev = "uart"
    <3>1. b \in UartIsrCalls
      BY <2>3 DEF CallsOf
    <3>2. \/ \E p \in Ports : b \in {<<Acc("flags", p, {})>>, <<Acc("rxfull", p, {})>>,
                                     <<Acc("clrflags", p, {}), Acc("flags", p, {})>>,
                                     <<Acc("waitrx", p, {}), Acc("take", p, {})>>}
          \/ b \in {<<ClrBits("INTSTATUS", {"rx"})>>, <<Read("INTSTATUS")>>}
          \/ b = <<Acc("waitany", "UART2", {}), Acc("getc", "UART2", {})>>
      BY <3>1 DEF UartIsrCalls, CMSDK_uart_GetOverrunStatus, CMSDK_uart_ClearOverrunStatus,
         CMSDK_uart_GetRxBufferFull, CMSDK_uart_ClearRxIRQ, CMSDK_uart_GetRxIRQStatus,
         CMSDK_uart_ReceiveChar, UartGetc
    <3> QED
      BY <2>1, <3>2 DEF ClrBits, Read, Acc, Ports
  <2> QED
    BY <2>1, <2>2, <2>3 DEF Typed
<1>2. \A i \in 1 .. Len(b) : b[i] \in Elsewhere
  BY <1>1, Places DEF Elsewhere, Regs
<1> QED
  BY <1>1, <1>2

\* A call of the program writes nothing it has not read itself.
LEMMA MainUnread ==
  ASSUME Typed, NEW b \in CallsOf("main"), NEW s, IsState(s), NEW u, IsState(u), s.R = u.R
  PROVE  Uninterrupted(b, s).R = Uninterrupted(b, u).R
<1>1. b \in Seq(Accesses)
  BY MainBodyAccesses
<1>2. CASE \E v \in {{"IRQEN"}, {"EN"}} :
             b \in {<<Read("CTRL"), WriteOr("CTRL", v)>>, <<Read("CTRL"), WriteAnd("CTRL", v)>>}
  <2>1. b # <<>> /\ Head(b) = Read("CTRL")
    BY <1>2
  <2>2. \A x : IsState(x) => Alone(x, Read("CTRL")) = [R |-> x.R, t |-> x.R["CTRL"]]
    <3>1. /\ Read("CTRL").op = "read" /\ Read("CTRL").reg = "CTRL"
          /\ \A R, t : Written(R, t, Read("CTRL")) = R
      BY DEF Read, Acc, Written
    <3>2. "CTRL" \in Regs
      BY Places DEF Regs
    <3> QED
      BY <3>1, <3>2 DEF Alone, IsState
  <2>3. Alone(s, Head(b)) = Alone(u, Head(b))
    BY <2>1, <2>2
  <2> QED
    BY <1>1, <2>1, <2>3, FirstAccess
<1>3. CASE \A i \in 1 .. Len(b) : b[i].op \notin {"or", "and"}
  BY <1>1, <1>3, Unread
<1>4. ASSUME b \in TimerMainCalls,
             ~ \E v \in {{"IRQEN"}, {"EN"}} :
                 b \in {<<Read("CTRL"), WriteOr("CTRL", v)>>, <<Read("CTRL"), WriteAnd("CTRL", v)>>}
      PROVE  \A i \in 1 .. Len(b) : b[i].op \notin {"or", "and"}
  BY <1>4, TimerBody DEF Timer_Init, ReadNum, WriteNum, Write, Acc
<1>5. ASSUME b \in UartMainCalls
      PROVE  \A i \in 1 .. Len(b) : b[i].op \notin {"or", "and"}
  <2>1. ASSUME NEW p, NEW t, NEW r
        PROVE  \A i \in 1 .. Len(CMSDK_uart_init(p, 1, t, r)) :
                  CMSDK_uart_init(p, 1, t, r)[i].op \notin {"or", "and"}
    BY DEF CMSDK_uart_init, Write, WriteNum, Acc
  <2>2. ASSUME NEW p, NEW c
        PROVE  \A i \in 1 .. Len(CMSDK_uart_SendChar(p, c)) :
                  CMSDK_uart_SendChar(p, c)[i].op \notin {"or", "and"}
    BY DEF CMSDK_uart_SendChar, SendTo, Acc
  <2>3. ASSUME NEW x, x.op \notin {"or", "and"}
        PROVE  \A i \in 1 .. Len(<<x>>) : <<x>>[i].op \notin {"or", "and"}
    BY <2>3
  <2>4. /\ \A p : Acc("txfull", p, {}).op = "txfull" /\ ReadNum(BaudOf(p)).op = "readnum"
        /\ ClrBits("INTSTATUS", {"tx"}).op = "clr" /\ Read("INTSTATUS").op = "read"
    BY DEF Acc, ReadNum, ClrBits, Read
  <2>5. \A c : \A i \in 1 .. Len(UartPutc(c)) : UartPutc(c)[i].op \notin {"or", "and"}
    BY DEF UartPutc
  <2>6. \A i \in 1 .. Len(UartStdOutInit) : UartStdOutInit[i].op \notin {"or", "and"}
    BY DEF UartStdOutInit, Write, WriteNum, SetBits, Acc
  <2>7. \A i \in 1 .. Len(Uart2StdOutInit) : Uart2StdOutInit[i].op \notin {"or", "and"}
    BY DEF Uart2StdOutInit, Write, WriteNum, SetBits, Acc
  <2> QED
    BY <1>5, UartBody, <2>1, <2>2, <2>3, <2>4, <2>5, <2>6, <2>7
<1>6. ASSUME b \in GpioCalls(MainPins)
      PROVE  \A i \in 1 .. Len(b) : b[i].op \notin {"or", "and"}
  <2>1. MainPins \in SUBSET Pins
    BY DriverAssumption
  <2> QED
    BY <1>6, <2>1, GpioBody, PinAccessesAreAccesses
<1>7. b \in TimerMainCalls \/ b \in UartMainCalls \/ b \in GpioCalls(MainPins)
  BY DEF CallsOf, Typed
<1> QED
  BY <1>2, <1>3, <1>4, <1>5, <1>6, <1>7

\* Two states of the registers agree beside the shared pins.
IsRegs(R) == R = [r \in Regs |-> R[r]]

LEMMA BesideAgrees ==
  ASSUME NEW R, IsRegs(R), NEW W, IsRegs(W)
  PROVE  Beside(R) = Beside(W)
           <=> /\ \A r \in GpioRegs : \A n : n \notin Shared => (n \in R[r] <=> n \in W[r])
               /\ \A r \in Regs \ GpioRegs : R[r] = W[r]
<1>1. GpioRegs \subseteq Regs
  BY Places DEF Regs
<1>2. /\ Beside(R) = [r \in Regs |-> IF r \in GpioRegs THEN R[r] \ Shared ELSE R[r]]
      /\ Beside(W) = [r \in Regs |-> IF r \in GpioRegs THEN W[r] \ Shared ELSE W[r]]
  <2>1. DOMAIN R = Regs /\ DOMAIN W = Regs
    BY DEF IsRegs
  <2> QED
    BY <2>1 DEF Beside
<1>3. ASSUME Beside(R) = Beside(W)
      PROVE  /\ \A r \in GpioRegs : \A n : n \notin Shared => (n \in R[r] <=> n \in W[r])
             /\ \A r \in Regs \ GpioRegs : R[r] = W[r]
  <2>1. \A r \in GpioRegs : R[r] \ Shared = W[r] \ Shared
    BY <1>1, <1>2, <1>3
  <2>2. \A r \in Regs \ GpioRegs : R[r] = W[r]
    BY <1>2, <1>3
  <2> QED
    BY <2>1, <2>2
<1>4. ASSUME \A r \in GpioRegs : \A n : n \notin Shared => (n \in R[r] <=> n \in W[r]),
             \A r \in Regs \ GpioRegs : R[r] = W[r]
      PROVE  Beside(R) = Beside(W)
  <2>1. \A r \in GpioRegs : R[r] \ Shared = W[r] \ Shared
    BY <1>4
  <2>2. \A r \in Regs : (IF r \in GpioRegs THEN R[r] \ Shared ELSE R[r])
                          = (IF r \in GpioRegs THEN W[r] \ Shared ELSE W[r])
    BY <1>4, <2>1
  <2> QED
    BY <1>2, <2>2
<1> QED
  BY <1>3, <1>4

\* A call that pins are set up with, on registers that agree about a bit.
LEMMA SameBit ==
  ASSUME NEW own, NEW q \in Seq(PinAccesses(own)), NEW r \in Regs, NEW n,
         NEW s, IsState(s), NEW u, IsState(u), n \in s.R[r] <=> n \in u.R[r]
  PROVE  n \in Uninterrupted(q, s).R[r] <=> n \in Uninterrupted(q, u).R[r]
BY PinRun DEF Keeps, Raises, Clears

-----------------------------------------------------------------------------
(* The calls are atomic.                                                    *)

\* The registers R once thread t has made the rest of its call.
Done(t, R) == Uninterrupted(todo[t], [R |-> R, t |-> tmp[t]]).R

\* With the handler's call finished, and then the program's, the registers are
\* what some serial order leaves; of the bits of shared pins each is.
OneOrder(R) == \E w \in want : Beside(R) = Beside(w)
EachBit(R) == \A r \in GpioRegs, n \in Shared : \E w \in want : n \in R[r] <=> n \in w[r]
Result == Done("main", Done("isr", reg))
Serial == /\ dev = "gpio" => OneOrder(Result) /\ EachBit(Result)
          /\ dev # "gpio" => Result \in want
Apart == /\ dev # "gpio" => todo["isr"] \in Seq(Elsewhere)
         /\ dev = "gpio" => /\ todo["main"] \in Seq(PinAccesses(MainPins))
                            /\ todo["isr"] \in Seq(PinAccesses(IsrPins))
\* A bit that the rest of the program's call sets or clears, its whole call does.
Outcomes == \A w \in want \cup base.outcomes : IsRegs(w)
Based == todo["main"] # <<>> =>
           /\ base.outcomes # {} /\ base.body \in Seq(Accesses)
           /\ dev = "gpio" =>
                \A r \in GpioRegs, n \in Shared :
                   /\ Raises(todo["main"], r, n) => Raises(base.body, r, n)
                   /\ Clears(todo["main"], r, n) => Clears(base.body, r, n)
AtomInv == Inv /\ Apart /\ Serial /\ Outcomes /\ Based

LEMMA DoneIdle ==
  ASSUME NEW t, NEW R, todo[t] = <<>>
  PROVE  Done(t, R) = R
BY NoAccess DEF Done

LEMMA RegState ==
  ASSUME Typed, NEW u
  PROVE  IsState([R |-> reg, t |-> u])
BY DEF Typed, IsState, Regs

LEMMA LastAccess ==
  ASSUME NEW S, NEW q \in Seq(S), Len(q) = 1
  PROVE  Tail(q) = <<>>
<1>1. Tail(q) \in Seq(S) /\ Len(Tail(q)) = 0
  OBVIOUS
<1>2. \A p \in Seq(S) : Len(p) = 0 => p = <<>>
  OBVIOUS
<1> QED
  BY ONLY <1>1, <1>2

\* An access of a thread leaves what its whole call does.
LEMMA AccessDone ==
  ASSUME Inv, Apart, NEW t \in Threads, Step(t)
  PROVE  /\ Done(t, reg)' = Done(t, reg)
         /\ \A u \in Threads \ {t} : todo'[u] = todo[u] /\ tmp'[u] = tmp[u]
         /\ t = "main" => todo["isr"] = <<>>
         /\ UNCHANGED <<dev, want>>
         /\ \/ todo[t] # <<>> /\ todo'[t] = Tail(todo[t])
            \/ dev # "gpio" /\ t = "main"
<1> DEFINE a == Head(todo[t])
           s == [R |-> reg, t |-> tmp[t]]
<1>1. Runs(t) /\ todo[t] # <<>> /\ todo[t] \in Seq(Accesses) /\ (t = "main" => todo["isr"] = <<>>)
  BY DEF Step, RegisterAccess, PeripheralAccess, SerialAccess, PutcAccess, Runs, Inv, Typed
<1>2. PICK rest : Goes(t, rest)
  BY DEF Step, RegisterAccess, PeripheralAccess, SerialAccess, PutcAccess
<1>3. todo'[t] = rest /\ \A u \in Threads \ {t} : todo'[u] = todo[u]
  BY <1>2 DEF Goes, Inv, Typed
<1>4. UNCHANGED <<dev, want>>
  BY <1>2 DEF Goes
<1>5. Done(t, reg) = Uninterrupted(Tail(todo[t]), Alone(s, a)).R
  BY <1>1, FirstAccess DEF Done
<1>6. IsState(s) /\ DOMAIN s.R = Regs
  BY RegState DEF IsState, Inv
<1>7. Done(t, reg)' = Uninterrupted(todo'[t], [R |-> reg', t |-> tmp'[t]]).R
  BY DEF Done
<1>8. CASE RegisterAccess(t)
  <2>1. /\ a.reg \in Regs /\ reg' = Written(reg, tmp[t], a) /\ Goes(t, Tail(todo[t]))
        /\ tmp' = [tmp EXCEPT ![t] = IF Len(todo[t]) = 1 THEN {}
                                     ELSE IF a.op = "read" THEN reg[a.reg] ELSE @]
    BY <1>8 DEF RegisterAccess, Inv, Typed, Regs
  <2>2. todo'[t] = Tail(todo[t])
    BY <2>1 DEF Goes, Inv, Typed
  <2>3. /\ \A u \in Threads \ {t} : tmp'[u] = tmp[u]
        /\ tmp'[t] = IF Len(todo[t]) = 1 THEN {} ELSE IF a.op = "read" THEN reg[a.reg] ELSE tmp[t]
    BY <2>1 DEF Inv, Typed
  <2>4. Alone(s, a) = [R |-> reg', t |-> IF a.op = "read" THEN reg[a.reg] ELSE tmp[t]]
    BY <2>1, <1>6 DEF Alone
  <2>5. CASE Len(todo[t]) = 1
    <3>1. Tail(todo[t]) = <<>>
      BY <1>1, <2>5, LastAccess
    <3>2. Done(t, reg) = reg'
      <4>1. Uninterrupted(Tail(todo[t]), Alone(s, a)) = Alone(s, a)
        BY <3>1, NoAccess
      <4>2. Alone(s, a).R = reg'
        BY <2>4
      <4> QED
        BY ONLY <4>1, <4>2, <1>5
    <3>3. Done(t, reg)' = reg'
      <4> DEFINE z == [R |-> reg', t |-> tmp'[t]]
      <4>1. Uninterrupted(todo'[t], z) = z
        <5> HIDE DEF z
        <5> QED
          BY <2>2, <3>1, NoAccess
      <4> QED
        BY <4>1, <1>7
    <3> QED
      BY <3>2, <3>3, <2>2, <2>3, <1>1, <1>3, <1>4
  <2>6. CASE Len(todo[t]) # 1
    BY <2>6, <2>2, <2>3, <2>4, <1>1, <1>3, <1>4, <1>5, <1>7
  <2> QED
    BY <2>5, <2>6
<1>9. CASE PeripheralAccess(t) \/ SerialAccess(t)
  <2>1. a.reg \in {"VALUE", "INTSTATUS"} \cup Ports /\ UNCHANGED <<reg, tmp>> /\ Goes(t, Tail(todo[t]))
    BY <1>9 DEF PeripheralAccess, SerialAccess
  <2>2. a.reg \notin Regs
    BY <2>1, Places DEF Regs
  <2>3. Alone(s, a) = s
    BY <2>2, <1>6 DEF Alone
  <2>4. todo'[t] = Tail(todo[t])
    BY <2>1 DEF Goes, Inv, Typed
  <2> QED
    BY <2>1, <2>3, <2>4, <1>1, <1>3, <1>4, <1>5, <1>7
<1>10. CASE PutcAccess(t)
  <2>1. t = "main" /\ a.op = "putc"
    BY <1>10, PutcOfMain DEF PutcAccess
  <2>2. PICK c \in Chars : todo["main"] = UartPutc(c)
    BY <1>10, PutcOfMain
  <2>3. /\ todo'["main"] = PutcBranch(a.chr) \o Tail(todo["main"]) /\ UNCHANGED <<reg, tmp>>
    BY <1>10, <2>1 DEF PutcAccess, Goes, Inv, Typed
  <2>4. todo'["main"] = PutcBranch(c)
    <3>1. Tail(todo["main"]) = <<>> /\ a.chr = c
      BY <2>1, <2>2 DEF UartPutc
    <3>2. PutcBranch(c) \o <<>> = PutcBranch(c)
      BY DEF PutcBranch
    <3> QED
      BY <2>3, <3>1, <3>2
  <2>5. Uninterrupted(PutcBranch(c), s) = s
    <3>1. Len(PutcBranch(c)) \in Nat
          /\ \A i \in 1 .. Len(PutcBranch(c)) : PutcBranch(c)[i].reg \in Ports
      BY DEF PutcBranch, Acc, SendTo, Ports
    <3> QED
      BY <3>1, <1>6, Places, ElsewhereKeeps DEF Regs
  <2>6. Uninterrupted(UartPutc(c), s) = s
    <3>1. Len(UartPutc(c)) \in Nat /\ \A i \in 1 .. Len(UartPutc(c)) : UartPutc(c)[i].reg \in Ports
      BY DEF UartPutc, Ports
    <3> QED
      BY <3>1, <1>6, Places, ElsewhereKeeps DEF Regs
  <2>7. Done(t, reg) = reg
    BY <2>1, <2>2, <2>6 DEF Done
  <2>8. Done(t, reg)' = reg
    <3>1. todo'[t] = PutcBranch(c) /\ [R |-> reg', t |-> tmp'[t]] = s
      BY <2>1, <2>3, <2>4
    <3> QED
      BY <3>1, <2>5, <1>7
  <2>9. dev # "gpio"
    <3>1. dev = "gpio" => a \in PinAccesses(MainPins)
      BY <2>1, <1>1, Cut DEF Apart
    <3>2. \A x \in PinAccesses(MainPins) : x.op # "putc"
      BY DEF PinAccesses
    <3> QED
      BY <2>1, <3>1, <3>2
  <2> QED
    BY <2>1, <2>3, <2>7, <2>8, <2>9, <1>1, <1>3, <1>4
<1> QED
  BY <1>8, <1>9, <1>10 DEF Step

\* An access keeps the rest of the invariant.
LEMMA StepSerial ==
  ASSUME AtomInv, NEW t \in Threads, Step(t)
  PROVE  Apart' /\ Serial'
<1> USE DEF AtomInv
<1>1. /\ Done(t, reg)' = Done(t, reg)
      /\ \A u \in Threads \ {t} : todo'[u] = todo[u] /\ tmp'[u] = tmp[u]
      /\ t = "main" => todo["isr"] = <<>>
      /\ dev' = dev /\ want' = want
      /\ \/ todo[t] # <<>> /\ todo'[t] = Tail(todo[t])
         \/ dev # "gpio" /\ t = "main"
  BY AccessDone
<1>2. Apart'
  <2>1. \A S : todo[t] # <<>> /\ todo[t] \in Seq(S) => Tail(todo[t]) \in Seq(S)
    BY Cut
  <2>2. CASE t = "main"
    <3>1. todo'["isr"] = todo["isr"]
      BY <1>1, <2>2 DEF Threads
    <3>2. dev = "gpio" => todo'["main"] \in Seq(PinAccesses(MainPins))
      BY <1>1, <2>1, <2>2 DEF Apart
    <3> QED
      BY <1>1, <3>1, <3>2 DEF Apart
  <2>3. CASE t = "isr"
    <3>1. todo'["main"] = todo["main"] /\ todo'["isr"] = Tail(todo["isr"])
      BY <1>1, <2>3 DEF Threads
    <3>2. todo["isr"] # <<>>
      BY <1>1, <2>3
    <3>3. \A S : todo["isr"] \in Seq(S) => todo'["isr"] \in Seq(S)
      BY <2>1, <2>3, <3>1, <3>2
    <3> QED
      BY <1>1, <3>1, <3>3 DEF Apart
  <2> QED
    BY <2>2, <2>3 DEF Threads
<1>3. CASE t = "main"
  <2>1. todo["isr"] = <<>> /\ todo'["isr"] = <<>>
    BY <1>1, <1>3 DEF Threads
  <2>2. Done("isr", reg) = reg
    BY <2>1, DoneIdle
  <2>3. Done("isr", reg)' = reg'
    BY <2>1, NoAccess DEF Done
  <2>4. Done("main", Done("isr", reg))' = Done("main", reg)'
    BY <2>3 DEF Done
  <2> QED
    <3>1. Result' = Result
      BY <1>1, <1>3, <2>2, <2>4 DEF Result
    <3> QED
      BY <1>1, <1>2, <3>1 DEF Serial, OneOrder, EachBit
<1>4. CASE t = "isr"
  <2>1. Done("isr", reg)' = Done("isr", reg)
    BY <1>1, <1>4
  <2>2. todo'["main"] = todo["main"] /\ tmp'["main"] = tmp["main"]
    BY <1>1, <1>4 DEF Threads
  <2>3. Done("main", Done("isr", reg))'
          = Uninterrupted(todo'["main"], [R |-> Done("isr", reg)', t |-> tmp'["main"]]).R
    BY DEF Done
  <2>4. Done("main", Done("isr", reg))
          = Uninterrupted(todo["main"], [R |-> Done("isr", reg), t |-> tmp["main"]]).R
    BY DEF Done
  <2>5. Done("main", Done("isr", reg))' = Done("main", Done("isr", reg))
    BY <2>1, <2>2, <2>3, <2>4
  <2> QED
    <3>1. Result' = Result
      BY <2>5 DEF Result
    <3> QED
      BY <1>1, <1>2, <3>1 DEF Serial, OneOrder, EachBit
<1> QED
  BY <1>3, <1>4 DEF Threads

LEMMA StepBased ==
  ASSUME AtomInv, NEW t \in Threads, Step(t)
  PROVE  Outcomes' /\ Based'
<1>0. Inv /\ Apart /\ Outcomes /\ Based
  BY DEF AtomInv
<1>1. PICK rest : Goes(t, rest)
  <2>1. RegisterAccess(t) \/ PeripheralAccess(t) \/ SerialAccess(t) => Goes(t, Tail(todo[t]))
    BY Zenon DEF RegisterAccess, PeripheralAccess, SerialAccess
  <2>2. PutcAccess(t) => Goes(t, PutcBranch(Head(todo[t]).chr) \o Tail(todo[t]))
    BY DEF PutcAccess
  <2> QED
    BY <2>1, <2>2, Zenon DEF Step
<1>2. /\ dev' = dev /\ want' = want /\ base' \in {base, NoBase}
      /\ todo'["main"] # <<>> => base' = base /\ todo["main"] # <<>>
  <2>1. todo[t] # <<>>
    <3>1. RegisterAccess(t) \/ PeripheralAccess(t) \/ SerialAccess(t) \/ PutcAccess(t) => Runs(t)
      BY Zenon DEF RegisterAccess, PeripheralAccess, SerialAccess, PutcAccess
    <3> QED
      BY <3>1 DEF Step, Runs
  <2>2. todo'[t] = rest /\ \A u \in Threads \ {t} : todo'[u] = todo[u]
    BY <1>0, <1>1 DEF Goes, Inv, Typed
  <2> QED
    BY <1>1, <2>1, <2>2 DEF Goes, Threads
<1>3. Outcomes'
  BY <1>0, <1>2 DEF Outcomes, NoBase
<1>4. ASSUME todo'["main"] # <<>>, dev = "gpio", NEW r \in GpioRegs, NEW n \in Shared
      PROVE  /\ Raises(todo'["main"], r, n) => Raises(base.body, r, n)
             /\ Clears(todo'["main"], r, n) => Clears(base.body, r, n)
  <2>1. todo'["main"] = todo["main"] \/ todo'["main"] = Tail(todo["main"])
    <3>1. /\ \A u \in Threads \ {t} : todo'[u] = todo[u]
          /\ todo'[t] = Tail(todo[t])
      BY <1>0, <1>4, AccessDone
    <3> QED
      BY <3>1 DEF Threads
  <2>2. /\ Raises(todo["main"], r, n) => Raises(base.body, r, n)
        /\ Clears(todo["main"], r, n) => Clears(base.body, r, n)
    BY <1>0, <1>2, <1>4 DEF Based
  <2>3. todo["main"] # <<>> /\ todo["main"] \in Seq(PinAccesses(MainPins)) /\ r \in Regs
    BY <1>0, <1>2, <1>4, Places DEF Apart, Regs
  <2>4. /\ Raises(Tail(todo["main"]), r, n) => Raises(todo["main"], r, n)
        /\ Clears(Tail(todo["main"]), r, n) => Clears(todo["main"], r, n)
    BY <2>3, FirstPinAccess
  <2> QED
    BY <2>1, <2>2, <2>4
<1>5. Based'
  <2> SUFFICES ASSUME todo'["main"] # <<>>
               PROVE  /\ base'.outcomes # {} /\ base'.body \in Seq(Accesses)
                      /\ dev' = "gpio" =>
                           \A r \in GpioRegs, n \in Shared :
                              /\ Raises(todo'["main"], r, n) => Raises(base'.body, r, n)
                              /\ Clears(todo'["main"], r, n) => Clears(base'.body, r, n)
    BY DEF Based, Raises, Clears
  <2>1. base' = base /\ base.outcomes # {} /\ base.body \in Seq(Accesses)
    BY <1>0, <1>2 DEF Based
  <2> QED
    BY <1>2, <1>4, <2>1
<1> QED
  BY <1>3, <1>5

\* Whole calls leave states of the registers.
LEMMA OutcomeRegs ==
  ASSUME NEW b \in Seq(Accesses), NEW w, IsRegs(w)
  PROVE  /\ IsState([R |-> w, t |-> {}]) /\ IsRegs(Atomically(b, w))
         /\ Atomically(b, w) = Uninterrupted(b, [R |-> w, t |-> {}]).R
<1>1. IsState([R |-> w, t |-> {}])
  BY DEF IsRegs, IsState
<1>2. IsState(Uninterrupted(b, [R |-> w, t |-> {}]))
  BY <1>1, RunState
<1> QED
  BY <1>1, <1>2 DEF Atomically, IsState, IsRegs

\* A call of the program follows those made.
LEMMA MainCallSerial ==
  ASSUME AtomInv, MainCall
  PROVE  Apart' /\ Serial' /\ Outcomes' /\ Based'
<1> USE DEF AtomInv
<1>1. PICK b \in CallsOf("main") : /\ todo' = [todo EXCEPT !["main"] = b]
                                   /\ base' = [outcomes |-> want, body |-> b]
                                   /\ want' = {Atomically(b, w) : w \in want}
  BY DEF MainCall
<1>2. /\ todo["main"] = <<>> /\ todo["isr"] = <<>> /\ UNCHANGED <<dev, reg, tmp>>
      /\ todo'["main"] = b /\ todo'["isr"] = <<>>
  BY <1>1 DEF MainCall, Inv, Typed, Threads
<1>3. /\ dev = "gpio" => OneOrder(reg) /\ EachBit(reg)
      /\ dev # "gpio" => reg \in want
  <2>1. Result = reg
    BY <1>2, DoneIdle DEF Result
  <2> QED
    BY <2>1 DEF Serial
<1>4. Done("isr", reg)' = reg
  BY <1>2, NoAccess DEF Done
<1>5. Result' = Uninterrupted(b, [R |-> reg, t |-> tmp["main"]]).R
  BY <1>2, <1>4 DEF Done, Result
<1>6. Uninterrupted(b, [R |-> reg, t |-> tmp["main"]]).R = Atomically(b, reg)
  BY RegState, MainUnread DEF Atomically, Inv
<1>7. b \in Seq(Accesses) /\ IsRegs(reg) /\ \A w \in want : IsRegs(w)
  BY MainBodyAccesses DEF Inv, Typed, IsRegs, Regs, Outcomes
<1>8. dev = "gpio" => b \in Seq(PinAccesses(MainPins))
  BY GpioBody, DriverAssumption DEF CallsOf
<1>9. ASSUME dev = "gpio", NEW w \in want, NEW r \in Regs
      PROVE  /\ r \in GpioRegs => \A n : (n \in reg[r] <=> n \in w[r])
                   => (n \in Atomically(b, reg)[r] <=> n \in Atomically(b, w)[r])
             /\ r \notin GpioRegs /\ reg[r] = w[r] => Atomically(b, reg)[r] = Atomically(b, w)[r]
  <2>1. /\ IsState([R |-> reg, t |-> {}]) /\ IsState([R |-> w, t |-> {}])
        /\ Atomically(b, reg) = Uninterrupted(b, [R |-> reg, t |-> {}]).R
        /\ Atomically(b, w) = Uninterrupted(b, [R |-> w, t |-> {}]).R
    BY <1>7, OutcomeRegs
  <2>2. ASSUME NEW n, n \in reg[r] <=> n \in w[r]
        PROVE  n \in Atomically(b, reg)[r] <=> n \in Atomically(b, w)[r]
    BY <1>8, <1>9, <2>1, <2>2, SameBit
  <2>3. ASSUME r \notin GpioRegs, reg[r] = w[r]
        PROVE  Atomically(b, reg)[r] = Atomically(b, w)[r]
    BY <1>8, <1>9, <2>1, <2>3, PinRunElsewhere
  <2> QED
    BY <2>2, <2>3
<1>10. ASSUME dev = "gpio"
       PROVE  /\ \E w \in want' : Beside(Atomically(b, reg)) = Beside(w)
              /\ \A r \in GpioRegs, n \in Shared :
                   \E w \in want' : n \in Atomically(b, reg)[r] <=> n \in w[r]
  <2>1. PICK w \in want : Beside(reg) = Beside(w)
    BY <1>3, <1>10 DEF OneOrder
  <2>2. Beside(Atomically(b, reg)) = Beside(Atomically(b, w))
    <3>1. IsRegs(Atomically(b, reg)) /\ IsRegs(Atomically(b, w))
      BY <1>7, OutcomeRegs
    <3>2. /\ \A r \in GpioRegs : \A n : n \notin Shared => (n \in reg[r] <=> n \in w[r])
          /\ \A r \in Regs \ GpioRegs : reg[r] = w[r]
      BY <1>7, <2>1, BesideAgrees
    <3>3. /\ \A r \in GpioRegs : \A n : n \notin Shared =>
               (n \in Atomically(b, reg)[r] <=> n \in Atomically(b, w)[r])
          /\ \A r \in Regs \ GpioRegs : Atomically(b, reg)[r] = Atomically(b, w)[r]
      BY <1>9, <1>10, <3>2, Places DEF Regs
    <3> QED
      BY <3>1, <3>3, BesideAgrees
  <2>3. ASSUME NEW r \in GpioRegs, NEW n \in Shared
        PROVE  \E v \in want' : n \in Atomically(b, reg)[r] <=> n \in v[r]
    <3>1. PICK v \in want : n \in reg[r] <=> n \in v[r]
      BY <1>3, <1>10 DEF EachBit
    <3>2. n \in Atomically(b, reg)[r] <=> n \in Atomically(b, v)[r]
      BY <1>9, <1>10, <3>1, Places DEF Regs
    <3> QED
      BY <1>1, <3>2
  <2> QED
    BY <1>1, <2>2, <2>3
<1>11. Serial'
  <2>1. CASE dev = "gpio"
    BY <1>2, <1>5, <1>6, <1>10, <2>1 DEF Serial, OneOrder, EachBit
  <2>2. CASE dev # "gpio"
    BY <1>1, <1>2, <1>3, <1>5, <1>6, <2>2 DEF Serial
  <2> QED
    BY <2>1, <2>2
<1>12. Outcomes'
  <2>1. \A w \in want : IsRegs(Atomically(b, w))
    BY <1>7, OutcomeRegs
  <2> QED
    BY <1>1, <1>7, <2>1 DEF Outcomes
<1>13. Based'
  <2>1. want # {}
    BY <1>3 DEF OneOrder
  <2> QED
    BY <1>1, <1>2, <1>7, <2>1 DEF Based
<1> QED
  BY <1>2, <1>8, <1>11, <1>12, <1>13 DEF Apart

\* A call of the handler comes before the rest of the program's, or after it:
\* it leaves the registers alone, or sets up pins.
LEMMA IsrCallSerial ==
  ASSUME AtomInv, IsrCall
  PROVE  Apart' /\ Serial' /\ Outcomes' /\ Based'
<1> USE DEF AtomInv
<1>1. PICK b \in CallsOf("isr") :
        /\ todo' = [todo EXCEPT !["isr"] = b]
        /\ base' = [base EXCEPT !.outcomes = {Atomically(b, o) : o \in base.outcomes}]
        /\ want' = {Atomically(b, w) : w \in want}
                   \cup (IF todo["main"] = <<>> THEN {}
                         ELSE {Atomically(base.body, o) : o \in base'.outcomes})
  BY DEF IsrCall
<1>2. /\ todo["isr"] = <<>> /\ UNCHANGED <<dev, reg, tmp>>
      /\ todo'["isr"] = b /\ todo'["main"] = todo["main"]
      /\ base'.outcomes = {Atomically(b, o) : o \in base.outcomes} /\ base'.body = base.body
  BY <1>1 DEF IsrCall, Inv, Typed, Threads
<1> DEFINE q == todo["main"]
           s == [R |-> reg, t |-> tmp["main"]]
           w0 == Uninterrupted(q, s).R
           x == Uninterrupted(b, [R |-> reg, t |-> tmp["isr"]]).R
           y == Uninterrupted(q, [R |-> x, t |-> tmp["main"]]).R
<1>3. /\ dev = "gpio" => OneOrder(w0) /\ EachBit(w0)
      /\ dev # "gpio" => w0 \in want
  <2>1. Result = w0
    BY <1>2, DoneIdle DEF Result, Done
  <2> QED
    BY <2>1 DEF Serial
<1>4. Result' = y
  BY <1>2 DEF Done, Result
<1>5. /\ IsState(s) /\ IsState([R |-> reg, t |-> tmp["isr"]])
      /\ q \in Seq(Accesses) /\ b \in Seq(Accesses)
  BY RegState, IsrBodyAccesses DEF Inv, Typed, Threads
<1>6. /\ IsState(Uninterrupted(q, s)) /\ IsRegs(w0)
      /\ IsState([R |-> x, t |-> tmp["main"]]) /\ IsRegs(y)
  <2>1. IsState(Uninterrupted(q, s)) /\ IsState(Uninterrupted(b, [R |-> reg, t |-> tmp["isr"]]))
    BY <1>5, RunState
  <2>2. IsState([R |-> x, t |-> tmp["main"]])
    BY <2>1 DEF IsState
  <2>3. IsState(Uninterrupted(q, [R |-> x, t |-> tmp["main"]]))
    BY <1>5, <2>2, RunState
  <2> QED
    BY <2>1, <2>2, <2>3 DEF IsState, IsRegs
<1>7. \A w \in want \cup base.outcomes :
        /\ IsRegs(w) /\ IsState([R |-> w, t |-> {}]) /\ IsRegs(Atomically(b, w))
        /\ Atomically(b, w) = Uninterrupted(b, [R |-> w, t |-> {}]).R
  <2>1. ASSUME NEW w \in want \cup base.outcomes
        PROVE  /\ IsRegs(w) /\ IsState([R |-> w, t |-> {}]) /\ IsRegs(Atomically(b, w))
               /\ Atomically(b, w) = Uninterrupted(b, [R |-> w, t |-> {}]).R
    <3>1. IsRegs(w) /\ b \in Seq(Accesses)
      BY <1>5 DEF Outcomes
    <3> QED
      BY <3>1, OutcomeRegs
  <2> QED
    BY <2>1, Zenon
<1>8. /\ dev # "gpio" => b \in Seq(Elsewhere)
      /\ dev = "gpio" => b \in Seq(PinAccesses(IsrPins)) /\ q \in Seq(PinAccesses(MainPins))
  BY IsrElsewhere, GpioBody, DriverAssumption DEF CallsOf, Apart, Inv
<1>9. Outcomes'
  <2>1. ASSUME q # <<>>, NEW o \in base.outcomes
        PROVE  IsRegs(Atomically(base.body, Atomically(b, o)))
    <3>1. IsRegs(Atomically(b, o)) /\ base.body \in Seq(Accesses)
      BY <1>7, <2>1 DEF Based
    <3> QED
      BY ONLY <3>1, OutcomeRegs
  <2>2. ASSUME NEW w \in want' PROVE IsRegs(w)
    <3>1. CASE \E o \in want : w = Atomically(b, o)
      BY <1>7, <3>1, Zenon
    <3>2. CASE q # <<>> /\ \E o \in base.outcomes : w = Atomically(base.body, Atomically(b, o))
      BY <2>1, <3>2, Zenon
    <3> QED
      BY <1>1, <1>2, <3>1, <3>2
  <2>3. \A w \in base'.outcomes : IsRegs(w)
    BY <1>2, <1>7
  <2> QED
    BY <2>2, <2>3 DEF Outcomes
<1>10. Based'
  <2>1. q # <<>> => base'.outcomes # {}
    BY <1>2 DEF Based
  <2> QED
    BY <1>2, <2>1 DEF Based, Raises, Clears
<1> HIDE DEF w0, x, y, s, q
<1>11. CASE dev # "gpio"
  <2>1. \A u : IsState(u) => Uninterrupted(b, u) = u
    BY <1>8, <1>11, ElsewhereKeeps DEF Elsewhere, IsState
  <2>2. x = reg /\ y = w0
    BY <1>5, <2>1 DEF x, y, w0, s
  <2>3. Atomically(b, w0) = w0
    <3>1. /\ IsState([R |-> w0, t |-> {}])
          /\ Atomically(b, w0) = Uninterrupted(b, [R |-> w0, t |-> {}]).R
      BY <1>3, <1>7, <1>11
    <3> QED
      BY <2>1, <3>1
  <2>4. y \in want'
    BY <1>1, <1>3, <1>11, <2>2, <2>3
  <2> QED
    BY <1>2, <1>4, <1>8, <1>9, <1>10, <1>11, <2>4 DEF Apart, Serial
<1>12. CASE dev = "gpio"
  <2> DEFINE Out(w) == Atomically(b, w)
  <2>0. GpioRegs \subseteq Regs
    BY Places DEF Regs
  \* What the two calls do to a bit, one after the other.
  <2>1. ASSUME NEW r \in GpioRegs, NEW n, Keeps(q, r, n) \/ Keeps(b, r, n), NEW w \in want,
               n \in w0[r] <=> n \in w[r]
        PROVE  n \in y[r] <=> n \in Out(w)[r]
    <3> DEFINE u == [R |-> w, t |-> {}]
               v == Uninterrupted(q, s)
    <3>0. /\ IsState(u) /\ IsState(v) /\ Out(w) = Uninterrupted(b, u).R
          /\ n \in v.R[r] <=> n \in u.R[r]
      BY <1>6, <1>7, <2>1 DEF w0
    <3>1. n \in Out(w)[r] <=> n \in Uninterrupted(b, Uninterrupted(q, s)).R[r]
      <4>1. b \in Seq(PinAccesses(IsrPins)) /\ r \in Regs
        BY <1>8, <1>12, <2>0
      <4>2. n \in Uninterrupted(b, v).R[r] <=> n \in Uninterrupted(b, u).R[r]
        <5> HIDE DEF u, v
        <5> QED
          BY ONLY <3>0, <4>1, SameBit
      <4> QED
        BY <3>0, <4>2
    <3>2. CASE Keeps(q, r, n)
      <4>1. n \in y[r] <=> n \in x[r]
        BY <1>6, <3>2 DEF Keeps, y
      <4>2. n \in Uninterrupted(q, s).R[r] <=> n \in reg[r]
        BY <1>5, <3>2 DEF Keeps, s
      <4>3. n \in Uninterrupted(b, Uninterrupted(q, s)).R[r] <=> n \in x[r]
        BY <1>5, <1>6, <1>8, <1>12, <2>0, <4>2, SameBit DEF x
      <4> QED
        BY <3>1, <4>1, <4>3
    <3>3. CASE Keeps(b, r, n)
      <4>1. n \in x[r] <=> n \in reg[r]
        BY <1>5, <3>3 DEF Keeps, x
      <4>2. n \in y[r] <=> n \in Uninterrupted(q, s).R[r]
        BY <1>5, <1>6, <1>8, <1>12, <2>0, <4>1, SameBit DEF y, s
      <4>3. n \in Uninterrupted(b, Uninterrupted(q, s)).R[r]
              <=> n \in Uninterrupted(q, s).R[r]
        BY <1>6, <3>3 DEF Keeps
      <4> QED
        BY <3>1, <4>2, <4>3
    <3> QED
      BY <2>1, <3>2, <3>3
  <2>2. \E w \in want' : Beside(y) = Beside(w)
    <3>1. PICK w \in want : Beside(w0) = Beside(w)
      BY <1>3, <1>12 DEF OneOrder
    <3>2. /\ \A r \in GpioRegs : \A n : n \notin Shared => (n \in w0[r] <=> n \in w[r])
          /\ \A r \in Regs \ GpioRegs : w0[r] = w[r]
      BY <1>6, <1>7, <3>1, BesideAgrees
    <3>3. ASSUME NEW r \in GpioRegs, NEW n, n \notin Shared
          PROVE  n \in y[r] <=> n \in Out(w)[r]
      <4>1. n \notin MainPins \/ n \notin IsrPins
        BY <3>3 DEF Shared
      <4>2. Keeps(q, r, n) \/ Keeps(b, r, n)
        BY <4>1, <1>8, <1>12, <2>0, PinRun
      <4> QED
        BY <2>1, <3>2, <3>3, <4>2
    <3>4. ASSUME NEW r \in Regs \ GpioRegs PROVE y[r] = Out(w)[r]
      <4>1. x[r] = reg[r]
        BY <1>5, <1>8, <1>12, PinRunElsewhere DEF x
      <4>2. y[r] = x[r]
        BY <1>6, <1>8, <1>12, PinRunElsewhere DEF y
      <4>3. w0[r] = reg[r]
        BY <1>5, <1>8, <1>12, PinRunElsewhere DEF w0, s
      <4>4. Out(w)[r] = w[r]
        <5> DEFINE u == [R |-> w, t |-> {}]
        <5>1. IsState(u) /\ Out(w) = Uninterrupted(b, u).R /\ u.R = w
          BY <1>7
        <5> HIDE DEF u
        <5> QED
          BY <1>8, <1>12, <5>1, PinRunElsewhere
      <4> QED
        BY <3>2, <4>1, <4>2, <4>3, <4>4
    <3>5. Beside(y) = Beside(Out(w))
      BY <1>6, <1>7, <3>3, <3>4, BesideAgrees
    <3> QED
      BY <1>1, <3>5
  <2>3. ASSUME NEW r \in GpioRegs, NEW n \in Shared
        PROVE  \E w \in want' : n \in y[r] <=> n \in w[r]
    <3>1. CASE Keeps(q, r, n)
      <4>1. PICK w \in want : n \in w0[r] <=> n \in w[r]
        BY <1>3, <1>12 DEF EachBit
      <4>2. n \in y[r] <=> n \in Out(w)[r]
        BY <2>1, <3>1, <4>1
      <4> QED
        BY <1>1, <4>2
    <3>2. CASE ~Keeps(q, r, n)
      <4>1. q # <<>>
        BY <3>2, NoAccess DEF Keeps
      <4>2. PICK o \in base.outcomes : TRUE
        BY <4>1 DEF Based, q
      <4> DEFINE o2 == Atomically(b, o)
                 z == Atomically(base.body, o2)
      <4>3. z \in want'
        BY <1>1, <1>2, <4>1 DEF q
      <4>4. /\ IsState([R |-> o2, t |-> {}])
            /\ z = Uninterrupted(base.body, [R |-> o2, t |-> {}]).R
        BY <1>7, <4>1, OutcomeRegs DEF Based, q
      <4> HIDE DEF o2, z
      <4>5. CASE Raises(q, r, n)
        <5>1. n \in y[r]
          BY <1>6, <4>5 DEF Raises, y
        <5>2. Raises(base.body, r, n)
          BY <1>12, <4>1, <4>5 DEF Based, q
        <5>3. n \in z[r]
          BY <4>4, <5>2 DEF Raises
        <5> QED
          BY <4>3, <5>1, <5>3
      <4>6. CASE Clears(q, r, n)
        <5>1. n \notin y[r]
          BY <1>6, <4>6 DEF Clears, y
        <5>2. Clears(base.body, r, n)
          BY <1>12, <4>1, <4>6 DEF Based, q
        <5>3. n \notin z[r]
          BY <4>4, <5>2 DEF Clears
        <5> QED
          BY <4>3, <5>1, <5>3
      <4> QED
        BY <1>8, <1>12, <2>0, <3>2, <4>5, <4>6, PinRun
    <3> QED
      BY <3>1, <3>2
  <2>4. Serial'
    BY <1>2, <1>4, <1>12, <2>2, <2>3 DEF Serial, OneOrder, EachBit
  <2> QED
    BY <1>2, <1>8, <1>9, <1>10, <1>12, <2>4 DEF Apart, q
<1> QED
  BY <1>11, <1>12

-----------------------------------------------------------------------------
(* The results.                                                             *)

LEMMA InvInit == Init => Inv
<1> SUFFICES ASSUME Init PROVE Inv
  OBVIOUS
<1>1. reg = AtReset \/ reg = ConsoleUp
  BY DEF Init
<1>2. /\ {} \in SUBSET Bits /\ {"TXEN"} \in SUBSET Bits /\ {"TXEN", "RXEN"} \in SUBSET Bits
      /\ {"GP1.5"} \in SUBSET Bits
  BY DEF Bits
<1>3. /\ AtReset = [r \in SetRegs \cup NumRegs |-> AtReset[r]]
      /\ \A r \in SetRegs : AtReset[r] = {}
      /\ \A r \in NumRegs : AtReset[r] = 0
  BY Places DEF AtReset
<1>4. /\ ConsoleUp = [r \in SetRegs \cup NumRegs |-> ConsoleUp[r]]
      /\ \A r \in SetRegs : ConsoleUp[r] \in {{}, {"TXEN"}, {"TXEN", "RXEN"}, {"GP1.5"}}
      /\ \A r \in NumRegs : ConsoleUp[r] \in {0, 1, 2}
  BY <1>3 DEF ConsoleUp, SetRegs, NumRegs, GpioRegs
<1>5. /\ reg = [r \in SetRegs \cup NumRegs |-> reg[r]]
      /\ \A r \in SetRegs : reg[r] \in SUBSET Bits
      /\ \A r \in NumRegs : reg[r] \in Nat
  <2>1. CASE reg = AtReset
    BY <1>2, <1>3, <2>1
  <2>2. CASE reg = ConsoleUp
    BY <1>2, <1>4, <2>2
  <2> QED
    BY <1>1, <2>1, <2>2
<1>6. /\ \A S : <<>> \in Seq(S)
      /\ <<>> \o <<>> = <<>>
  OBVIOUS
<1>7. Typed
  <2>1. hw \in HwType /\ log \in LogType
    BY <1>6 DEF Init, HwType, LogType
  <2>2. /\ todo \in [Threads -> Seq(Accesses)] /\ tmp \in [Threads -> SUBSET Bits]
        /\ base = [outcomes |-> base.outcomes, body |-> base.body]
        /\ dev \in {"timer", "uart", "gpio"}
    BY <1>2, <1>6 DEF Init, NoBase
  <2> QED
    BY <1>5, <2>1, <2>2 DEF Typed, HwType, LogType
<1>8. Sending /\ Taking
  BY <1>6 DEF Init, Sending, Taking, Threads
<1>9. Starting
  <2>1. base.body = <<>>
    BY DEF Init, NoBase
  <2>2. \A v, i, s : Timer_Init(v, i, s) # <<>>
    BY DEF Timer_Init
  <2> QED
    BY <2>1, <2>2 DEF Starting
<1>10. SentInOrder /\ LossIsFlagged
  BY <1>6 DEF Init, SentInOrder, LossIsFlagged
<1> QED
  BY <1>7, <1>8, <1>9, <1>10 DEF Inv

LEMMA InvInductive == Inv /\ [Next]_vars => Inv'
<1> SUFFICES ASSUME Inv, [Next]_vars PROVE Inv'
  OBVIOUS
<1>1. CASE UNCHANGED vars
  <2>1. UNCHANGED <<dev, reg, hw, todo, tmp, base, log>>
    BY <1>1 DEF vars
  <2>2. hw \in HwType /\ log \in LogType
    BY DEF Inv, Typed, HwType, LogType
  <2>3. SentInOrder' /\ LossIsFlagged'
    BY <2>1 DEF Inv, SentInOrder, LossIsFlagged
  <2> QED
    BY <2>1, <2>2, <2>3, Unprogrammed
<1>2. ASSUME NEW t \in Threads, Step(t)
      PROVE  Inv'
  BY <1>2, RegisterAccessMain, RegisterAccessIsr, PeripheralAccessMain,
     PeripheralAccessIsr, SerialAccessMain, SerialAccessIsr, PutcAccessStep
     DEF Step, Threads
<1> QED
  BY <1>1, <1>2, MainCallStep, IsrCallStep, TickStep, ShiftStep, ArriveStep, PinEventStep
     DEF Next

\* The inductive invariant: types, and for each thread what its call has left
\* to do beside what it has seen of the peripherals.
THEOREM DriverInv == Spec => []Inv
BY InvInit, InvInductive, PTL DEF Spec

\* SendChar and UartPutc wait for room before they write: characters leave an
\* enabled port once each, in order, whatever the handler does in between.
THEOREM ConsoleSentInOrder == Spec => []SentInOrder
<1>1. Inv => SentInOrder
  BY DEF Inv
<1> QED
  BY <1>1, DriverInv, PTL

\* A handler takes a character it has seen: one that arrived is read once, in
\* order, or the overrun of its port is flagged.
THEOREM ConsoleLossIsFlagged == Spec => []LossIsFlagged
<1>1. Inv => LossIsFlagged
  BY DEF Inv
<1> QED
  BY <1>1, DriverInv, PTL

\* CMSDK_timer_Init_* stop the timer first, and no handler starts it: VALUE and
\* RELOAD are what was asked for when the last write enables it.
THEOREM TimerStartsFull == Spec => StartsFull
<1> DEFINE Full == \A v \in Reloads, i \in BOOLEAN :
          \A body \in {CMSDK_timer_Init_IntClock(v, i), CMSDK_timer_Init_ExtClock(v, i),
                       CMSDK_timer_Init_ExtEnable(v, i)} :
              base.body = body /\ Len(todo["main"]) = 1 /\ todo'["main"] = <<>>
                  => hw'.value = v /\ reg'["RELOAD"] = v
<1>1. Inv /\ [Next]_vars => [Full]_vars
  <2> SUFFICES ASSUME Inv, Next, NEW v \in Reloads, NEW i \in BOOLEAN, NEW s \in Sources,
                      base.body = Timer_Init(v, i, s), Len(todo["main"]) = 1,
                      todo'["main"] = <<>>
               PROVE  hw'.value = v /\ reg'["RELOAD"] = v
    BY DEF CMSDK_timer_Init_IntClock, CMSDK_timer_Init_ExtClock, CMSDK_timer_Init_ExtEnable,
       Sources
  <2> DEFINE init == Timer_Init(v, i, s)
  <2>1. Len(init) = 4 /\ init[4].reg = "CTRL" /\ init[4].op = "write"
    BY DEF Timer_Init, Write, Acc
  <2>2. SettingUp(v, i, s)
    BY DEF Inv, Starting
  <2> HIDE DEF init
  <2>3. Len(<<init[2], init[3], init[4]>>) = 3 /\ Len(<<init[3], init[4]>>) = 2
    OBVIOUS
  <2>4. todo["main"] = <<init[4]>> /\ hw.value = v /\ reg["RELOAD"] = v
    <3>1. \/ todo["main"] = init \/ todo["main"] = <<init[2], init[3], init[4]>>
          \/ todo["main"] = <<init[3], init[4]>>
          \/ todo["main"] = <<init[4]>> /\ hw.value = v /\ reg["RELOAD"] = v
      BY <2>2 DEF SettingUp, init
    <3>2. todo["main"] # init
      <4>1. Len(init) # 1
        BY <2>1
      <4> QED
        BY <4>1, Zenon
    <3>3. todo["main"] # <<init[2], init[3], init[4]>>
      BY <2>3
    <3>4. todo["main"] # <<init[3], init[4]>>
      <4>1. Len(<<init[3], init[4]>>) # 1
        BY <2>3
      <4> QED
        BY <4>1, Zenon
    <3> QED
      BY <3>1, <3>2, <3>3, <3>4
  <2>5. Head(todo["main"]) = init[4] /\ todo["main"] # <<>>
    BY <2>4
  <2>6. CASE RegisterAccess("main")
    <3>1. hw' = hw /\ reg' = [reg EXCEPT !["CTRL"] = init[4].val]
      BY <2>1, <2>5, <2>6 DEF RegisterAccess, Written
    <3> QED
      BY <2>4, <3>1, Places DEF Inv, Typed
  <2>7. ~PeripheralAccess("main") /\ ~SerialAccess("main") /\ ~PutcAccess("main")
    BY <2>1, <2>5 DEF PeripheralAccess, SerialAccess, PutcAccess, Ports
  <2>8. CASE Step("isr")
    <3>1. PICK rest : Goes("isr", rest)
      BY <2>8 DEF Step, RegisterAccess, PeripheralAccess, SerialAccess, PutcAccess
    <3>2. todo'["main"] = todo["main"]
      BY <3>1 DEF Goes, Inv, Typed, Threads
    <3> QED
      BY <2>5, <3>2
  <2>9. ~MainCall
    BY <2>5 DEF MainCall
  <2>10. ~IsrCall
    <3>1. IsrCall => todo'["main"] = todo["main"]
      BY DEF IsrCall, Inv, Typed, Threads
    <3> QED
      BY <2>5, <3>1
  <2>11. /\ ~Tick /\ \A p \in Ports : ~Shift(p) /\ \A c \in Chars : ~Arrive(p, c)
         /\ \A n \in Pins : ~PinEvent(n)
    BY <2>5 DEF Tick, Shift, Arrive, PinEvent
  <2> QED
    BY <2>6, <2>7, <2>8, <2>9, <2>10, <2>11 DEF Next, Step, Threads
<1> QED
  BY <1>1, DriverInv, PTL DEF Spec, StartsFull

LEMMA AtomInvInductive ==
  ASSUME AtomInv, [Next]_vars
  PROVE  AtomInv'
<1> USE DEF AtomInv
<1>1. Inv'
  BY InvInductive
<1>2. ASSUME UNCHANGED <<dev, reg, todo, tmp, base, want>>
      PROVE  Apart' /\ Serial' /\ Outcomes' /\ Based'
  BY <1>2 DEF Apart, Serial, OneOrder, EachBit, Done, Result, Outcomes, Based,
     Raises, Clears
<1>3. CASE UNCHANGED vars
  BY <1>1, <1>2, <1>3 DEF vars
<1>4. CASE Tick \/ (\E p \in Ports : Shift(p) \/ \E c \in Chars : Arrive(p, c))
           \/ \E n \in Pins : PinEvent(n)
  <2>1. /\ Tick => UNCHANGED <<dev, reg, todo, tmp, base, want>>
        /\ \A n : PinEvent(n) => UNCHANGED <<dev, reg, todo, tmp, base, want>>
    BY DEF Tick, PinEvent
  <2>2. /\ \A p : Shift(p) => UNCHANGED <<dev, reg, todo, tmp, base, want>>
        /\ \A p, c : Arrive(p, c) => UNCHANGED <<dev, reg, todo, tmp, base, want>>
    BY Zenon DEF Shift, Arrive
  <2>3. UNCHANGED <<dev, reg, todo, tmp, base, want>>
    BY <1>4, <2>1, <2>2
  <2> QED
    BY <1>1, <1>2, <2>3
<1>5. CASE \E t \in Threads : Step(t)
  BY <1>1, <1>5, StepSerial, StepBased
<1> QED
  BY <1>1, <1>3, <1>4, <1>5, MainCallSerial, IsrCallSerial DEF Next

LEMMA AtomInvInit ==
  ASSUME Init
  PROVE  AtomInv
<1>1. Inv
  BY InvInit
<1>2. todo["main"] = <<>> /\ todo["isr"] = <<>> /\ want = {reg} /\ base = NoBase
  BY DEF Init, Threads
<1>3. Apart /\ Based
  BY <1>2 DEF Apart, Based
<1>4. Serial
  BY <1>2, DoneIdle DEF Serial, OneOrder, EachBit, Result
<1>5. Outcomes
  BY <1>1, <1>2 DEF Outcomes, NoBase, IsRegs, Regs, Inv, Typed
<1> QED
  BY <1>1, <1>3, <1>4, <1>5 DEF AtomInv

\* What holds of "This function is thread safe", for calls of any length made any
\* number of times on any pins: wherever the handler comes in, the registers end
\* as one order of whole calls leaves them, beside the pins that both threads
\* set up, and each bit of those ends as some order leaves it.
THEOREM CallsSerialize == Spec => []CallsAreAtomic
<1>1. AtomInv => CallsAreAtomic
  <2> SUFFICES ASSUME AtomInv, Idle
               PROVE  /\ \E w \in want : Beside(reg) = Beside(w)
                      /\ \A r \in GpioRegs, n \in Shared :
                            \E w \in want : n \in reg[r] <=> n \in w[r]
    BY DEF CallsAreAtomic
  <2>1. todo["main"] = <<>> /\ todo["isr"] = <<>>
    BY DEF Idle, Threads
  <2> QED
    BY <2>1, DoneIdle DEF AtomInv, Serial, OneOrder, EachBit, Result
<1>2. Spec => []AtomInv
  BY AtomInvInit, AtomInvInductive, PTL DEF Spec
<1> QED
  BY <1>1, <1>2, PTL
=============================================================================
