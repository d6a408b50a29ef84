----------------------------- MODULE CmsdkDriver -----------------------------
(***************************************************************************)
(* The CMSDK peripheral driver (timer, UART, GPIO) and the console of      *)
(* uart_stdout.c.  A driver function is the sequence of register accesses  *)
(* it makes; the main program and an interrupt handler each run such       *)
(* sequences, the handler between any two accesses of the program and to   *)
(* its end.  The peripherals are external: a timer that counts, two serial *)
(* ports with one character of buffer each way, and GPIO set, clear and    *)
(* masked registers.                                                       *)
(***************************************************************************)
EXTENDS Integers, Sequences, FiniteSets

CONSTANTS Lower, Upper,     \* pins of the two halves of a GPIO port
          MainPins,         \* pins the program configures
          IsrPins,          \* pins the handler configures
          Reloads,          \* reload values the program uses
          Chars,            \* characters
          MainBound,        \* bound: calls the program makes
          IsrBound          \* bound: calls the handler makes

Pins == Lower \cup Upper

ASSUME DriverAssumption ==
    /\ MainPins \subseteq Pins /\ IsrPins \subseteq Pins /\ Lower \cap Upper = {}
    /\ Reloads \subseteq Nat \ {0} /\ MainBound \in Nat /\ IsrBound \in Nat

VARIABLES dev,    \* the peripheral this behaviour is about
          reg,    \* registers only software changes
          hw,     \* state the peripherals change too
          todo,   \* accesses left of a thread's call
          tmp,    \* what a thread's last read returned
          made,   \* calls made by each thread
          base,   \* outcomes of the calls before the program's current one
          want,   \* outcomes of some serial order of all the calls
          log     \* characters: wire, sent, came, got; losses the program saw
vars == <<dev, reg, hw, todo, tmp, made, base, want, log>>

Threads == {"main", "isr"}
Ports == {"UART2", "USRT2"}

\* The registers only software changes.
GpioRegs == {"OUTENABLE", "ALTFUNC", "INTEN", "INTTYPE", "INTPOL", "DATAOUT"}
SetRegs == {"CTRL", "UART2_CTRL", "USRT2_CTRL"} \cup GpioRegs
NumRegs == {"RELOAD", "UART2_BAUDDIV", "USRT2_BAUDDIV"}
CtrlOf(p) == IF p = "UART2" THEN "UART2_CTRL" ELSE "USRT2_CTRL"
BaudOf(p) == IF p = "UART2" THEN "UART2_BAUDDIV" ELSE "USRT2_BAUDDIV"

-----------------------------------------------------------------------------
(* Accesses.                                                                *)

Acc(op, r, v) == [op |-> op, reg |-> r, val |-> v]
Write(r, v) == Acc("write", r, v)      \* r := v
WriteNum(r, n) == [op |-> "num", reg |-> r, num |-> n]
SendTo(p, c) == [op |-> "data", reg |-> p, chr |-> c]
SetBits(r, s) == Acc("set", r, s)      \* a set register of the peripheral
ClrBits(r, s) == Acc("clr", r, s)      \* a clear register of the peripheral
Read(r) == Acc("read", r, {})
ReadNum(r) == Acc("readnum", r, {})    \* of a number: nothing is built from it
WriteOr(r, s) == Acc("or", r, s)       \* r := what was read, or s
WriteAnd(r, s) == Acc("and", r, s)     \* r := what was read, without s
Masked(m, v) == [op |-> "masked", reg |-> "DATAOUT", mask |-> m, val |-> v]

\* An access to a register only software changes.
Written(R, t, a) ==
    CASE a.op = "write" -> [R EXCEPT ![a.reg] = a.val]
      [] a.op = "num" -> [R EXCEPT ![a.reg] = a.num]
      [] a.op = "set" -> [R EXCEPT ![a.reg] = @ \cup a.val]
      [] a.op = "clr" -> [R EXCEPT ![a.reg] = @ \ a.val]
      [] a.op = "or" -> [R EXCEPT ![a.reg] = t \cup a.val]
      [] a.op = "and" -> [R EXCEPT ![a.reg] = t \ a.val]
      [] a.op = "masked" ->
            [R EXCEPT ![a.reg] = (@ \ a.mask) \cup (a.val \cap a.mask)]
      [] a.op \in {"read", "readnum"} -> R

\* An access on s, the registers and what was read last; one elsewhere has no
\* effect on either.
Alone(s, a) ==
    IF a.reg \notin DOMAIN s.R THEN s
    ELSE [R |-> Written(s.R, s.t, a), t |-> IF a.op = "read" THEN s.R[a.reg] ELSE s.t]
\* Accesses with nothing in between, and a whole call.
Uninterrupted(body, s) ==
    LET after[i \in 0 .. Len(body)] ==
            IF i = 0 THEN s ELSE Alone(after[i - 1], body[i])
    IN  after[Len(body)]
Atomically(body, R) == Uninterrupted(body, [R |-> R, t |-> {}]).R

-----------------------------------------------------------------------------
(* Timer.                                                                   *)

CMSDK_timer_EnableIRQ == <<Read("CTRL"), WriteOr("CTRL", {"IRQEN"})>>
CMSDK_timer_DisableIRQ == <<Read("CTRL"), WriteAnd("CTRL", {"IRQEN"})>>
CMSDK_timer_StartTimer == <<Read("CTRL"), WriteOr("CTRL", {"EN"})>>
CMSDK_timer_StopTimer == <<Read("CTRL"), WriteAnd("CTRL", {"EN"})>>
CMSDK_timer_GetValue == <<ReadNum("VALUE")>>
CMSDK_timer_SetValue(v) == <<WriteNum("VALUE", v)>>
CMSDK_timer_GetReload == <<ReadNum("RELOAD")>>
CMSDK_timer_SetReload(v) == <<WriteNum("RELOAD", v)>>
CMSDK_timer_ClearIRQ == <<ClrBits("INTSTATUS", {"timer"})>>
CMSDK_timer_StatusIRQ == <<Read("INTSTATUS")>>

\* Bug variant: the timer runs on while it is set up.
Timer_InitRunning(reload, irq_en, source) ==
    <<WriteNum("VALUE", reload), WriteNum("RELOAD", reload),
      Write("CTRL", {"EN"} \cup source \cup (IF irq_en THEN {"IRQEN"} ELSE {}))>>
Timer_Init(reload, irq_en, source) ==
    <<Write("CTRL", {}), WriteNum("VALUE", reload), WriteNum("RELOAD", reload),
      Write("CTRL", {"EN"} \cup source \cup (IF irq_en THEN {"IRQEN"} ELSE {}))>>
CMSDK_timer_Init_IntClock(v, irq) == Timer_Init(v, irq, {})
CMSDK_timer_Init_ExtClock(v, irq) == Timer_Init(v, irq, {"SELEXTCLK"})
CMSDK_timer_Init_ExtEnable(v, irq) == Timer_Init(v, irq, {"SELEXTEN"})

TimerMainCalls ==
    {CMSDK_timer_EnableIRQ, CMSDK_timer_DisableIRQ, CMSDK_timer_StartTimer,
     CMSDK_timer_StopTimer, CMSDK_timer_GetReload}
    \cup {CMSDK_timer_SetReload(v) : v \in Reloads}
    \cup {CMSDK_timer_SetValue(v) : v \in Reloads}
    \cup UNION {{CMSDK_timer_Init_IntClock(v, i), CMSDK_timer_Init_ExtClock(v, i),
                 CMSDK_timer_Init_ExtEnable(v, i)} : v \in Reloads, i \in BOOLEAN}

\* The handlers of the tests acknowledge and look; they leave CTRL alone.
TimerIsrCalls == {CMSDK_timer_ClearIRQ, CMSDK_timer_StatusIRQ, CMSDK_timer_GetValue}

-----------------------------------------------------------------------------
(* UART and console.                                                        *)

UartCtrl(tx_en, rx_en) ==
    (IF tx_en THEN {"TXEN"} ELSE {}) \cup (IF rx_en THEN {"RXEN"} ELSE {})

CMSDK_uart_init(p, divider, tx_en, rx_en) ==
    <<Write(CtrlOf(p), {}), WriteNum(BaudOf(p), divider),
      Write(CtrlOf(p), UartCtrl(tx_en, rx_en)), Acc("flags", p, {})>>

CMSDK_uart_GetRxBufferFull(p) == <<Acc("rxfull", p, {})>>
CMSDK_uart_GetTxBufferFull(p) == <<Acc("txfull", p, {})>>
\* Bug variant: the character is written at once.
CMSDK_uart_SendCharAtOnce(p, c) == <<SendTo(p, c)>>
CMSDK_uart_SendChar(p, c) == <<Acc("waittx", p, {}), SendTo(p, c)>>
CMSDK_uart_ReceiveChar(p) == <<Acc("waitrx", p, {}), Acc("take", p, {})>>
CMSDK_uart_GetOverrunStatus(p) == <<Acc("flags", p, {})>>
CMSDK_uart_ClearOverrunStatus(p) == <<Acc("clrflags", p, {}), Acc("flags", p, {})>>
CMSDK_uart_GetBaudDivider(p) == <<ReadNum(BaudOf(p))>>
CMSDK_uart_GetTxIRQStatus == <<Read("INTSTATUS")>>
CMSDK_uart_GetRxIRQStatus == <<Read("INTSTATUS")>>
CMSDK_uart_ClearTxIRQ(p) == <<ClrBits("INTSTATUS", {"tx"})>>
CMSDK_uart_ClearRxIRQ(p) == <<ClrBits("INTSTATUS", {"rx"})>>

UartStdOutInit ==
    <<Write("UART2_CTRL", {}), WriteNum("UART2_BAUDDIV", 1), Write("UART2_CTRL", {"TXEN"}),
      WriteNum("USRT2_BAUDDIV", 2), Write("USRT2_CTRL", {"TXEN", "RXEN"}),
      SetBits("ALTFUNC", {"GP1.5"})>>

\* A character time by the dual timer, then the USRT is off and on again.
Uart2StdOutInit ==
    <<Acc("chartime", "UART2", {}), SetBits("ALTFUNC", {"GP1.5"}),
      Write("USRT2_CTRL", {}), WriteNum("USRT2_BAUDDIV", 2),
      Write("USRT2_CTRL", {"TXEN", "RXEN"})>>

\* Which port takes a character depends on the USRT's enable bit.
UartPutc(c) == <<[op |-> "putc", reg |-> "USRT2", chr |-> c]>>
PutcBranch(c) ==
    IF "TXEN" \notin reg["USRT2_CTRL"]
    THEN <<Acc("waittx", "UART2", {}), SendTo("UART2", c), SendTo("USRT2", c)>>
    ELSE <<Acc("waittx", "USRT2", {}), SendTo("USRT2", c)>>
\* Bug variant: the character is taken from the UART whichever port had it.
UartGetcUart == <<Acc("waitany", "UART2", {}), Acc("take", "UART2", {})>>
UartGetc == <<Acc("waitany", "UART2", {}), Acc("getc", "UART2", {})>>

\* A caller sends on a port whose transmitter it has enabled.
UartMainCalls ==
    {CMSDK_uart_init(p, 1, t, r) : p \in Ports, t \in BOOLEAN, r \in BOOLEAN}
    \cup (UNION {{CMSDK_uart_SendChar(p, c), CMSDK_uart_GetTxBufferFull(p),
                  CMSDK_uart_GetBaudDivider(p), CMSDK_uart_ClearTxIRQ(p)} :
                 p \in {q \in Ports : "TXEN" \in reg[CtrlOf(q)]}, c \in Chars})
    \cup {UartPutc(c) : c \in {d \in Chars :
             \E p \in Ports : "TXEN" \in reg[CtrlOf(p)]}}
    \cup {CMSDK_uart_GetTxIRQStatus, UartStdOutInit, Uart2StdOutInit}

\* The receive handler takes a character that is there, or looks at the flags.
UartIsrCalls ==
    (UNION {{CMSDK_uart_GetOverrunStatus(p), CMSDK_uart_ClearOverrunStatus(p),
             CMSDK_uart_GetRxBufferFull(p), CMSDK_uart_ClearRxIRQ(p)} : p \in Ports})
    \cup {CMSDK_uart_ReceiveChar(p) : p \in {q \in Ports : hw.rx[q] # <<>>}}
    \cup (IF \E p \in Ports : hw.rx[p] # <<>> THEN {UartGetc} ELSE {})
    \cup {CMSDK_uart_GetRxIRQStatus}

-----------------------------------------------------------------------------
(* GPIO.                                                                    *)

CMSDK_gpio_SetOutEnable(s) == <<SetBits("OUTENABLE", s)>>
CMSDK_gpio_ClrOutEnable(s) == <<ClrBits("OUTENABLE", s)>>
CMSDK_gpio_GetOutEnable == <<Read("OUTENABLE")>>
\* Bug variant: read, modified and written back.
CMSDK_gpio_SetAltFuncModify(s) == <<Read("ALTFUNC"), WriteOr("ALTFUNC", s)>>
CMSDK_gpio_SetAltFunc(s) == <<SetBits("ALTFUNC", s)>>
CMSDK_gpio_ClrAltFunc(s) == <<ClrBits("ALTFUNC", s)>>
CMSDK_gpio_GetAltFunc == <<Read("ALTFUNC")>>
CMSDK_gpio_IntClear(n) == <<ClrBits("INTSTATUS", {n}), Read("INTSTATUS")>>
CMSDK_gpio_SetIntEnable(n) == <<SetBits("INTEN", {n}), Read("INTEN")>>
CMSDK_gpio_ClrIntEnable(n) == <<ClrBits("INTEN", {n}), Read("INTEN")>>
CMSDK_gpio_SetIntHighLevel(n) == <<ClrBits("INTTYPE", {n}), SetBits("INTPOL", {n})>>
CMSDK_gpio_SetIntRisingEdge(n) == <<SetBits("INTTYPE", {n}), SetBits("INTPOL", {n})>>
CMSDK_gpio_SetIntLowLevel(n) == <<ClrBits("INTTYPE", {n}), ClrBits("INTPOL", {n})>>
CMSDK_gpio_SetIntFallingEdge(n) == <<SetBits("INTTYPE", {n}), ClrBits("INTPOL", {n})>>
CMSDK_gpio_MaskedWrite(v, m) == <<Masked(m \cap Lower, v), Masked(m \cap Upper, v)>>

GpioCalls(own) ==
    {CMSDK_gpio_SetOutEnable(own), CMSDK_gpio_ClrOutEnable(own), CMSDK_gpio_GetOutEnable,
     CMSDK_gpio_SetAltFunc(own), CMSDK_gpio_ClrAltFunc(own), CMSDK_gpio_GetAltFunc}
    \cup (UNION {{CMSDK_gpio_IntClear(n), CMSDK_gpio_SetIntEnable(n),
                  CMSDK_gpio_ClrIntEnable(n), CMSDK_gpio_SetIntHighLevel(n),
                  CMSDK_gpio_SetIntRisingEdge(n), CMSDK_gpio_SetIntLowLevel(n),
                  CMSDK_gpio_SetIntFallingEdge(n)} : n \in own})
    \cup {CMSDK_gpio_MaskedWrite(v, own) : v \in SUBSET own}

-----------------------------------------------------------------------------
(* Calls and their steps.                                                   *)

CallsOf(t) ==
    CASE dev = "timer" -> IF t = "main" THEN TimerMainCalls ELSE TimerIsrCalls
      [] dev = "uart" -> IF t = "main" THEN UartMainCalls ELSE UartIsrCalls
      [] dev = "gpio" -> GpioCalls(IF t = "main" THEN MainPins ELSE IsrPins)

\* base keeps the body of the program's call, for the serial orders.
MainCall ==
    /\ todo["main"] = <<>> /\ todo["isr"] = <<>> /\ made["main"] < MainBound
    /\ \E body \in CallsOf("main") :
        /\ todo' = [todo EXCEPT !["main"] = body]
        /\ base' = [outcomes |-> want, body |-> body]
        /\ want' = {Atomically(body, w) : w \in want}
    /\ made' = [made EXCEPT !["main"] = @ + 1]
    /\ UNCHANGED <<dev, reg, hw, tmp, log>>

\* The handler is entered between two accesses: its call comes after the
\* program's, or before it.
IsrCall ==
    /\ todo["isr"] = <<>> /\ made["isr"] < IsrBound
    /\ \E body \in CallsOf("isr") :
        /\ todo' = [todo EXCEPT !["isr"] = body]
        /\ base' = [base EXCEPT !.outcomes = {Atomically(body, b) : b \in @}]
        /\ want' = {Atomically(body, w) : w \in want}
                   \cup (IF todo["main"] = <<>> THEN {}
                         ELSE {Atomically(base.body, b) : b \in base'.outcomes})
    /\ made' = [made EXCEPT !["isr"] = @ + 1]
    /\ UNCHANGED <<dev, reg, hw, tmp, log>>

\* One access of thread t; the handler runs before the program does.
Runs(t) == todo[t] # <<>> /\ (t = "main" => todo["isr"] = <<>>)
NoBase == [outcomes |-> {}, body |-> <<>>]
Goes(t, rest) == /\ todo' = [todo EXCEPT ![t] = rest]
                 /\ base' = IF t = "main" /\ rest = <<>> THEN NoBase ELSE base
                 /\ UNCHANGED <<dev, made, want>>

RegisterAccess(t) ==
    LET a == Head(todo[t])
    IN  /\ Runs(t) /\ a.reg \in DOMAIN reg /\ a.op # "putc"
        /\ reg' = Written(reg, tmp[t], a)
        /\ tmp' = [tmp EXCEPT ![t] = IF Len(todo[t]) = 1 THEN {}
                                     ELSE IF a.op = "read" THEN reg[a.reg] ELSE @]
        /\ Goes(t, Tail(todo[t]))
        /\ UNCHANGED <<hw, log>>

\* Reads have no effect on a peripheral; VALUE and INTSTATUS take writes.
PeripheralAccess(t) ==
    LET a == Head(todo[t])
    IN  /\ Runs(t) /\ a.reg \in {"VALUE", "INTSTATUS"}
        /\ hw' = IF a.op = "num" THEN [hw EXCEPT !.value = a.num]
                 ELSE IF a.op = "clr" THEN [hw EXCEPT !.ints = @ \ a.val]
                 ELSE hw
        /\ Goes(t, Tail(todo[t]))
        /\ UNCHANGED <<reg, tmp, log>>

\* A port with its transmitter off ignores a character; a write to a full
\* buffer replaces the one waiting and is an overrun.  A read of an empty
\* receive buffer returns an old character.
SerialAccess(t) ==
    LET a == Head(todo[t])
        p == a.reg
        rest == Tail(todo[t])
        from == IF hw.rx["UART2"] # <<>> THEN "UART2" ELSE "USRT2"
        q == IF a.op = "getc" THEN from ELSE p
        sends == a.op = "data" /\ "TXEN" \in reg[CtrlOf(p)]
        takes == a.op \in {"take", "getc"}
        clears == a.op = "clrflags"
    IN  /\ Runs(t) /\ p \in Ports /\ a.op # "putc"
        /\ a.op = "waittx" => hw.tx[p] = <<>>
        /\ a.op = "waitrx" => hw.rx[p] # <<>>
        /\ a.op = "waitany" => \E r \in Ports : hw.rx[r] # <<>>
        /\ a.op = "chartime" => hw.tx[p] = <<>> \/ "TXEN" \notin reg[CtrlOf(p)]
        /\ hw' = IF sends THEN [hw EXCEPT !.tx[p] = <<a.chr>>,
                                         !.over = @ \cup (IF hw.tx[p] # <<>>
                                                          THEN {<<p, "TXOR">>} ELSE {})]
                 ELSE IF takes THEN [hw EXCEPT !.rx[q] = <<>>]
                 ELSE IF clears THEN [hw EXCEPT !.over = @ \ {<<p, "TXOR">>, <<p, "RXOR">>}]
                 ELSE hw
        /\ log' = IF sends THEN [log EXCEPT !.sent[p] = Append(@, a.chr)]
                  ELSE IF takes THEN [log EXCEPT !.got[q] = @ \o (IF hw.rx[q] = <<>>
                                                                 THEN <<"old">> ELSE hw.rx[q])]
                  ELSE IF clears /\ <<p, "RXOR">> \in hw.over
                  THEN [log EXCEPT !.cleared = @ \cup {p}]
                  ELSE log
        /\ Goes(t, rest)
        /\ UNCHANGED <<reg, tmp>>

\* UartPutc reads the USRT's CTRL and takes a branch.
PutcAccess(t) ==
    LET a == Head(todo[t])
    IN  /\ Runs(t) /\ a.op = "putc"
        /\ Goes(t, PutcBranch(a.chr) \o Tail(todo[t]))
        /\ UNCHANGED <<reg, hw, tmp, log>>

Step(t) == RegisterAccess(t) \/ PeripheralAccess(t) \/ SerialAccess(t) \/ PutcAccess(t)

-----------------------------------------------------------------------------
(* Peripherals.                                                             *)

Tick ==
    /\ dev = "timer" /\ "EN" \in reg["CTRL"]
    /\ hw' = [hw EXCEPT !.value = IF @ = 0 THEN reg["RELOAD"] ELSE @ - 1,
                        !.ints = IF hw.value = 1 /\ "IRQEN" \in reg["CTRL"]
                                 THEN @ \cup {"timer"} ELSE @]
    /\ UNCHANGED <<dev, reg, todo, tmp, made, base, want, log>>

Shift(p) ==
    /\ hw.tx[p] # <<>> /\ "TXEN" \in reg[CtrlOf(p)]
    /\ hw' = [hw EXCEPT !.tx[p] = <<>>]
    /\ log' = [log EXCEPT !.wire[p] = @ \o hw.tx[p]]
    /\ UNCHANGED <<dev, reg, todo, tmp, made, base, want>>

\* A character arrives; one that is still in the buffer is lost.
Arrive(p, c) ==
    /\ dev = "uart" /\ "RXEN" \in reg[CtrlOf(p)]
    /\ Len(log.came["UART2"]) + Len(log.came["USRT2"]) < IsrBound
    /\ hw' = [hw EXCEPT !.rx[p] = <<c>>,
                        !.over = @ \cup (IF hw.rx[p] # <<>> THEN {<<p, "RXOR">>} ELSE {})]
    /\ log' = [log EXCEPT !.came[p] = Append(@, c),
                          !.cleared = IF hw.rx[p] # <<>> THEN @ \ {p} ELSE @]
    /\ UNCHANGED <<dev, reg, todo, tmp, made, base, want>>

PinEvent(n) ==
    /\ dev = "gpio" /\ n \in reg["INTEN"]
    /\ hw' = [hw EXCEPT !.ints = @ \cup {n}]
    /\ UNCHANGED <<dev, reg, todo, tmp, made, base, want, log>>

AtReset == [r \in SetRegs \cup NumRegs |-> IF r \in NumRegs THEN 0 ELSE {}]

\* What UartStdOutInit leaves of the registers at reset.
ConsoleUp == [AtReset EXCEPT !["UART2_BAUDDIV"] = 1, !["UART2_CTRL"] = {"TXEN"},
                             !["USRT2_BAUDDIV"] = 2, !["USRT2_CTRL"] = {"TXEN", "RXEN"},
                             !["ALTFUNC"] = {"GP1.5"}]
ASSUME ConsoleAssumption == Atomically(UartStdOutInit, AtReset) = ConsoleUp

\* From reset, or with the console set up.
Init ==
    /\ dev \in {"timer", "uart", "gpio"}
    /\ reg \in IF dev = "uart" THEN {AtReset, ConsoleUp} ELSE {AtReset}
    /\ hw = [value |-> 0, ints |-> {}, tx |-> [p \in Ports |-> <<>>],
             rx |-> [p \in Ports |-> <<>>], over |-> {}]
    /\ todo = [t \in Threads |-> <<>>] /\ tmp = [t \in Threads |-> {}]
    /\ made = [t \in Threads |-> 0]
    /\ want = {reg} /\ base = NoBase
    /\ log = [wire |-> [p \in Ports |-> <<>>], sent |-> [p \in Ports |-> <<>>],
              came |-> [p \in Ports |-> <<>>], got |-> [p \in Ports |-> <<>>],
              cleared |-> {}]

Next == \/ MainCall \/ IsrCall \/ \E t \in Threads : Step(t)
        \/ Tick \/ \E p \in Ports : Shift(p) \/ \E c \in Chars : Arrive(p, c)
        \/ \E n \in Pins : PinEvent(n)

Spec == Init /\ [][Next]_vars

-----------------------------------------------------------------------------
(* Properties.                                                              *)

Idle == \A t \in Threads : todo[t] = <<>>

\* The unqualified "This function is thread safe" of the GPIO functions: once no
\* call is running, the registers are what some serial order of the calls
\* leaves, whichever pins the handler sets up.  False of a pin the program sets
\* up too.
ThreadSafe == Idle => reg \in want

\* Pins that both threads set up, and the registers without the bits of those.
Shared == MainPins \cap IsrPins
Beside(R) == [r \in DOMAIN R |-> IF r \in GpioRegs THEN R[r] \ Shared ELSE R[r]]

\* What does hold of the calls: beside the shared pins the registers are what one
\* serial order of them leaves, wherever the handler came in; and each bit of a
\* shared pin is what some serial order leaves, though not one order for all
\* its bits.
CallsAreAtomic ==
    Idle => /\ \E w \in want : Beside(reg) = Beside(w)
            /\ \A r \in GpioRegs, n \in Shared :
                  \E w \in want : n \in reg[r] <=> n \in w[r]

\* A timer (re)initialised for a reload value starts from it: no tick of the
\* earlier setting gets between the writes of VALUE, RELOAD and CTRL.
StartsFull ==
    [][\A v \in Reloads, i \in BOOLEAN :
          \A body \in {CMSDK_timer_Init_IntClock(v, i), CMSDK_timer_Init_ExtClock(v, i),
                       CMSDK_timer_Init_ExtEnable(v, i)} :
              base.body = body /\ Len(todo["main"]) = 1 /\ todo'["main"] = <<>>
                  => hw'.value = v /\ reg'["RELOAD"] = v]_vars

\* Characters leave an enabled port once each and in the order they were
\* written, whatever receive handlers run in between.
SentInOrder == \A p \in Ports : log.wire[p] \o hw.tx[p] = log.sent[p]

\* A character that arrived is read once, in order, or its loss is flagged: the
\* overrun bit is set, or was when the program cleared it.
LossIsFlagged ==
    \A p \in Ports : \/ log.got[p] \o hw.rx[p] = log.came[p]
                     \/ <<p, "RXOR">> \in hw.over
                     \/ p \in log.cleared
=============================================================================
