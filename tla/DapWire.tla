------------------------------- MODULE DapWire -------------------------------
(***************************************************************************)
(* The debug tester's wires, clock by clock (debugtester.c, JTAG and       *)
(* serial wire routines).  The tester drives the pins of the port from     *)
(* software: a routine is the sequence of clock pulses it makes, each with *)
(* the levels it sets before the pulse.  The port at the other end follows *)
(* the standard TAP states, or the phases of a serial wire access; it is   *)
(* not part of the repository and is modelled from what the routines       *)
(* assume of it.  The lengths of data and of a line reset are scaled.      *)
(***************************************************************************)
EXTENDS Integers, Sequences, SequencesExt

CONSTANTS WordBits,     \* data bits of an access (32)
          ResetCycles,  \* clocks of a line reset (50)
          MaxWaits      \* WAIT answers the port gives in a row

ASSUME WireAssumption == /\ WordBits \in Nat \ {0} /\ ResetCycles \in Nat \ {0}
                         /\ MaxWaits \in Nat

VARIABLES host,    \* the tester: the access under way and the pulses to make
          port,    \* the port's end
          waits    \* WAIT answers in a row

vars == <<host, port, waits>>

\* Words, codes and transitions are sequences of bits, the lowest first.
Words == [1 .. WordBits -> {0, 1}]
Parity(word) == FoldLeft(LAMBDA a, b : (a + b) % 2, 0, word)

-----------------------------------------------------------------------------
(* Pulses.  `drive` tells whether the tester drives TMS/SWDIO, `keep`      *)
(* whether it keeps the level it saw before the pulse.                     *)

Pulse(drive, level, tdi, keep) ==
    [drive |-> drive, level |-> level, tdi |-> tdi, keep |-> keep]

JTAGTransition(tms) == [k \in 1 .. Len(tms) |-> Pulse(TRUE, tms[k], 0, FALSE)]
\* TMS rises with the last bit, which leaves the shift state.
JTAGShift(data, keep) ==
    [k \in 1 .. Len(data) |-> Pulse(TRUE, IF k = Len(data) THEN 1 ELSE 0, data[k], keep)]

JTAGScanIR(instruction) ==
    JTAGTransition(<<1, 1, 0, 0>>) \o JTAGShift(instruction, FALSE) \o JTAGTransition(<<1, 0>>)
JTAGScanDR(data) ==
    JTAGTransition(<<1, 0, 0>>) \o JTAGShift(data, TRUE) \o JTAGTransition(<<1, 0>>)
\* Test-Logic-Reset from any state, then Run-Test/Idle.
SetInterfaceJTAG == JTAGTransition(<<1, 1, 1, 1, 1>>) \o JTAGTransition(<<0>>)

SerialWireClockOut(bits) == [k \in 1 .. Len(bits) |-> Pulse(TRUE, bits[k], 0, FALSE)]
SerialWireClockIn(numbits) == [k \in 1 .. numbits |-> Pulse(FALSE, 0, 0, TRUE)]
SWLineReset(idle) ==
    SerialWireClockOut([k \in 1 .. ResetCycles |-> 1])
        \o SerialWireClockOut([k \in 1 .. idle |-> 0])

\* Start, APnDP, RnW, A[3:2], parity, stop, park.
SW_HEADER(a) == <<1, a.ap, a.rnw>> \o a.addr
                    \o <<Parity(<<a.ap, a.rnw>> \o a.addr), 0, 1>>
\* The header, a turnaround bit, three bits of acknowledge.
SWHeader(a) == SerialWireClockOut(SW_HEADER(a)) \o SerialWireClockIn(4)
\* Bug variant: parity and turnaround are not clocked.
SWDataReadBare == SerialWireClockIn(WordBits)
SWDataRead == SerialWireClockIn(WordBits) \o SerialWireClockIn(2)
\* Bug variant: no turnaround before the data.
SWDataWriteAtOnce(data) == SerialWireClockOut(data) \o SerialWireClockOut(<<Parity(data)>>)
SWDataWrite(data) ==
    <<Pulse(FALSE, 0, 0, FALSE)>> \o SerialWireClockOut(data)
        \o SerialWireClockOut(<<Parity(data)>>)

-----------------------------------------------------------------------------
(* Acknowledgements, lowest bit first.                                     *)

SW_OK == <<1, 0, 0>>
SW_WAIT == <<0, 1, 0>>
SW_FAULT == <<0, 0, 1>>
JTAG_OKFAULT == <<0, 1, 0>>
JTAG_WAIT == <<1, 0, 0>>

JTAG_IDCODE == <<0, 1, 1, 1>>
JTAG_APACC == <<1, 1, 0, 1>>
JTAG_DPACC == <<0, 1, 0, 1>>
IdCode == <<1, 0, 1>>                \* the identification, scaled
AccessCode(a) == <<a.rnw>> \o a.addr

-----------------------------------------------------------------------------
(* The port over JTAG: the TAP state machine.                              *)

Tap == [TestLogicReset |-> <<"RunTest", "TestLogicReset">>,
        RunTest        |-> <<"RunTest", "SelectDR">>,
        SelectDR       |-> <<"CaptureDR", "SelectIR">>,
        CaptureDR      |-> <<"ShiftDR", "Exit1DR">>,
        ShiftDR        |-> <<"ShiftDR", "Exit1DR">>,
        Exit1DR        |-> <<"PauseDR", "UpdateDR">>,
        PauseDR        |-> <<"PauseDR", "Exit2DR">>,
        Exit2DR        |-> <<"ShiftDR", "UpdateDR">>,
        UpdateDR       |-> <<"RunTest", "SelectDR">>,
        SelectIR       |-> <<"CaptureIR", "TestLogicReset">>,
        CaptureIR      |-> <<"ShiftIR", "Exit1IR">>,
        ShiftIR        |-> <<"ShiftIR", "Exit1IR">>,
        Exit1IR        |-> <<"PauseIR", "UpdateIR">>,
        PauseIR        |-> <<"PauseIR", "Exit2IR">>,
        Exit2IR        |-> <<"ShiftIR", "UpdateIR">>,
        UpdateIR       |-> <<"RunTest", "SelectDR">>]

\* What a data register shows when it is captured: an acknowledge and data.
Captures(p) ==
    IF p.ir = JTAG_IDCODE THEN {IdCode}
    ELSE {ack \o word : ack \in {JTAG_OKFAULT} \cup
                                (IF waits < MaxWaits THEN {JTAG_WAIT} ELSE {}),
                        word \in Words}

\* A rising clock edge.
TapEdge(p, tms, tdi) ==
    LET moved == [p EXCEPT !.state = Tap[p.state][tms + 1]]
    IN  IF p.state = "CaptureDR"
        THEN {[moved EXCEPT !.shift = v, !.shown = v] : v \in Captures(p)}
        ELSE IF p.state = "CaptureIR" THEN {[moved EXCEPT !.shift = <<1, 0, 0, 0>>]}
        ELSE IF p.state \in {"ShiftDR", "ShiftIR"}
        THEN {[moved EXCEPT !.shift = Append(Tail(@), tdi)]}
        ELSE IF p.state = "UpdateDR" THEN {[moved EXCEPT !.taken = p.shift, !.shift = <<>>]}
        ELSE IF p.state = "UpdateIR" THEN {[moved EXCEPT !.ir = p.shift, !.shift = <<>>]}
        ELSE IF p.state = "TestLogicReset"
        THEN {[moved EXCEPT !.ir = JTAG_IDCODE, !.shift = <<>>]}
        ELSE {moved}

-----------------------------------------------------------------------------
(* The port over serial wire.  `phase` is what the next edge belongs to:   *)
(* "lost" until a line reset, "idle" until a start bit, then the header,   *)
(* the turnaround, the acknowledge, and the data with their turnarounds.   *)

Drives(p) == p.phase \in {"ack", "read"}
OutBit(p) == IF Drives(p) THEN Head(p.shift) ELSE 1
To(p, phase) == [p EXCEPT !.phase = phase, !.shift = <<>>]

HeaderOK(h) == h[6] = Parity(SubSeq(h, 2, 5)) /\ h[7] = 0 /\ h[8] = 1
AfterHeader(p, h) ==
    IF HeaderOK(h) THEN [To(p, "turn to port") EXCEPT !.header = h] ELSE To(p, "lost")
Acks == {SW_OK, SW_FAULT} \cup (IF waits < MaxWaits THEN {SW_WAIT} ELSE {})

SwdEdge(p, line) ==
    LET in == Append(p.shift, line)
    IN  CASE p.phase = "lost" ->
                 {IF line = 1 /\ Len(p.shift) + 1 < ResetCycles THEN [p EXCEPT !.shift = in]
                  ELSE IF line = 1 THEN To(p, "reset") ELSE To(p, "lost")}
          [] p.phase = "reset" -> {IF line = 0 THEN To(p, "idle") ELSE p}
          [] p.phase = "idle" ->
                 {IF line = 1 THEN [To(p, "header") EXCEPT !.shift = <<1>>] ELSE p}
          [] p.phase = "header" ->
                 {IF Len(in) < 8 THEN [p EXCEPT !.shift = in] ELSE AfterHeader(p, in)}
          [] p.phase = "turn to port" ->
                 {[p EXCEPT !.phase = "ack", !.shift = a, !.ack = a] : a \in Acks}
          [] p.phase = "ack" ->
                 IF Len(p.shift) > 1 THEN {[p EXCEPT !.shift = Tail(@)]}
                 ELSE IF p.ack = SW_OK /\ p.header[3] = 1
                 THEN {[p EXCEPT !.phase = "read", !.shift = Append(w, Parity(w)), !.shown = w] :
                           w \in Words}
                 ELSE {To(p, IF p.ack = SW_OK THEN "turn to write" ELSE "turn to idle")}
          [] p.phase = "read" ->
                 {IF Len(p.shift) > 1 THEN [p EXCEPT !.shift = Tail(@)] ELSE To(p, "turn to idle")}
          [] p.phase = "turn to idle" -> {To(p, "idle")}
          [] p.phase = "turn to write" -> {To(p, "write")}
          [] p.phase = "write" ->
                 {IF Len(in) <= WordBits THEN [p EXCEPT !.shift = in]
                  ELSE IF line = Parity(p.shift) THEN [To(p, "idle") EXCEPT !.taken = p.shift]
                  ELSE To(p, "lost")}

-----------------------------------------------------------------------------
(* The tester.  An access is made of stages; each stage is a sequence of   *)
(* pulses, and what was kept of the levels decides on the next one.        *)

Accesses == [ap : {0, 1}, rnw : {0, 1}, addr : {<<0, 0>>, <<1, 0>>}, data : Words]
Stage(stage, a, pulses) == [stage |-> stage, access |-> a, pulses |-> pulses, got |-> <<>>]
NoAccess == [ap |-> 0, rnw |-> 1, addr |-> <<0, 0>>, data |-> [k \in 1 .. WordBits |-> 0]]

\* The port may be in any state when its interface is first selected.
Init ==
    /\ waits = 0
    /\ \/ \E s \in DOMAIN Tap :
              port = [kind |-> "jtag", state |-> s, ir |-> JTAG_DPACC,
                      shift |-> [k \in 1 .. WordBits + 3 |-> 0], shown |-> <<>>, taken |-> <<>>]
       \/ \E n \in 0 .. (ResetCycles - 1) :
              port = [kind |-> "sw", phase |-> "lost", shift |-> [k \in 1 .. n |-> 1],
                      header |-> <<>>, ack |-> SW_OK, shown |-> <<>>, taken |-> <<>>]
    /\ host = IF port.kind = "jtag" THEN Stage("select", NoAccess, SetInterfaceJTAG)
              ELSE Stage("select", NoAccess, SWLineReset(8))

\* One pulse: the level is set, the line may be looked at, the clock rises.
Clock ==
    /\ host.pulses # <<>>
    /\ LET c == Head(host.pulses)
           seen == IF port.kind = "jtag"
                   THEN IF port.shift = <<>> THEN 1 ELSE Head(port.shift)
                   ELSE OutBit(port)
           line == IF c.drive THEN c.level ELSE seen
       IN  /\ port' \in IF port.kind = "jtag" THEN TapEdge(port, c.level, c.tdi)
                        ELSE SwdEdge(port, line)
           /\ host' = [host EXCEPT !.pulses = Tail(@),
                                   !.got = IF c.keep THEN Append(@, seen) ELSE @]
    /\ UNCHANGED waits

Ended(stage) == host.stage = stage /\ host.pulses = <<>>
Begin(stage, pulses) == host' = Stage(stage, host.access, pulses) /\ UNCHANGED port
Finish == host' = [host EXCEPT !.stage = "rest"] /\ UNCHANGED port

Selected == Ended("select") /\ Finish /\ UNCHANGED waits

\* JTAGScanIDCODE, or a scan of the debug port or access port chain.
ScanIDCODE ==
    /\ Ended("rest") /\ port.kind = "jtag"
    /\ Begin("scan id", JTAGScanIR(JTAG_IDCODE) \o JTAGScanDR(<<0, 0, 0>>))
    /\ UNCHANGED waits
ScanDR(a) ==
    /\ Ended("rest") /\ port.kind = "jtag"
    /\ host' = Stage("scan", a, JTAGScanIR(IF a.ap = 1 THEN JTAG_APACC ELSE JTAG_DPACC)
                                    \o JTAGScanDR(AccessCode(a) \o a.data))
    /\ UNCHANGED <<port, waits>>
ScannedID == Ended("scan id") /\ Finish /\ UNCHANGED waits
\* The scan is repeated while the answer is WAIT.
Scanned ==
    /\ Ended("scan")
    /\ IF SubSeq(host.got, 1, 3) = JTAG_WAIT
       THEN /\ Begin("scan", JTAGScanDR(AccessCode(host.access) \o host.access.data))
            /\ waits' = waits + 1
       ELSE Finish /\ waits' = 0

SwAccess(a) ==
    /\ Ended("rest") /\ port.kind = "sw"
    /\ host' = Stage("header", a, SWHeader(a))
    /\ UNCHANGED <<port, waits>>
Ack == Tail(host.got)
\* Bug variant: any answer but OK is taken for WAIT.
AcknowledgedOrRepeated ==
    /\ Ended("header")
    /\ IF Ack # SW_OK THEN Begin("header", SerialWireClockOut(<<0>>) \o SWHeader(host.access))
       ELSE IF host.access.rnw = 1 THEN Begin("data", SWDataRead)
       ELSE Begin("data", SWDataWrite(host.access.data))
    /\ waits' = IF Ack = SW_WAIT THEN waits + 1 ELSE 0
\* WAIT: a turnaround bit, which the tester drives, and the header again.
Acknowledged ==
    /\ Ended("header")
    /\ IF Ack = SW_WAIT THEN Begin("header", SerialWireClockOut(<<0>>) \o SWHeader(host.access))
       ELSE IF Ack # SW_OK THEN Begin("refused", <<Pulse(FALSE, 0, 0, FALSE)>>)
       ELSE IF host.access.rnw = 1 THEN Begin("data", SWDataRead)
       ELSE Begin("data", SWDataWrite(host.access.data))
    /\ waits' = IF Ack = SW_WAIT THEN waits + 1 ELSE 0
DataDone == (Ended("data") \/ Ended("refused")) /\ Finish /\ UNCHANGED waits

Continue == Clock \/ Selected \/ ScannedID \/ Scanned \/ Acknowledged \/ DataDone
Next == Continue \/ ScanIDCODE \/ \E a \in Accesses : ScanDR(a) \/ SwAccess(a)
Spec == Init /\ [][Next]_vars
\* The tester runs: an access that was begun goes on.
FairSpec == Spec /\ WF_vars(Continue)

-----------------------------------------------------------------------------
\* The two ends never drive the line in the same clock.
NoContention ==
    port.kind = "sw" /\ host.pulses # <<>> => ~(Head(host.pulses).drive /\ Drives(port))

\* An access that ends moved the words whole: what the tester read is what
\* the port showed, what the port took is what the tester wrote.
WordsArrive ==
    /\ Ended("scan id") => host.got = port.shown /\ port.shown = IdCode
    /\ Ended("scan") => /\ host.got = port.shown
                        /\ port.taken = AccessCode(host.access) \o host.access.data
                        /\ port.ir = IF host.access.ap = 1 THEN JTAG_APACC ELSE JTAG_DPACC
    /\ Ended("data") => IF host.access.rnw = 1
                        THEN SubSeq(host.got, 1, WordBits) = port.shown
                        ELSE port.taken = host.access.data

\* Every access ends, as long as the port does not answer WAIT for ever.
AccessEnds == host.stage # "rest" ~> host.stage = "rest"
=============================================================================
