---------------------------- MODULE DapWireProofs ----------------------------
(***************************************************************************)
(* Proofs about DapWire, for every length of a word and of a line reset    *)
(* and any number of WAIT answers: the tester and the port are in step,    *)
(* clock by clock, so that the line has one driver and words arrive whole. *)
(***************************************************************************)
EXTENDS DapWire, SequenceTheorems, TLAPS

Levels == {0, 1} \cup {Parity(w) : w \in Words}
             \cup {Parity(<<a.ap, a.rnw>> \o a.addr) : a \in Accesses}
Pulses == [drive : BOOLEAN, level : Levels, tdi : Levels, keep : BOOLEAN]

\* Pulses still to make; they are those of f, which tells the pulse that j
\* others follow.
Left == Len(host.pulses)
Making(f) == \A k \in 1 .. Left : host.pulses[k] = f[Left - k]

Stages == {"select", "rest", "scan id", "scan", "header", "data", "refused"}
HostTyped == host \in [stage : Stages, access : Accesses, pulses : Seq(Pulses), got : Seq(Levels)]
Floating(keep) == Pulse(FALSE, 0, 0, keep)

-----------------------------------------------------------------------------
(* Serial wire: the port's phase, by the pulses the tester has left.       *)

Phases == {"lost", "reset", "idle", "header", "turn to port", "ack", "read", "turn to idle",
           "turn to write", "write"}
SwPorts ==
    [kind : {"sw"}, phase : Phases, shift : Seq(Levels), header : Seq(Levels),
     ack : {SW_OK, SW_WAIT, SW_FAULT}, shown : Seq(Levels), taken : Seq(Levels)]
SwTyped == port \in SwPorts

ResetPulses == [j \in Nat |-> Pulse(TRUE, IF j >= 8 THEN 1 ELSE 0, 0, FALSE)]
SwSelecting ==
    /\ host.stage = "select" /\ Left <= ResetCycles + 8 /\ Making(ResetPulses)
    /\ \/ Left >= 8 /\ port.phase = "reset"
       \/ /\ Left > 8 /\ port.phase = "lost"
          /\ Len(port.shift) < ResetCycles /\ Len(port.shift) + Left - 8 >= ResetCycles
       \/ Left < 8 /\ port.phase = "idle"

HeaderPulses(a) ==
    [j \in Nat |-> IF j <= 3 THEN Floating(TRUE)
                  ELSE IF j <= 11 THEN Pulse(TRUE, SW_HEADER(a)[12 - j], 0, FALSE)
                  ELSE Pulse(TRUE, 0, 0, FALSE)]
\* The port goes on as its answer has it.
Answered ==
    IF port.ack # SW_OK THEN port.phase = "turn to idle"
    ELSE IF host.access.rnw = 0 THEN port.phase = "turn to write"
    ELSE /\ port.phase = "read"
         /\ Len(port.shift) = WordBits + 1 /\ Len(port.shown) = WordBits
         /\ \A k \in 1 .. WordBits : port.shift[k] = port.shown[k]
HeadingPhase ==
    \/ Left = 13 /\ port.phase = "turn to idle"
    \/ Left = 12 /\ port.phase = "idle"
    \/ /\ Left \in 5 .. 11 /\ port.phase = "header" /\ Len(port.shift) = 12 - Left
       /\ \A k \in 1 .. 12 - Left : port.shift[k] = SW_HEADER(host.access)[k]
    \/ Left = 4 /\ port.phase = "turn to port" /\ port.header = SW_HEADER(host.access)
    \/ /\ Left \in 1 .. 3 /\ port.phase = "ack" /\ port.header = SW_HEADER(host.access)
       /\ Len(port.shift) = Left /\ \A k \in 1 .. Left : port.shift[k] = port.ack[3 - Left + k]
       /\ Len(host.got) = 4 - Left
       /\ \A k \in 1 .. 3 - Left : host.got[k + 1] = port.ack[k]
    \/ /\ Left = 0 /\ Len(host.got) = 4 /\ \A k \in 1 .. 3 : host.got[k + 1] = port.ack[k]
       /\ Answered
SwHeading ==
    /\ host.stage = "header" /\ Left <= 13 /\ Making(HeaderPulses(host.access))
    /\ Left >= 4 => host.got = <<>>
    /\ HeadingPhase

ReadPulses == [j \in Nat |-> Floating(TRUE)]
ReadingPhase ==
    \/ /\ Left >= 2 /\ port.phase = "read" /\ Len(port.shift) = Left - 1
       /\ \A k \in 1 .. Left - 2 : port.shift[k] = port.shown[WordBits + 2 - Left + k]
    \/ Left = 1 /\ port.phase = "turn to idle"
    \/ Left = 0 /\ port.phase = "idle"
SwReading ==
    /\ host.stage = "data" /\ host.access.rnw = 1 /\ Left <= WordBits + 2
    /\ Making(ReadPulses)
    /\ Len(port.shown) = WordBits /\ Len(host.got) = WordBits + 2 - Left
    /\ \A k \in 1 .. WordBits : k <= Len(host.got) => host.got[k] = port.shown[k]
    /\ ReadingPhase

WritePulses(word) ==
    [j \in Nat |-> IF j = 0 THEN Pulse(TRUE, Parity(word), 0, FALSE)
                  ELSE IF j <= WordBits THEN Pulse(TRUE, word[WordBits + 1 - j], 0, FALSE)
                  ELSE Floating(FALSE)]
WritingPhase ==
    \/ Left = WordBits + 2 /\ port.phase = "turn to write"
    \/ /\ Left \in 1 .. WordBits + 1 /\ port.phase = "write"
       /\ Len(port.shift) = WordBits + 1 - Left
       /\ \A k \in 1 .. WordBits + 1 - Left : port.shift[k] = host.access.data[k]
    \/ Left = 0 /\ port.phase = "idle" /\ port.taken = host.access.data
SwWriting ==
    /\ host.stage = "data" /\ host.access.rnw = 0 /\ Left <= WordBits + 2
    /\ Making(WritePulses(host.access.data))
    /\ WritingPhase

IdlePulses == [j \in Nat |-> Floating(FALSE)]
SwResting ==
    \/ /\ host.stage = "refused" /\ Left <= 1 /\ Making(IdlePulses)
       /\ port.phase = IF Left = 1 THEN "turn to idle" ELSE "idle"
    \/ host.stage = "rest" /\ Left = 0 /\ port.phase = "idle"

SwInv == /\ SwTyped
         /\ SwSelecting \/ SwHeading \/ SwReading \/ SwWriting \/ SwResting

-----------------------------------------------------------------------------
(* JTAG: the state of the TAP, by the pulses the tester has left.          *)

TapStates ==
    {"TestLogicReset", "RunTest", "SelectDR", "CaptureDR", "ShiftDR", "Exit1DR", "PauseDR", "Exit2DR",
     "UpdateDR", "SelectIR", "CaptureIR", "ShiftIR", "Exit1IR", "PauseIR", "Exit2IR", "UpdateIR"}
JtagPorts ==
    [kind : {"jtag"}, state : TapStates, ir : Seq(Levels), shift : Seq(Levels),
     shown : Seq(Levels), taken : Seq(Levels)]
JtagTyped == port \in JtagPorts

\* Where n clocks with TMS high do not fail to reset the TAP.
ResetIn(n) ==
    IF n = 0 THEN {"TestLogicReset"}
    ELSE IF n = 1 THEN {"TestLogicReset", "SelectIR"}
    ELSE IF n = 2 THEN {"TestLogicReset", "SelectIR", "SelectDR"}
    ELSE IF n = 3 THEN {"TestLogicReset", "SelectIR", "SelectDR", "RunTest", "UpdateDR", "UpdateIR"}
    ELSE IF n = 4 THEN {"TestLogicReset", "SelectIR", "SelectDR", "RunTest", "UpdateDR", "UpdateIR",
                        "Exit1DR", "Exit2DR", "Exit1IR", "Exit2IR"}
    ELSE TapStates
TapResetPulses == [j \in Nat |-> Pulse(TRUE, IF j >= 1 THEN 1 ELSE 0, 0, FALSE)]
JtagSelecting ==
    /\ host.stage = "select" /\ Left <= 6 /\ Making(TapResetPulses)
    /\ port.state \in IF Left = 0 THEN {"RunTest"} ELSE ResetIn(Left - 1)
    /\ Left = 6 => port.shift # <<>>

\* What the scan of a stage shifts into the instruction and the data register.
ScanCode(h) == IF h.stage = "scan id" THEN JTAG_IDCODE
               ELSE IF h.access.ap = 1 THEN JTAG_APACC ELSE JTAG_DPACC
ScanData(h) == IF h.stage = "scan id" THEN <<0, 0, 0>> ELSE AccessCode(h.access) \o h.access.data
\* w: the bits of the data register.
ScanPulses(code, data) ==
    LET w == Len(data)
    IN  [j \in Nat |->
           IF j <= 1 THEN Pulse(TRUE, j, 0, FALSE)
           ELSE IF j <= w + 1 THEN Pulse(TRUE, IF j = 2 THEN 1 ELSE 0, data[w + 2 - j], TRUE)
           ELSE IF j <= w + 4 THEN Pulse(TRUE, IF j = w + 4 THEN 1 ELSE 0, 0, FALSE)
           ELSE IF j <= w + 6 THEN Pulse(TRUE, IF j = w + 6 THEN 1 ELSE 0, 0, FALSE)
           ELSE IF j <= w + 10
           THEN Pulse(TRUE, IF j = w + 7 THEN 1 ELSE 0, code[w + 11 - j], FALSE)
           ELSE Pulse(TRUE, IF j >= w + 13 THEN 1 ELSE 0, 0, FALSE)]

\* The scan of the instruction register, with n pulses left and the port in
\* p; then the one of the data register, with `got` kept of it.
ScanningIR(n, p, code, w) ==
    \/ n = w + 15 /\ p.state = "RunTest"
    \/ n = w + 14 /\ p.state = "SelectDR"
    \/ n = w + 13 /\ p.state = "SelectIR"
    \/ n = w + 12 /\ p.state = "CaptureIR"
    \/ /\ n \in w + 8 .. w + 11 /\ p.state = "ShiftIR" /\ Len(p.shift) = 4
       /\ \A k \in 1 .. 4 : k > n - w - 7 => p.shift[k] = code[k - (n - w - 7)]
    \/ n = w + 7 /\ p.state = "Exit1IR" /\ p.shift = code
    \/ n = w + 6 /\ p.state = "UpdateIR" /\ p.shift = code
ShiftingDR(n, p, got, data, w) ==
    /\ Len(p.shown) = w
    /\ Len(got) = IF n <= 2 THEN w ELSE w + 2 - n
    /\ \A k \in 1 .. Len(got) : got[k] = p.shown[k]
    /\ \/ /\ n \in 3 .. w + 2 /\ p.state = "ShiftDR" /\ Len(p.shift) = w
          /\ \A k \in 1 .. w : p.shift[k] = IF k <= n - 2 THEN p.shown[k + (w + 2 - n)]
                                            ELSE data[k - (n - 2)]
       \/ n = 2 /\ p.state = "Exit1DR" /\ p.shift = data
       \/ n = 1 /\ p.state = "UpdateDR" /\ p.shift = data
       \/ n = 0 /\ p.state = "RunTest" /\ p.taken = data
ScanningDR(n, p, got, code, data, w) ==
    /\ p.ir = code
    /\ \/ n = w + 5 /\ p.state = "RunTest" /\ got = <<>>
       \/ n = w + 4 /\ p.state = "SelectDR" /\ got = <<>>
       \/ n = w + 3 /\ p.state = "CaptureDR" /\ got = <<>>
       \/ ShiftingDR(n, p, got, data, w) /\ (code = JTAG_IDCODE => p.shown = IdCode)
Scanning(n, p, got, code, data, w) ==
    \/ ScanningIR(n, p, code, w) /\ got = <<>>
    \/ ScanningDR(n, p, got, code, data, w)
JtagScanning ==
    LET code == ScanCode(host)
        data == ScanData(host)
    IN  /\ host.stage \in {"scan id", "scan"}
        /\ Making(ScanPulses(code, data))
        /\ Scanning(Left, port, host.got, code, data, Len(data))

JtagResting == host.stage = "rest" /\ Left = 0 /\ port.state = "RunTest"

JtagInv == JtagTyped /\ (JtagSelecting \/ JtagScanning \/ JtagResting)

Inv == HostTyped /\ waits \in Nat /\ (SwInv \/ JtagInv)

-----------------------------------------------------------------------------
(* Sequences.                                                              *)

\* The elements of a sequence without its first, and with one more.
LEMMA Shifted ==
    ASSUME NEW S, NEW s \in Seq(S), s # <<>>
    PROVE  /\ Len(s) \in Nat \ {0} /\ Head(s) = s[1] /\ s[1] \in S
           /\ Tail(s) \in Seq(S) /\ Len(Tail(s)) = Len(s) - 1
           /\ \A k \in 1 .. Len(s) - 1 : Tail(s)[k] = s[k + 1]
OBVIOUS

\* A sequence with an element more.
LEMMA Extended ==
    ASSUME NEW S, NEW s \in Seq(S), NEW x \in S
    PROVE  /\ Append(s, x) \in Seq(S) /\ Len(Append(s, x)) = Len(s) + 1
           /\ Append(s, x)[Len(s) + 1] = x
           /\ \A k \in 1 .. Len(s) : Append(s, x)[k] = s[k]
OBVIOUS

\* A sequence with a length is not empty.
LEMMA NotEmpty ==
    ASSUME NEW S, NEW s \in Seq(S), Len(s) # 0
    PROVE  s # <<>>
OBVIOUS

\* The elements of two sequences put together.
LEMMA Joined ==
    ASSUME NEW S, NEW s \in Seq(S), NEW t \in Seq(S)
    PROVE  /\ s \o t \in Seq(S) /\ Len(s \o t) = Len(s) + Len(t)
           /\ Len(s) \in Nat /\ Len(t) \in Nat
           /\ \A k \in 1 .. Len(s) + Len(t) :
                 (s \o t)[k] = IF k <= Len(s) THEN s[k] ELSE t[k - Len(s)]
OBVIOUS

\* A function on 1 .. n is a sequence of length n.
LEMMA Listed ==
    ASSUME NEW S, NEW n \in Nat, NEW s, DOMAIN s = 1 .. n, s = [k \in 1 .. n |-> s[k]],
           \A k \in 1 .. n : s[k] \in S
    PROVE  s \in Seq(S) /\ Len(s) = n
<1>1. s \in [1 .. n -> S]
  OBVIOUS
<1>2. QED
  BY <1>1, SeqDef

-----------------------------------------------------------------------------
(* Levels, words and headers.                                              *)

\* The bits and the parities are levels.
LEMMA LevelFacts ==
    /\ 0 \in Levels /\ 1 \in Levels
    /\ \A w \in Words : Parity(w) \in Levels
    /\ \A a \in Accesses : Parity(<<a.ap, a.rnw>> \o a.addr) \in Levels
BY DEF Levels

\* A word is a sequence of WordBits bits.
LEMMA WordBitsOf ==
    ASSUME NEW w \in Words
    PROVE  /\ w \in Seq({0, 1}) /\ w \in Seq(Levels) /\ Len(w) = WordBits
           /\ \A k \in 1 .. WordBits : w[k] \in {0, 1} /\ w[k] \in Levels
<1>1. WordBits \in Nat
  BY WireAssumption
<1>2. w \in [1 .. WordBits -> {0, 1}]
  BY DEF Words
<1>3. \A k \in 1 .. WordBits : w[k] \in {0, 1} /\ w[k] \in Levels
  BY <1>2, LevelFacts
<1>4. DOMAIN w = 1 .. WordBits /\ w = [k \in 1 .. WordBits |-> w[k]]
  BY <1>2
<1>5. w \in Seq({0, 1}) /\ Len(w) = WordBits
  BY <1>1, <1>3, <1>4, Listed
<1>6. w \in Seq(Levels)
  BY <1>1, <1>3, <1>4, Listed
<1>7. QED
  BY <1>3, <1>5, <1>6

\* Tuples put together, as the header is.
LEMMA TwoAndTwo ==
    ASSUME NEW S, NEW x1 \in S, NEW x2 \in S, NEW x3 \in S, NEW x4 \in S
    PROVE  <<x1, x2>> \o <<x3, x4>> = <<x1, x2, x3, x4>>
<1>1. <<x1, x2>> \in Seq(S) /\ Len(<<x1, x2>>) = 2 /\ <<x3, x4>> \in Seq(S) /\ Len(<<x3, x4>>) = 2
      /\ <<x1, x2, x3, x4>> \in Seq(S) /\ Len(<<x1, x2, x3, x4>>) = 4
  OBVIOUS
<1>2. \A k \in 1 .. 4 : k = 1 \/ k = 2 \/ k = 3 \/ k = 4
  OBVIOUS
<1>3. \A k \in 1 .. 4 : (<<x1, x2>> \o <<x3, x4>>)[k] = <<x1, x2, x3, x4>>[k]
  BY <1>1, <1>2, Joined
<1>4. <<x1, x2>> \o <<x3, x4>> \in Seq(S) /\ Len(<<x1, x2>> \o <<x3, x4>>) = 4
  BY <1>1, Joined
<1>5. QED
  BY <1>1, <1>3, <1>4, SeqEqual

\* The same of three elements and two.
LEMMA ThreeAndTwo ==
    ASSUME NEW S, NEW x1 \in S, NEW x2 \in S, NEW x3 \in S, NEW x4 \in S, NEW x5 \in S
    PROVE  <<x1, x2, x3>> \o <<x4, x5>> = <<x1, x2, x3, x4, x5>>
<1>1. /\ <<x1, x2, x3>> \in Seq(S) /\ Len(<<x1, x2, x3>>) = 3
      /\ <<x4, x5>> \in Seq(S) /\ Len(<<x4, x5>>) = 2
      /\ <<x1, x2, x3, x4, x5>> \in Seq(S) /\ Len(<<x1, x2, x3, x4, x5>>) = 5
  OBVIOUS
<1>2. \A k \in 1 .. 5 : k = 1 \/ k = 2 \/ k = 3 \/ k = 4 \/ k = 5
  OBVIOUS
<1>3. \A k \in 1 .. 5 : (<<x1, x2, x3>> \o <<x4, x5>>)[k] = <<x1, x2, x3, x4, x5>>[k]
  BY <1>1, <1>2, Joined
<1>4. <<x1, x2, x3>> \o <<x4, x5>> \in Seq(S) /\ Len(<<x1, x2, x3>> \o <<x4, x5>>) = 5
  BY <1>1, Joined
<1>5. QED
  BY <1>1, <1>3, <1>4, SeqEqual

\* The same of five elements and three.
LEMMA FiveAndThree ==
    ASSUME NEW S, NEW x1 \in S, NEW x2 \in S, NEW x3 \in S, NEW x4 \in S, NEW x5 \in S,
           NEW x6 \in S, NEW x7 \in S, NEW x8 \in S
    PROVE  <<x1, x2, x3, x4, x5>> \o <<x6, x7, x8>> = <<x1, x2, x3, x4, x5, x6, x7, x8>>
<1>1. /\ <<x1, x2, x3, x4, x5>> \in Seq(S) /\ Len(<<x1, x2, x3, x4, x5>>) = 5
      /\ <<x6, x7, x8>> \in Seq(S) /\ Len(<<x6, x7, x8>>) = 3
      /\ <<x1, x2, x3, x4, x5, x6, x7, x8>> \in Seq(S)
      /\ Len(<<x1, x2, x3, x4, x5, x6, x7, x8>>) = 8
  OBVIOUS
<1>2. \A k \in 1 .. 8 : k = 1 \/ k = 2 \/ k = 3 \/ k = 4 \/ k = 5 \/ k = 6 \/ k = 7 \/ k = 8
  OBVIOUS
<1>3. \A k \in 1 .. 8 :
         (<<x1, x2, x3, x4, x5>> \o <<x6, x7, x8>>)[k] = <<x1, x2, x3, x4, x5, x6, x7, x8>>[k]
  BY <1>1, <1>2, Joined
<1>4. /\ <<x1, x2, x3, x4, x5>> \o <<x6, x7, x8>> \in Seq(S)
      /\ Len(<<x1, x2, x3, x4, x5>> \o <<x6, x7, x8>>) = 8
  BY <1>1, Joined
<1>5. QED
  BY <1>1, <1>3, <1>4, SeqEqual

\* The eight bits of a header; what the port checks of them holds.
LEMMA HeaderBits ==
    ASSUME NEW a \in Accesses
    PROVE  LET h == SW_HEADER(a)
           IN  /\ h \in Seq(Levels) /\ Len(h) = 8
               /\ h[1] = 1 /\ h[3] = a.rnw /\ HeaderOK(h)
<1>1. a.ap \in {0, 1} /\ a.rnw \in {0, 1} /\ a.addr \in {<<0, 0>>, <<1, 0>>}
  BY DEF Accesses
<1> DEFINE p == Parity(<<a.ap, a.rnw>> \o a.addr)
<1>2. p \in Levels
  BY LevelFacts
<1> HIDE DEF p
<1> SUFFICES ASSUME NEW x \in {0, 1}, a.addr = <<x, 0>>
             PROVE  LET h == SW_HEADER(a)
                    IN  /\ h \in Seq(Levels) /\ Len(h) = 8
                        /\ h[1] = 1 /\ h[3] = a.rnw /\ HeaderOK(h)
  BY <1>1
<1>3. <<1, a.ap, a.rnw>> \o <<x, 0>> = <<1, a.ap, a.rnw, x, 0>>
  BY <1>1, LevelFacts, ThreeAndTwo
<1>4. SW_HEADER(a) = <<1, a.ap, a.rnw, x, 0, p, 0, 1>>
  <2>1. SW_HEADER(a) = <<1, a.ap, a.rnw, x, 0>> \o <<p, 0, 1>>
    BY <1>3 DEF SW_HEADER, p
  <2>2. 1 \in Levels /\ 0 \in Levels /\ a.ap \in Levels /\ a.rnw \in Levels /\ x \in Levels
    BY <1>1, LevelFacts
  <2>3. <<1, a.ap, a.rnw, x, 0>> \o <<p, 0, 1>> = <<1, a.ap, a.rnw, x, 0, p, 0, 1>>
    BY <2>2, <1>2, FiveAndThree
  <2>4. QED
    BY <2>1, <2>3
<1> DEFINE h == <<1, a.ap, a.rnw, x, 0, p, 0, 1>>
           f == <<a.ap, a.rnw, x, 0>>
<1>5. SubSeq(h, 2, 5) = f
  <2>1. h \in Seq(Levels) /\ Len(h) = 8 /\ f \in Seq(Levels) /\ Len(f) = 4
    BY <1>1, <1>2, LevelFacts
  <2>2. SubSeq(h, 2, 5) \in Seq(Levels) /\ Len(SubSeq(h, 2, 5)) = 4
        /\ \A k \in 1 .. 4 : SubSeq(h, 2, 5)[k] = h[k + 1]
    <3>1. \A k \in 2 .. 5 : h[k] \in Levels
      BY <2>1, ElementOfSeq
    <3> HIDE DEF h
    <3>2. 5 - 2 + 1 = 4 /\ \A k \in 1 .. 4 : 2 + k - 1 = k + 1
      OBVIOUS
    <3>3. QED
      BY <3>1, <3>2, SubSeqProperties
  <2>3. \A k \in 1 .. 4 : k = 1 \/ k = 2 \/ k = 3 \/ k = 4
    OBVIOUS
  <2>4. \A k \in 1 .. 4 : h[k + 1] = f[k]
    BY <2>3
  <2>5. QED
    <3> HIDE DEF h, f
    <3>1. QED
      BY <2>1, <2>2, <2>4, SeqEqual
<1>6. <<a.ap, a.rnw>> \o a.addr = f
  BY <1>1, LevelFacts, TwoAndTwo
<1>7. p = Parity(f)
  BY <1>6 DEF p
<1>8. HeaderOK(h)
  BY <1>5, <1>7 DEF HeaderOK
<1>9. QED
  BY <1>1, <1>2, <1>4, <1>8, LevelFacts

-----------------------------------------------------------------------------
(* One pulse.                                                              *)

\* The level the tester would read before the pulse, and the level of the line.
Seen == IF port.kind = "jtag" THEN IF port.shift = <<>> THEN 1 ELSE Head(port.shift)
        ELSE OutBit(port)
Line == IF host.pulses[1].drive THEN host.pulses[1].level ELSE Seen

\* What the pulse does to the tester.
HostClocked ==
    /\ Left \in Nat /\ Left >= 1 /\ Left' = Left - 1
    /\ host.pulses[1] \in Pulses
    /\ \A k \in 1 .. Left' : host'.pulses[k] = host.pulses[k + 1]
    /\ host'.stage = host.stage /\ host'.access = host.access
    /\ host'.got = IF host.pulses[1].keep THEN Append(host.got, Seen) ELSE host.got
    /\ host.got \in Seq(Levels)

\* A clock pulse is the first of those left, and leaves the others.
LEMMA PulseMade ==
    ASSUME HostTyped, Clock, Seen \in Levels
    PROVE  /\ HostTyped' /\ HostClocked /\ waits' = waits
           /\ port.kind = "sw" => port' \in SwdEdge(port, Line)
           /\ port.kind = "jtag" =>
                 port' \in TapEdge(port, host.pulses[1].level, host.pulses[1].tdi)
<1>1. /\ host.pulses # <<>> /\ host.pulses \in Seq(Pulses) /\ host.got \in Seq(Levels)
      /\ host.stage \in Stages /\ host.access \in Accesses
  BY DEF Clock, HostTyped
<1>2. /\ Head(host.pulses) = host.pulses[1] /\ host.pulses[1] \in Pulses
      /\ Left \in Nat /\ Left >= 1
      /\ Tail(host.pulses) \in Seq(Pulses) /\ Len(Tail(host.pulses)) = Left - 1
      /\ \A k \in 1 .. Left - 1 : Tail(host.pulses)[k] = host.pulses[k + 1]
  BY <1>1, Shifted DEF Left
<1>3. /\ host' = [host EXCEPT !.pulses = Tail(@),
                              !.got = IF host.pulses[1].keep THEN Append(@, Seen) ELSE @]
      /\ waits' = waits
      /\ port' \in IF port.kind = "jtag" THEN TapEdge(port, host.pulses[1].level, host.pulses[1].tdi)
                   ELSE SwdEdge(port, Line)
  BY <1>2 DEF Clock, Seen, Line
<1>4. Append(host.got, Seen) \in Seq(Levels)
  BY <1>1, Extended
<1>5. HostTyped'
  BY <1>1, <1>2, <1>3, <1>4 DEF HostTyped
<1>6. host'.pulses = Tail(host.pulses)
  BY <1>1, <1>3 DEF HostTyped
<1>7. HostClocked
  BY <1>1, <1>2, <1>3, <1>6 DEF HostTyped, HostClocked, Left
<1>8. QED
  BY <1>3, <1>5, <1>7

\* The pulse made is the one that f tells, and so are those left.
LEMMA PulsesFollow ==
    ASSUME NEW f, HostClocked, Making(f)
    PROVE  /\ host.pulses[1] = f[Left - 1] /\ Left - 1 \in Nat
           /\ \A k \in 1 .. Left' : host'.pulses[k] = f[Left' - k]
<1>1. Left \in Nat /\ Left >= 1 /\ Left' = Left - 1
  BY DEF HostClocked
<1>2. 1 \in 1 .. Left /\ \A k \in 1 .. Left' : k + 1 \in 1 .. Left /\ Left - (k + 1) = Left' - k
  BY <1>1
<1>3. \A k \in 1 .. Left' : host'.pulses[k] = host.pulses[k + 1]
  BY DEF HostClocked
<1>4. \A k \in 1 .. Left : host.pulses[k] = f[Left - k]
  BY DEF Making
<1>5. QED
  BY <1>1, <1>2, <1>3, <1>4

-----------------------------------------------------------------------------
(* Serial wire, stage by stage.                                            *)

\* A port that drives the line has bits left to show.
LEMMA SwSeen ==
    ASSUME HostTyped, SwInv
    PROVE  /\ port.kind = "sw" /\ Seen \in Levels
           /\ ~Drives(port) => Seen = 1
           /\ Drives(port) => Seen = port.shift[1] /\ port.shift # <<>>
<1>1. port.kind = "sw" /\ port.shift \in Seq(Levels)
  BY DEF SwInv, SwTyped, SwPorts
<1>2. ASSUME Drives(port) PROVE port.shift # <<>>
  <2>1. port.phase = "ack" \/ port.phase = "read"
    BY <1>2 DEF Drives
  <2>2. SwHeading \/ SwReading
    BY <2>1 DEF SwInv, SwSelecting, SwWriting, WritingPhase, SwResting
  <2>3. Left \in Nat /\ WordBits \in Nat
    BY WireAssumption DEF HostTyped, Left
  <2>4. Len(port.shift) > 0
    <3>1. CASE SwReading
      <4>1. Left >= 2 /\ port.phase = "read" /\ Len(port.shift) = Left - 1
        BY <2>1, <3>1 DEF SwReading, ReadingPhase
      <4>2. QED
        BY <2>3, <4>1
    <3>2. CASE SwHeading
      <4>1. CASE port.phase = "ack"
        BY <2>3, <3>2, <4>1 DEF SwHeading, HeadingPhase, Answered
      <4>2. CASE port.phase = "read"
        BY <2>3, <3>2, <4>2 DEF SwHeading, HeadingPhase, Answered
      <4>3. QED
        BY <2>1, <4>1, <4>2
    <3>3. QED
      BY <2>2, <3>1, <3>2
  <2>5. QED
    BY <2>4, <1>1
<1>3. QED
  BY <1>1, <1>2, Shifted, LevelFacts DEF Seen, OutBit

\* The port in another phase, and with other bits to shift.
LEMMA ToPhase ==
    ASSUME NEW p \in SwPorts, NEW phase \in Phases
    PROVE  /\ To(p, phase) \in SwPorts /\ To(p, phase).phase = phase
           /\ To(p, phase).shift = <<>> /\ Len(To(p, phase).shift) = 0
           /\ To(p, phase).header = p.header /\ To(p, phase).ack = p.ack
           /\ To(p, phase).shown = p.shown /\ To(p, phase).taken = p.taken
<1>1. <<>> \in Seq(Levels) /\ Len(<<>>) = 0
  OBVIOUS
<1>2. QED
  BY <1>1 DEF To, SwPorts

\* The port with another shift register.
LEMMA WithShift ==
    ASSUME NEW p \in SwPorts, NEW s \in Seq(Levels)
    PROVE  LET q == [p EXCEPT !.shift = s]
           IN  /\ q \in SwPorts /\ q.phase = p.phase /\ q.shift = s
               /\ q.header = p.header /\ q.ack = p.ack /\ q.shown = p.shown /\ q.taken = p.taken
BY DEF SwPorts

\* The line reset: the port leaves "lost" before its ones end, and is idle
\* after the first of the zeros.
LEMMA SelectingClock ==
    ASSUME HostTyped, SwTyped, SwSelecting, HostClocked, port' \in SwdEdge(port, Line)
    PROVE  SwTyped' /\ SwSelecting'
<1>1. Left \in Nat /\ ResetCycles \in Nat \ {0} /\ port.shift \in Seq(Levels) /\ Len(port.shift) \in Nat
  BY WireAssumption DEF HostClocked, SwTyped, SwPorts
<1>2. Line = IF Left - 1 >= 8 THEN 1 ELSE 0
  <2>1. host.pulses[1] = ResetPulses[Left - 1] /\ Left - 1 \in Nat
    BY PulsesFollow DEF SwSelecting
  <2>2. host.pulses[1] = Pulse(TRUE, IF Left - 1 >= 8 THEN 1 ELSE 0, 0, FALSE)
    BY <2>1 DEF ResetPulses
  <2>3. QED
    BY <2>2 DEF Line, Pulse
<1>3. Append(port.shift, Line) \in Seq(Levels) /\ Len(Append(port.shift, Line)) = Len(port.shift) + 1
      /\ <<>> \in Seq(Levels) /\ Len(<<>>) = 0
  BY <1>1, <1>2, Extended, LevelFacts
<1>4. /\ Left' \in Nat /\ Left' = Left - 1 /\ Left' <= ResetCycles + 8
      /\ host'.stage = "select" /\ Making(ResetPulses)'
  <2>1. Left <= ResetCycles + 8 /\ Making(ResetPulses) /\ host'.stage = "select"
    BY DEF SwSelecting, HostClocked
  <2>2. Making(ResetPulses)'
    BY <2>1, PulsesFollow DEF Making
  <2>3. Left' = Left - 1
    BY DEF HostClocked
  <2>4. Left' \in Nat /\ Left' <= ResetCycles + 8
    <3>1. Left <= ResetCycles + 8
      BY <2>1
    <3>2. Left \in Nat /\ Left >= 1 /\ ResetCycles \in Nat
      BY <1>1 DEF HostClocked
    <3>3. QED
      BY <2>3, <3>1, <3>2
  <2>5. QED
    BY <2>1, <2>2, <2>3, <2>4
<1>5. CASE port.phase = "reset"
  <2>1. port' = IF Line = 0 THEN To(port, "idle") ELSE port
    BY <1>5 DEF SwdEdge
  <2>2. CASE Line = 0
    <3>1. port' \in SwPorts /\ port'.phase = "idle"
      <4>1. port \in SwPorts /\ "idle" \in Phases /\ port' = To(port, "idle")
        BY <2>1, <2>2 DEF SwTyped, Phases
      <4>2. QED
        BY <4>1, ToPhase
    <3>2. Left' < 8
      BY <1>1, <1>2, <1>4, <2>2
    <3>3. QED
      BY <1>4, <3>1, <3>2 DEF SwTyped, SwSelecting
  <2>3. CASE Line # 0
    <3>1. port' \in SwPorts /\ port'.phase = "reset"
      BY <1>5, <2>1, <2>3 DEF SwTyped
    <3>2. Left' >= 8
      BY <1>1, <1>2, <1>4, <2>3
    <3>3. QED
      BY <1>4, <3>1, <3>2 DEF SwTyped, SwSelecting
  <2>4. QED
    BY <2>2, <2>3
<1>6. CASE port.phase = "lost"
  <2>1. port' = IF Line = 1 /\ Len(port.shift) + 1 < ResetCycles
                THEN [port EXCEPT !.shift = Append(port.shift, Line)]
                ELSE IF Line = 1 THEN To(port, "reset") ELSE To(port, "lost")
    BY <1>6 DEF SwdEdge
  <2>2. Left > 8 /\ Line = 1
        /\ Len(port.shift) < ResetCycles /\ Len(port.shift) + Left - 8 >= ResetCycles
    BY <1>1, <1>2, <1>6 DEF SwSelecting
  <2>3. CASE Len(port.shift) + 1 < ResetCycles
    <3>1. port' \in SwPorts /\ port'.phase = "lost" /\ Len(port'.shift) = Len(port.shift) + 1
      BY <1>3, <1>6, <2>1, <2>2, <2>3, WithShift DEF SwTyped
    <3>2. Left' > 8 /\ Len(port'.shift) < ResetCycles /\ Len(port'.shift) + Left' - 8 >= ResetCycles
      BY <1>1, <1>4, <2>2, <2>3, <3>1
    <3>3. QED
      BY <1>4, <3>1, <3>2 DEF SwTyped, SwSelecting
  <2>4. CASE Len(port.shift) + 1 >= ResetCycles
    <3>1. port' \in SwPorts /\ port'.phase = "reset"
      <4>1. port \in SwPorts /\ "reset" \in Phases /\ port' = To(port, "reset")
        BY <1>1, <2>1, <2>2, <2>4 DEF SwTyped, Phases
      <4>2. QED
        BY <4>1, ToPhase
    <3>2. Left' >= 8
      BY <1>1, <1>4, <2>2
    <3>3. QED
      BY <1>4, <3>1, <3>2 DEF SwTyped, SwSelecting
  <2>5. QED
    BY <1>1, <2>3, <2>4
<1>7. CASE port.phase = "idle"
  <2>1. port' = IF Line = 1 THEN [To(port, "header") EXCEPT !.shift = <<1>>] ELSE port
    BY <1>7 DEF SwdEdge
  <2>2. Line = 0 /\ Left < 8
    BY <1>1, <1>2, <1>7 DEF SwSelecting
  <2>3. Left' < 8
    BY <1>1, <1>4, <2>2
  <2>4. QED
    BY <1>4, <1>7, <2>1, <2>2, <2>3 DEF SwTyped, SwSelecting
<1>8. QED
  BY <1>5, <1>6, <1>7 DEF SwSelecting

\* The pulses of a header, told by those left.
LEMMA HeaderPulseOf ==
    ASSUME NEW a, NEW n \in Nat \ {0}
    PROVE  /\ n <= 4 => HeaderPulses(a)[n - 1] = Floating(TRUE)
           /\ n > 4 /\ n <= 12 => HeaderPulses(a)[n - 1] = Pulse(TRUE, SW_HEADER(a)[13 - n], 0, FALSE)
           /\ n > 12 => HeaderPulses(a)[n - 1] = Pulse(TRUE, 0, 0, FALSE)
           /\ n > 4 => HeaderPulses(a)[n - 1].keep = FALSE
<1> DEFINE m == n - 1
<1>1. m \in Nat /\ 12 - m = 13 - n /\ (n <= 4 <=> m <= 3) /\ (n <= 12 <=> m <= 11)
      /\ (n > 4 <=> ~(m <= 3)) /\ (n > 12 <=> ~(m <= 11))
  OBVIOUS
<1>2. HeaderPulses(a)[m] = IF m <= 3 THEN Floating(TRUE)
                           ELSE IF m <= 11 THEN Pulse(TRUE, SW_HEADER(a)[12 - m], 0, FALSE)
                           ELSE Pulse(TRUE, 0, 0, FALSE)
  <2> HIDE DEF m
  <2>1. QED
    BY <1>1 DEF HeaderPulses
<1>3. \A x, y, z : Pulse(x, y, z, FALSE).keep = FALSE
  BY DEF Pulse
<1> HIDE DEF m
<1>5. /\ n <= 4 => HeaderPulses(a)[m] = Floating(TRUE)
      /\ n > 4 /\ n <= 12 => HeaderPulses(a)[m] = Pulse(TRUE, SW_HEADER(a)[13 - n], 0, FALSE)
      /\ n > 12 => HeaderPulses(a)[m] = Pulse(TRUE, 0, 0, FALSE)
  <2>1. ASSUME n <= 4 PROVE HeaderPulses(a)[m] = Floating(TRUE)
    BY <1>1, <1>2, <2>1
  <2>2. ASSUME n > 12 PROVE HeaderPulses(a)[m] = Pulse(TRUE, 0, 0, FALSE)
    <3>1. ~(m <= 3) /\ ~(m <= 11)
      BY <1>1, <2>2
    <3>2. QED
      BY <1>2, <3>1
  <2>3. ASSUME n > 4, n <= 12
        PROVE  HeaderPulses(a)[m] = Pulse(TRUE, SW_HEADER(a)[13 - n], 0, FALSE)
    <3>1. ~(m <= 3) /\ m <= 11
      BY <1>1, <2>3
    <3>2. HeaderPulses(a)[m] = Pulse(TRUE, SW_HEADER(a)[12 - m], 0, FALSE)
      BY <1>2, <3>1
    <3>3. SW_HEADER(a)[12 - m] = SW_HEADER(a)[13 - n]
      BY <1>1
    <3>4. QED
      BY <3>2, <3>3
  <2>4. QED
    BY <2>1, <2>2, <2>3
<1>6. n > 4 => HeaderPulses(a)[m].keep = FALSE
  BY <1>1, <1>2, <1>3
<1>7. QED
  BY <1>5, <1>6 DEF m

\* The header: the port takes its eight bits, checks them and answers; the
\* tester collects the answer.
LEMMA HeadingClock ==
    ASSUME HostTyped, SwTyped, SwHeading, HostClocked, Seen \in Levels,
           Drives(port) => Seen = port.shift[1],
           port' \in SwdEdge(port, Line)
    PROVE  SwTyped' /\ SwHeading'
<1> DEFINE h == SW_HEADER(host.access)
<1>l. Left \in Nat /\ Left >= 1 /\ Left' = Left - 1
  BY DEF HostClocked
<1>1. /\ Left \in Nat /\ Left >= 1 /\ Left' = Left - 1 /\ Left <= 13 /\ Left' <= 13
      /\ host.access \in Accesses /\ host'.access = host.access /\ host'.stage = "header"
      /\ host.got \in Seq(Levels)
  BY DEF HostClocked, SwHeading, HostTyped
<1>2. port \in SwPorts /\ port.shift \in Seq(Levels) /\ Len(port.shift) \in Nat
  BY DEF SwTyped, SwPorts
<1>3. /\ host.pulses[1] = HeaderPulses(host.access)[Left - 1] /\ Left - 1 \in Nat
      /\ Making(HeaderPulses(host.access))'
  BY <1>1, PulsesFollow DEF SwHeading, Making
<1>4. /\ h \in Seq(Levels) /\ Len(h) = 8 /\ h[1] = 1 /\ h[3] = host.access.rnw /\ HeaderOK(h)
      /\ \A k \in 1 .. 8 : h[k] \in Levels
  BY <1>1, HeaderBits, ElementOfSeq
<1>5. SW_HEADER(host'.access) = h
  BY <1>1
<1> HIDE DEF h
<1>6. /\ Left <= 4 => host.pulses[1] = Floating(TRUE)
      /\ Left > 4 /\ Left <= 12 => host.pulses[1] = Pulse(TRUE, h[13 - Left], 0, FALSE)
      /\ Left > 12 => host.pulses[1] = Pulse(TRUE, 0, 0, FALSE)
      /\ Left > 4 => host.pulses[1].keep = FALSE
  <2>1. Left \in Nat \ {0}
    BY <1>l
  <2>2. QED
    BY <1>3, <2>1, HeaderPulseOf DEF h
<1>7. ASSUME Left > 4 PROVE host'.got = <<>>
  <2>1. host.got = <<>>
    BY <1>l, <1>7 DEF SwHeading
  <2>2. QED
    BY <1>6, <1>7, <2>1 DEF HostClocked
<1>a. /\ Left = 13 => Left' = 12
      /\ Left = 4 => Left <= 4 /\ Left >= 4 /\ Left' = 3
      /\ Left \in 5 .. 11 => Left > 4 /\ Left <= 12
  BY <1>l
<1>8. ASSUME Left <= 4
      PROVE  /\ host'.got = Append(host.got, Seen) /\ Line = Seen
             /\ Len(host'.got) = Len(host.got) + 1 /\ host'.got[Len(host.got) + 1] = Seen
             /\ \A k \in 1 .. Len(host.got) : host'.got[k] = host.got[k]
  <2>1. host'.got = Append(host.got, Seen) /\ Line = Seen
    BY <1>1, <1>6, <1>8 DEF HostClocked, Floating, Pulse, Line
  <2>2. QED
    BY <1>1, <2>1, Extended
<1> SUFFICES SwTyped' /\ HeadingPhase'
  <2>1. Left' >= 4 => host'.got = <<>>
    BY <1>1, <1>7
  <2>2. QED
    BY <1>1, <1>3, <2>1 DEF SwHeading
<1>9. CASE Left = 13 /\ port.phase = "turn to idle"
  <2>1. port' = To(port, "idle") /\ "idle" \in Phases
    BY <1>9 DEF SwdEdge, Phases
  <2>2. port' \in SwPorts /\ port'.phase = "idle"
    BY <1>2, <2>1, ToPhase
  <2>3. Left' = 12
    BY <1>9, <1>a
  <2>4. QED
    BY <2>2, <2>3 DEF SwTyped, HeadingPhase
<1>10. CASE Left = 12 /\ port.phase = "idle"
  <2>1. Line = 1
    BY <1>4, <1>6, <1>10 DEF Line, Pulse
  <2>2. port' = [To(port, "header") EXCEPT !.shift = <<1>>] /\ "header" \in Phases
    BY <1>10, <2>1 DEF SwdEdge, Phases
  <2>3. <<1>> \in Seq(Levels) /\ Len(<<1>>) = 1 /\ <<1>>[1] = 1
    BY LevelFacts
  <2>4. To(port, "header") \in SwPorts /\ To(port, "header").phase = "header"
    BY <1>2, <2>2, ToPhase
  <2>5. port' \in SwPorts /\ port'.phase = "header" /\ port'.shift = <<1>>
    BY <2>2, <2>3, <2>4, WithShift
  <2>6. Left' = 11 /\ Left' \in 5 .. 11 /\ Len(port'.shift) = 12 - Left'
    BY <1>1, <1>10, <2>3, <2>5
  <2>7. \A k \in 1 .. 12 - Left' : port'.shift[k] = SW_HEADER(host'.access)[k]
    BY <1>4, <1>5, <2>3, <2>5, <2>6
  <2>8. QED
    BY <2>5, <2>6, <2>7 DEF SwTyped, HeadingPhase
<1>11. CASE /\ Left \in 5 .. 11 /\ port.phase = "header" /\ Len(port.shift) = 12 - Left
            /\ \A k \in 1 .. 12 - Left : port.shift[k] = SW_HEADER(host.access)[k]
  <2> DEFINE in == Append(port.shift, Line)
  <2>1. Line = h[13 - Left] /\ Line \in Levels
    <3>1. host.pulses[1] = Pulse(TRUE, h[13 - Left], 0, FALSE)
      <4>1. Left > 4 /\ Left <= 12
        BY <1>11, <1>a
      <4>2. QED
        BY <1>6, <4>1
    <3>2. 13 - Left \in 1 .. 8
      BY <1>1, <1>11
    <3>3. QED
      BY <1>4, <3>1, <3>2 DEF Line, Pulse
  <2>2. /\ in \in Seq(Levels) /\ Len(in) = 13 - Left
        /\ \A k \in 1 .. 13 - Left : in[k] = h[k]
    BY <1>1, <1>2, <1>11, <2>1, Extended DEF h
  <2>3. port' = IF Len(in) < 8 THEN [port EXCEPT !.shift = in] ELSE AfterHeader(port, in)
    BY <1>11 DEF SwdEdge
  <2> HIDE DEF in
  <2>4. CASE Left > 5
    <3>1. port' = [port EXCEPT !.shift = in]
      BY <1>1, <1>11, <2>2, <2>3, <2>4
    <3>2. port' \in SwPorts /\ port'.phase = "header" /\ port'.shift = in
      BY <1>2, <1>11, <2>2, <3>1, WithShift
    <3>3. Left' \in 5 .. 11 /\ Len(port'.shift) = 12 - Left'
      BY <1>1, <1>11, <2>2, <2>4, <3>2
    <3>4. \A k \in 1 .. 12 - Left' : port'.shift[k] = SW_HEADER(host'.access)[k]
      BY <1>1, <1>5, <2>2, <3>2
    <3>5. QED
      BY <3>2, <3>3, <3>4 DEF SwTyped, HeadingPhase
  <2>5. CASE Left = 5
    <3>1. in = h
      <4>1. Len(in) = Len(h) /\ \A k \in 1 .. Len(in) : in[k] = h[k]
        BY <1>4, <2>2, <2>5
      <4>2. QED
        BY <1>4, <2>2, <4>1, SeqEqual
    <3>2. port' = [To(port, "turn to port") EXCEPT !.header = h]
      <4>1. port' = AfterHeader(port, h)
        <5>1. ~(Len(in) < 8)
          BY <2>2, <2>5
        <5>2. QED
          BY <2>3, <3>1, <5>1
      <4>2. QED
        BY <1>4, <4>1 DEF AfterHeader
    <3>3. To(port, "turn to port") \in SwPorts /\ To(port, "turn to port").phase = "turn to port"
      <4>1. "turn to port" \in Phases
        BY DEF Phases
      <4>2. QED
        BY <1>2, <4>1, ToPhase
    <3>4. port' \in SwPorts /\ port'.phase = "turn to port" /\ port'.header = h
      BY <1>4, <3>2, <3>3 DEF SwPorts
    <3>5. Left' = 4
      BY <1>1, <2>5
    <3>6. QED
      BY <1>5, <3>4, <3>5 DEF SwTyped, HeadingPhase
  <2>6. QED
    BY <1>1, <1>11, <2>4, <2>5
<1>12. CASE Left = 4 /\ port.phase = "turn to port" /\ port.header = SW_HEADER(host.access)
  <2>1. PICK ack \in Acks : port' = [port EXCEPT !.phase = "ack", !.shift = ack, !.ack = ack]
    BY <1>12 DEF SwdEdge
  <2>2. ack \in {SW_OK, SW_WAIT, SW_FAULT}
    BY DEF Acks
  <2>3. ack \in Seq(Levels) /\ Len(ack) = 3
    <3>1. /\ SW_OK \in Seq(Levels) /\ Len(SW_OK) = 3 /\ SW_WAIT \in Seq(Levels)
          /\ Len(SW_WAIT) = 3 /\ SW_FAULT \in Seq(Levels) /\ Len(SW_FAULT) = 3
      BY LevelFacts DEF SW_OK, SW_WAIT, SW_FAULT
    <3>2. QED
      BY <2>2, <3>1
  <2>4. /\ port' \in SwPorts /\ port'.phase = "ack" /\ port'.shift = ack /\ port'.ack = ack
        /\ port'.header = port.header
    BY <1>2, <2>1, <2>2, <2>3 DEF SwPorts, Phases
  <2>5. host.got = <<>>
    <3>1. Left >= 4
      BY <1>12, <1>a
    <3>2. QED
      BY <3>1 DEF SwHeading
  <2>6. Left' = 3 /\ Left' \in 1 .. 3 /\ Len(host'.got) = 4 - Left' /\ Len(port'.shift) = Left'
    <3>1. Left <= 4 /\ Left' = 3
      BY <1>12, <1>a
    <3>2. Len(host'.got) = 1
      BY <1>8, <2>5, <3>1
    <3>3. QED
      BY <2>3, <2>4, <3>1, <3>2
  <2>7. /\ \A k \in 1 .. Left' : port'.shift[k] = port'.ack[3 - Left' + k]
        /\ \A k \in 1 .. 3 - Left' : host'.got[k + 1] = port'.ack[k]
    BY <2>4, <2>6
  <2>8. QED
    BY <1>5, <1>12, <2>4, <2>6, <2>7 DEF SwTyped, HeadingPhase, h
<1>13. CASE /\ Left \in 1 .. 3 /\ port.phase = "ack" /\ port.header = SW_HEADER(host.access)
            /\ Len(port.shift) = Left /\ \A k \in 1 .. Left : port.shift[k] = port.ack[3 - Left + k]
            /\ Len(host.got) = 4 - Left
            /\ \A k \in 1 .. 3 - Left : host.got[k + 1] = port.ack[k]
  <2>1. Seen = port.ack[4 - Left]
    BY <1>1, <1>13 DEF Drives
  <2>2. /\ Len(host'.got) = 4 - Left'
        /\ \A k \in 1 .. 3 - Left' : host'.got[k + 1] = port.ack[k]
    <3>1. Len(host'.got) = 5 - Left /\ host'.got[5 - Left] = port.ack[4 - Left]
      BY <1>1, <1>8, <1>13, <2>1
    <3>2. \A k \in 1 .. 3 - Left : host'.got[k + 1] = port.ack[k]
      BY <1>1, <1>8, <1>13
    <3>3. QED
      <4>1. /\ 4 - Left' = 5 - Left
            /\ \A k \in 1 .. 3 - Left' : k \in 1 .. 3 - Left \/ (k = 4 - Left /\ k + 1 = 5 - Left)
        BY <1>l, <1>13
      <4>2. QED
        BY <3>1, <3>2, <4>1
  <2>3. port' \in IF Len(port.shift) > 1 THEN {[port EXCEPT !.shift = Tail(port.shift)]}
                  ELSE IF port.ack = SW_OK /\ port.header[3] = 1
                  THEN {[port EXCEPT !.phase = "read", !.shift = Append(w, Parity(w)), !.shown = w] :
                            w \in Words}
                  ELSE {To(port, IF port.ack = SW_OK THEN "turn to write" ELSE "turn to idle")}
    BY <1>13 DEF SwdEdge
  <2>4. CASE Left > 1
    <3>1. Tail(port.shift) \in Seq(Levels) /\ Len(Tail(port.shift)) = Left - 1
          /\ \A k \in 1 .. Left - 1 : Tail(port.shift)[k] = port.shift[k + 1]
      BY <1>1, <1>2, <1>13, Shifted
    <3>2. port' = [port EXCEPT !.shift = Tail(port.shift)]
      BY <1>1, <1>13, <2>3, <2>4
    <3>3. /\ port' \in SwPorts /\ port'.phase = "ack" /\ port'.shift = Tail(port.shift)
          /\ port'.header = port.header /\ port'.ack = port.ack
      BY <1>2, <1>13, <3>1, <3>2, WithShift
    <3>4. Left' \in 1 .. 3 /\ Len(port'.shift) = Left'
      BY <1>1, <1>13, <2>4, <3>1, <3>3
    <3>5. \A k \in 1 .. Left' : port'.shift[k] = port'.ack[3 - Left' + k]
      BY <1>1, <1>13, <3>1, <3>3
    <3>6. QED
      BY <1>5, <1>13, <2>2, <3>3, <3>4, <3>5 DEF SwTyped, HeadingPhase, h
  <2>5. CASE Left = 1
    <3>1. Left' = 0 /\ port.header[3] = host.access.rnw /\ Len(host'.got) = 4
          /\ \A k \in 1 .. 3 : host'.got[k + 1] = port.ack[k]
      BY <1>1, <1>4, <1>13, <2>2, <2>5 DEF h
    <3>2. ~(Len(port.shift) > 1)
      BY <1>13, <2>5
    <3>3. CASE port.ack = SW_OK /\ host.access.rnw = 1
      <4>1. PICK w \in Words : port' = [port EXCEPT !.phase = "read", !.shift = Append(w, Parity(w)),
                                                    !.shown = w]
        BY <2>3, <3>1, <3>2, <3>3
      <4>2. /\ w \in Seq(Levels) /\ Len(w) = WordBits /\ Parity(w) \in Levels
        BY WordBitsOf, LevelFacts
      <4> DEFINE sh == Append(w, Parity(w))
      <4>3. /\ sh \in Seq(Levels) /\ Len(sh) = WordBits + 1
            /\ \A k \in 1 .. WordBits : sh[k] = w[k]
        BY <4>2, Extended
      <4>4. port' = [port EXCEPT !.phase = "read", !.shift = sh, !.shown = w]
        BY <4>1
      <4> HIDE DEF sh
      <4>5. /\ port' \in SwPorts /\ port'.phase = "read" /\ port'.shift = sh
            /\ port'.shown = w /\ port'.ack = port.ack
        BY <1>2, <4>2, <4>3, <4>4 DEF SwPorts, Phases
      <4>6. Answered'
        BY <1>1, <3>3, <4>2, <4>3, <4>5 DEF Answered
      <4>7. QED
        BY <3>1, <4>5, <4>6 DEF SwTyped, HeadingPhase
    <3>4. CASE ~(port.ack = SW_OK /\ host.access.rnw = 1)
      <4> DEFINE next == IF port.ack = SW_OK THEN "turn to write" ELSE "turn to idle"
      <4>1. port' = To(port, next)
        BY <2>3, <3>1, <3>2, <3>4
      <4>2. next \in Phases
        BY DEF Phases
      <4>3. port' \in SwPorts /\ port'.phase = next /\ port'.ack = port.ack
        BY <1>2, <4>1, <4>2, ToPhase
      <4>4. host.access.rnw \in {0, 1}
        BY <1>1 DEF Accesses
      <4>5. Answered'
        BY <1>1, <3>4, <4>3, <4>4 DEF Answered
      <4>6. QED
        BY <3>1, <4>3, <4>5 DEF SwTyped, HeadingPhase
    <3>5. QED
      BY <3>3, <3>4
  <2>6. QED
    BY <1>1, <1>13, <2>4, <2>5
<1>14. QED
  <2>1. Left # 0
    BY <1>1
  <2>2. HeadingPhase
    BY DEF SwHeading
  <2>3. QED
    BY <1>9, <1>10, <1>11, <1>12, <1>13, <2>1, <2>2 DEF HeadingPhase

\* Reading: what the tester keeps is what the port shows, bit by bit, then a
\* parity bit and a turnaround.
LEMMA ReadingClock ==
    ASSUME HostTyped, SwTyped, SwReading, HostClocked, Seen \in Levels,
           Drives(port) => Seen = port.shift[1],
           port' \in SwdEdge(port, Line)
    PROVE  SwTyped' /\ SwReading'
<1>1. Left \in Nat /\ Left >= 1 /\ Left' = Left - 1
  BY DEF HostClocked
<1>2. WordBits \in Nat \ {0}
  BY WireAssumption
<1>3. /\ Left <= WordBits + 2 /\ host.got \in Seq(Levels) /\ Len(host.got) = WordBits + 2 - Left
      /\ Len(port.shown) = WordBits
      /\ \A k \in 1 .. WordBits : k <= Len(host.got) => host.got[k] = port.shown[k]
  BY DEF HostClocked, SwReading
<1>4. port \in SwPorts /\ port.shift \in Seq(Levels) /\ Len(port.shift) \in Nat
  BY DEF SwTyped, SwPorts
<1>5. host.pulses[1] = Floating(TRUE) /\ Making(ReadPulses)'
  <2>1. host.pulses[1] = ReadPulses[Left - 1] /\ Left - 1 \in Nat /\ Making(ReadPulses)'
    BY PulsesFollow DEF SwReading, Making
  <2>2. QED
    BY <2>1 DEF ReadPulses
<1>6. host'.got = Append(host.got, Seen)
  BY <1>5 DEF HostClocked, Floating, Pulse
<1>7. /\ Len(host'.got) = WordBits + 2 - Left' /\ host'.got[WordBits + 3 - Left] = Seen
      /\ \A k \in 1 .. WordBits + 2 - Left : host'.got[k] = host.got[k]
  <2>1. /\ Len(host'.got) = Len(host.got) + 1 /\ host'.got[Len(host.got) + 1] = Seen
        /\ \A k \in 1 .. Len(host.got) : host'.got[k] = host.got[k]
    BY <1>3, <1>6, Extended
  <2>2. /\ Len(host.got) = WordBits + 2 - Left /\ Len(host.got) + 1 = WordBits + 3 - Left
        /\ WordBits + 2 - Left' = WordBits + 3 - Left
    BY <1>1, <1>2, <1>3
  <2>3. QED
    BY <2>1, <2>2
<1>8. /\ Left = 1 => Left' = 0 /\ ~(Left >= 3)
      /\ Left = 2 => Left' = 1 /\ ~(Left >= 3) /\ ~(Left - 1 > 1)
      /\ Left >= 3 => Left' >= 2 /\ Left - 1 > 1
      /\ Left' <= WordBits + 2
  BY <1>1, <1>2, <1>3
<1>9. ASSUME port'.shown = port.shown, Left >= 3 => Seen = port.shown[WordBits + 3 - Left],
             port' \in SwPorts, ReadingPhase'
      PROVE  SwTyped' /\ SwReading'
  <2>1. \A k \in 1 .. WordBits : k <= Len(host'.got) => host'.got[k] = port.shown[k]
    <3> SUFFICES ASSUME NEW k \in 1 .. WordBits, k <= Len(host'.got)
                 PROVE  host'.got[k] = port.shown[k]
      OBVIOUS
    <3>1. k <= WordBits + 2 - Left \/ (k = WordBits + 3 - Left /\ Left >= 3)
      BY <1>1, <1>2, <1>3, <1>7
    <3>2. QED
      BY <1>1, <1>2, <1>3, <1>7, <1>9, <3>1
  <2>2. host'.stage = "data" /\ host'.access.rnw = 1
    BY DEF HostClocked, SwReading
  <2>3. QED
    BY <1>3, <1>5, <1>7, <1>8, <1>9, <2>1, <2>2 DEF SwTyped, SwReading
<1>10. CASE /\ Left >= 2 /\ port.phase = "read" /\ Len(port.shift) = Left - 1
            /\ \A k \in 1 .. Left - 2 : port.shift[k] = port.shown[WordBits + 2 - Left + k]
  <2>1. Seen = port.shift[1]
    BY <1>10 DEF Drives
  <2>2. port' = IF Len(port.shift) > 1 THEN [port EXCEPT !.shift = Tail(port.shift)]
                ELSE To(port, "turn to idle")
    BY <1>10 DEF SwdEdge
  <2>3. CASE Left >= 3
    <3>1. Tail(port.shift) \in Seq(Levels) /\ Len(Tail(port.shift)) = Left - 2
          /\ \A k \in 1 .. Left - 2 : Tail(port.shift)[k] = port.shift[k + 1]
      BY <1>1, <1>4, <1>10, <2>3, Shifted
    <3>2. port' = [port EXCEPT !.shift = Tail(port.shift)]
      BY <1>8, <1>10, <2>2, <2>3
    <3>3. /\ port' \in SwPorts /\ port'.phase = "read" /\ port'.shift = Tail(port.shift)
          /\ port'.shown = port.shown
      BY <1>4, <1>10, <3>1, <3>2, WithShift
    <3>4. Seen = port.shown[WordBits + 3 - Left]
      <4>1. 1 \in 1 .. Left - 2 /\ WordBits + 2 - Left + 1 = WordBits + 3 - Left
        BY <1>1, <1>2, <2>3
      <4>2. QED
        BY <1>10, <2>1, <4>1
    <3>5. /\ Left' >= 2 /\ Len(port'.shift) = Left' - 1
          /\ \A k \in 1 .. Left' - 2 : port'.shift[k] = port'.shown[WordBits + 2 - Left' + k]
      <4>1. Left' >= 2 /\ Len(port'.shift) = Left' - 1
        BY <1>1, <1>8, <2>3, <3>1, <3>3
      <4>2. \A k \in 1 .. Left' - 2 : /\ k \in 1 .. Left - 2 /\ k + 1 \in 1 .. Left - 2
                                      /\ WordBits + 2 - Left + (k + 1) = WordBits + 2 - Left' + k
        BY <1>1, <1>2
      <4>3. QED
        BY <1>10, <3>1, <3>3, <4>1, <4>2
    <3>6. ReadingPhase'
      BY <3>3, <3>5 DEF ReadingPhase
    <3>7. QED
      BY <1>9, <3>3, <3>4, <3>6
  <2>4. CASE Left = 2
    <3>1. port' = To(port, "turn to idle")
      BY <1>8, <1>10, <2>2, <2>4
    <3>2. "turn to idle" \in Phases
      BY DEF Phases
    <3>3. port' \in SwPorts /\ port'.phase = "turn to idle" /\ port'.shown = port.shown
      BY <1>4, <3>1, <3>2, ToPhase
    <3>4. ReadingPhase'
      BY <1>8, <2>4, <3>3 DEF ReadingPhase
    <3>5. QED
      BY <1>8, <1>9, <2>4, <3>3, <3>4
  <2>5. QED
    BY <1>1, <1>10, <2>3, <2>4
<1>11. CASE Left = 1 /\ port.phase = "turn to idle"
  <2>1. port' = To(port, "idle") /\ "idle" \in Phases
    BY <1>11 DEF SwdEdge, Phases
  <2>2. port' \in SwPorts /\ port'.phase = "idle" /\ port'.shown = port.shown
    BY <1>4, <2>1, ToPhase
  <2>3. ReadingPhase'
    BY <1>8, <1>11, <2>2 DEF ReadingPhase
  <2>4. QED
    BY <1>8, <1>9, <1>11, <2>2, <2>3
<1>12. QED
  <2>1. Left # 0
    BY <1>1
  <2>2. QED
    BY <1>10, <1>11, <2>1 DEF SwReading, ReadingPhase

\* Writing: the port takes the tester's bits, and the word with the right
\* parity bit.
LEMMA WritingClock ==
    ASSUME HostTyped, SwTyped, SwWriting, HostClocked, port' \in SwdEdge(port, Line)
    PROVE  SwTyped' /\ SwWriting'
<1> DEFINE data == host.access.data
<1>1. Left \in Nat /\ Left >= 1 /\ Left' = Left - 1
  BY DEF HostClocked
<1>2. WordBits \in Nat \ {0}
  BY WireAssumption
<1>3. /\ Left <= WordBits + 2 /\ Left' <= WordBits + 2 /\ host.stage = "data" /\ host.access.rnw = 0
      /\ host'.stage = "data" /\ host'.access = host.access
  BY <1>1, <1>2 DEF HostClocked, SwWriting
<1>4. port \in SwPorts /\ port.shift \in Seq(Levels) /\ Len(port.shift) \in Nat
  BY DEF SwTyped, SwPorts
<1>5. data \in Words
  BY DEF HostTyped, Accesses
<1>6. /\ data \in Seq(Levels) /\ Len(data) = WordBits /\ Parity(data) \in Levels
      /\ \A k \in 1 .. WordBits : data[k] \in Levels
  BY <1>5, WordBitsOf, LevelFacts
<1>7. /\ host.pulses[1] = WritePulses(data)[Left - 1] /\ Left - 1 \in Nat
      /\ Making(WritePulses(host.access.data))'
  BY <1>3, PulsesFollow DEF SwWriting, Making
<1>8. host'.access.data = data
  BY <1>3
<1> HIDE DEF data
<1>9. /\ Left = 1 => host.pulses[1] = Pulse(TRUE, Parity(data), 0, FALSE)
      /\ Left \in 2 .. WordBits + 1 => host.pulses[1] = Pulse(TRUE, data[WordBits + 2 - Left], 0, FALSE)
  <2> DEFINE m == Left - 1
  <2>1. /\ m \in Nat /\ (Left = 1 => m = 0) /\ WordBits + 1 - m = WordBits + 2 - Left
        /\ (Left \in 2 .. WordBits + 1 => m # 0 /\ m <= WordBits)
    BY <1>1, <1>2
  <2> HIDE DEF m
  <2>2. WritePulses(data)[m] = IF m = 0 THEN Pulse(TRUE, Parity(data), 0, FALSE)
                               ELSE IF m <= WordBits
                               THEN Pulse(TRUE, data[WordBits + 1 - m], 0, FALSE)
                               ELSE Floating(FALSE)
    BY <2>1 DEF WritePulses
  <2>3. host.pulses[1] = WritePulses(data)[m]
    BY <1>7 DEF m
  <2>4. Left = 1 => host.pulses[1] = Pulse(TRUE, Parity(data), 0, FALSE)
    BY <2>1, <2>2, <2>3
  <2>5. Left \in 2 .. WordBits + 1 => host.pulses[1] = Pulse(TRUE, data[WordBits + 1 - m], 0, FALSE)
    BY <2>1, <2>2, <2>3
  <2>6. data[WordBits + 1 - m] = data[WordBits + 2 - Left]
    BY <2>1
  <2>7. QED
    BY <2>4, <2>5, <2>6
<1>10. /\ Left = 1 => Line = Parity(data)
       /\ Left \in 2 .. WordBits + 1 => Line = data[WordBits + 2 - Left]
  BY <1>9 DEF Line, Pulse
<1>11. /\ Left = WordBits + 2 => Left' \in 1 .. WordBits + 1 /\ WordBits + 1 - Left' = 0
       /\ Left = 1 => Left' = 0
       /\ Left \in 2 .. WordBits + 1 => Left' \in 1 .. WordBits + 1
  BY <1>1, <1>2
<1> SUFFICES SwTyped' /\ WritingPhase'
  BY <1>3, <1>7 DEF SwWriting
<1>12. CASE Left = WordBits + 2 /\ port.phase = "turn to write"
  <2>1. port' = To(port, "write") /\ "write" \in Phases
    BY <1>12 DEF SwdEdge, Phases
  <2>2. port' \in SwPorts /\ port'.phase = "write" /\ Len(port'.shift) = 0
    BY <1>4, <2>1, ToPhase
  <2>3. Left' \in 1 .. WordBits + 1 /\ WordBits + 1 - Left' = 0
    BY <1>11, <1>12
  <2>4. \A k \in 1 .. WordBits + 1 - Left' : port'.shift[k] = host'.access.data[k]
    BY <2>3
  <2>5. QED
    BY <2>2, <2>3, <2>4 DEF SwTyped, WritingPhase
<1>13. CASE /\ Left \in 1 .. WordBits + 1 /\ port.phase = "write"
            /\ Len(port.shift) = WordBits + 1 - Left
            /\ \A k \in 1 .. WordBits + 1 - Left : port.shift[k] = host.access.data[k]
  <2> DEFINE in == Append(port.shift, Line)
  <2>1. port' = IF Len(in) <= WordBits THEN [port EXCEPT !.shift = in]
                ELSE IF Line = Parity(port.shift)
                THEN [To(port, "idle") EXCEPT !.taken = port.shift] ELSE To(port, "lost")
    BY <1>13 DEF SwdEdge
  <2>2. Line \in Levels
    <3>1. Left = 1 \/ (Left \in 2 .. WordBits + 1 /\ WordBits + 2 - Left \in 1 .. WordBits)
      BY <1>1, <1>2, <1>13
    <3>2. QED
      BY <1>6, <1>10, <3>1
  <2>3. /\ in \in Seq(Levels) /\ Len(in) = WordBits + 2 - Left
        /\ in[WordBits + 2 - Left] = Line
        /\ \A k \in 1 .. WordBits + 1 - Left : in[k] = data[k]
    BY <1>1, <1>2, <1>4, <1>13, <2>2, Extended DEF data
  <2> HIDE DEF in
  <2>4. CASE Left \in 2 .. WordBits + 1
    <3>1. Len(in) <= WordBits
      BY <1>2, <2>3, <2>4
    <3>2. port' \in SwPorts /\ port'.phase = "write" /\ port'.shift = in
      BY <1>4, <1>13, <2>1, <2>3, <3>1, WithShift
    <3>3. Left' \in 1 .. WordBits + 1 /\ Len(port'.shift) = WordBits + 1 - Left'
      BY <1>1, <1>2, <2>3, <2>4, <3>2
    <3>4. \A k \in 1 .. WordBits + 1 - Left' : port'.shift[k] = data[k]
      <4>1. \A k \in 1 .. WordBits + 1 - Left' :
                k \in 1 .. WordBits + 1 - Left \/ k = WordBits + 2 - Left
        BY <1>1, <1>2
      <4>2. QED
        BY <1>10, <2>3, <2>4, <3>2, <4>1
    <3>5. QED
      BY <1>8, <3>2, <3>3, <3>4 DEF SwTyped, WritingPhase
  <2>5. CASE Left = 1
    <3>1. port.shift = data
      <4>1. Len(port.shift) = Len(data) /\ \A k \in 1 .. Len(data) : port.shift[k] = data[k]
        BY <1>2, <1>6, <1>13, <2>5 DEF data
      <4>2. QED
        BY <1>4, <1>6, <4>1, SeqEqual
    <3>2. ~(Len(in) <= WordBits)
      BY <1>2, <2>3, <2>5
    <3>3. port' = [To(port, "idle") EXCEPT !.taken = data] /\ "idle" \in Phases
      BY <1>10, <2>1, <2>5, <3>1, <3>2 DEF Phases
    <3>4. To(port, "idle") \in SwPorts /\ To(port, "idle").phase = "idle"
      BY <1>4, <3>3, ToPhase
    <3>5. port' \in SwPorts /\ port'.phase = "idle" /\ port'.taken = data
      BY <1>6, <3>3, <3>4 DEF SwPorts
    <3>6. QED
      BY <1>8, <1>11, <2>5, <3>5 DEF SwTyped, WritingPhase
  <2>6. QED
    BY <1>1, <1>2, <1>13, <2>4, <2>5
<1>14. QED
  <2>1. Left # 0
    BY <1>1
  <2>2. QED
    BY <1>12, <1>13, <2>1 DEF SwWriting, WritingPhase

\* A refused access: one turnaround.
LEMMA RestingClock ==
    ASSUME SwTyped, SwResting, HostClocked, port' \in SwdEdge(port, Line)
    PROVE  SwTyped' /\ SwResting'
<1>1. Left \in Nat /\ Left >= 1 /\ Left' = Left - 1
  BY DEF HostClocked
<1>2. host.stage = "refused" /\ Left <= 1 /\ Making(IdlePulses)
  <2>1. Left # 0
    BY <1>1
  <2>2. QED
    BY <2>1 DEF SwResting
<1>3. Left = 1 /\ Left' = 0
  BY <1>1, <1>2
<1>4. port.phase = "turn to idle"
  BY <1>2, <1>3 DEF SwResting
<1>5. port' = To(port, "idle") /\ "idle" \in Phases
  BY <1>4 DEF SwdEdge, Phases
<1>6. port' \in SwPorts /\ port'.phase = "idle"
  BY <1>5, ToPhase DEF SwTyped
<1>7. Making(IdlePulses)' /\ host'.stage = "refused"
  BY <1>2, PulsesFollow DEF Making, HostClocked
<1>8. QED
  <2>1. Left' <= 1 /\ Left' # 1
    BY <1>3
  <2>2. QED
    BY <1>6, <1>7, <2>1 DEF SwTyped, SwResting

-----------------------------------------------------------------------------
(* JTAG.                                                                   *)

\* The table of the TAP, an entry each.
LEMMA TapTable ==
    /\ DOMAIN Tap = TapStates
    /\ Tap["TestLogicReset"] = <<"RunTest", "TestLogicReset">>
    /\ Tap["RunTest"] = <<"RunTest", "SelectDR">>
    /\ Tap["SelectDR"] = <<"CaptureDR", "SelectIR">>
    /\ Tap["CaptureDR"] = <<"ShiftDR", "Exit1DR">>
    /\ Tap["ShiftDR"] = <<"ShiftDR", "Exit1DR">>
    /\ Tap["Exit1DR"] = <<"PauseDR", "UpdateDR">>
    /\ Tap["PauseDR"] = <<"PauseDR", "Exit2DR">>
    /\ Tap["Exit2DR"] = <<"ShiftDR", "UpdateDR">>
    /\ Tap["UpdateDR"] = <<"RunTest", "SelectDR">>
    /\ Tap["SelectIR"] = <<"CaptureIR", "TestLogicReset">>
    /\ Tap["CaptureIR"] = <<"ShiftIR", "Exit1IR">>
    /\ Tap["ShiftIR"] = <<"ShiftIR", "Exit1IR">>
    /\ Tap["Exit1IR"] = <<"PauseIR", "UpdateIR">>
    /\ Tap["PauseIR"] = <<"PauseIR", "Exit2IR">>
    /\ Tap["Exit2IR"] = <<"ShiftIR", "UpdateIR">>
    /\ Tap["UpdateIR"] = <<"RunTest", "SelectDR">>
BY DEF Tap, TapStates

\* The TAP stays among its states.
LEMMA TapMoves ==
    \A s \in TapStates, tms \in {0, 1} : Tap[s][tms + 1] \in TapStates
BY TapTable DEF TapStates

\* One clock with TMS high leaves one clock fewer to the reset.
LEMMA ResetMoves ==
    /\ \A s \in ResetIn(5) : Tap[s][2] \in ResetIn(4)
    /\ \A s \in ResetIn(4) : Tap[s][2] \in ResetIn(3)
    /\ \A s \in ResetIn(3) : Tap[s][2] \in ResetIn(2)
    /\ \A s \in ResetIn(2) : Tap[s][2] \in ResetIn(1)
    /\ \A s \in ResetIn(1) : Tap[s][2] \in ResetIn(0)
    /\ \A s \in ResetIn(0) : Tap[s][1] = "RunTest"
<1>1. ResetIn(5) = TapStates
  BY DEF ResetIn
<1>2. ResetIn(4) = {"TestLogicReset", "SelectIR", "SelectDR", "RunTest", "UpdateDR", "UpdateIR",
                    "Exit1DR", "Exit2DR", "Exit1IR", "Exit2IR"}
  BY DEF ResetIn
<1>3. ResetIn(3) = {"TestLogicReset", "SelectIR", "SelectDR", "RunTest", "UpdateDR", "UpdateIR"}
  BY DEF ResetIn
<1>4. /\ ResetIn(2) = {"TestLogicReset", "SelectIR", "SelectDR"}
      /\ ResetIn(1) = {"TestLogicReset", "SelectIR"} /\ ResetIn(0) = {"TestLogicReset"}
  BY DEF ResetIn
<1>5. \A s \in ResetIn(5) : Tap[s][2] \in ResetIn(4)
  BY <1>1, <1>2, TapTable DEF TapStates
<1>6. \A s \in ResetIn(4) : Tap[s][2] \in ResetIn(3)
  BY <1>2, <1>3, TapTable
<1>7. \A s \in ResetIn(3) : Tap[s][2] \in ResetIn(2)
  BY <1>3, <1>4, TapTable
<1>8. QED
  BY <1>4, <1>5, <1>6, <1>7, TapTable

\* What the data register captures.
LEMMA CapturesTyped ==
    ASSUME NEW p, NEW v \in Captures(p), waits \in Nat
    PROVE  /\ v \in Seq(Levels)
           /\ p.ir = JTAG_IDCODE => v = IdCode /\ Len(v) = 3
           /\ p.ir # JTAG_IDCODE => Len(v) = WordBits + 3
<1>1. IdCode \in Seq(Levels) /\ Len(IdCode) = 3
  BY LevelFacts DEF IdCode
<1>2. CASE p.ir = JTAG_IDCODE
  BY <1>1, <1>2 DEF Captures
<1>3. CASE p.ir # JTAG_IDCODE
  <2>1. PICK ack \in {JTAG_OKFAULT, JTAG_WAIT}, word \in Words : v = ack \o word
    <3>1. v \in {ack \o word : ack \in {JTAG_OKFAULT} \cup
                                      (IF waits < MaxWaits THEN {JTAG_WAIT} ELSE {}),
                              word \in Words}
      BY <1>3 DEF Captures
    <3>2. PICK ack \in {JTAG_OKFAULT} \cup (IF waits < MaxWaits THEN {JTAG_WAIT} ELSE {}),
               word \in Words : v = ack \o word
      BY <3>1
    <3>3. ack \in {JTAG_OKFAULT, JTAG_WAIT}
      OBVIOUS
    <3>4. QED
      BY <3>2, <3>3
  <2>2. ack \in Seq(Levels) /\ Len(ack) = 3
    <3>1. JTAG_OKFAULT \in Seq(Levels) /\ Len(JTAG_OKFAULT) = 3
      BY LevelFacts DEF JTAG_OKFAULT
    <3>2. JTAG_WAIT \in Seq(Levels) /\ Len(JTAG_WAIT) = 3
      BY LevelFacts DEF JTAG_WAIT
    <3>3. QED
      BY <3>1, <3>2
  <2>3. word \in Seq(Levels) /\ Len(word) = WordBits
    BY WordBitsOf
  <2>4. v \in Seq(Levels) /\ Len(v) = 3 + WordBits
    <3>1. ack \o word \in Seq(Levels) /\ Len(ack \o word) = Len(ack) + Len(word)
      BY <2>2, <2>3, Joined
    <3>2. QED
      BY <2>1, <2>2, <2>3, <3>1
  <2>5. 3 + WordBits = WordBits + 3
    BY WireAssumption
  <2>6. QED
    BY <1>3, <2>4, <2>5
<1>4. QED
  BY <1>2, <1>3

\* A clock edge, from each state.
LEMMA TapMoved ==
    ASSUME NEW p \in JtagPorts, NEW tms \in {0, 1}, NEW tdi \in Levels,
           NEW q \in TapEdge(p, tms, tdi), waits \in Nat,
           p.state \in {"ShiftDR", "ShiftIR"} => p.shift # <<>>
    PROVE  /\ q \in JtagPorts /\ q.state = Tap[p.state][tms + 1]
           /\ p.state \notin {"UpdateIR", "TestLogicReset"} => q.ir = p.ir
           /\ p.state = "CaptureDR" => q.shift \in Captures(p) /\ q.shown = q.shift
           /\ p.state # "CaptureDR" => q.shown = p.shown
           /\ p.state = "CaptureIR" => q.shift = <<1, 0, 0, 0>>
           /\ p.state \in {"ShiftDR", "ShiftIR"} => q.shift = Append(Tail(p.shift), tdi)
           /\ p.state \in {"RunTest", "SelectDR", "SelectIR", "Exit1DR", "Exit1IR"} => q.shift = p.shift
           /\ p.state = "UpdateDR" => q.taken = p.shift
           /\ p.state = "UpdateIR" => q.ir = p.shift
<1> DEFINE moved == [p EXCEPT !.state = Tap[p.state][tms + 1]]
<1>1. /\ moved \in JtagPorts /\ moved.state = Tap[p.state][tms + 1] /\ moved.ir = p.ir
      /\ moved.shift = p.shift /\ moved.shown = p.shown /\ moved.taken = p.taken
  <2>1. p.state \in TapStates
    BY DEF JtagPorts
  <2>2. Tap[p.state][tms + 1] \in TapStates
    BY <2>1, TapMoves
  <2>3. QED
    BY <2>2 DEF JtagPorts
<1>2. q \in IF p.state = "CaptureDR"
            THEN {[moved EXCEPT !.shift = v, !.shown = v] : v \in Captures(p)}
            ELSE IF p.state = "CaptureIR" THEN {[moved EXCEPT !.shift = <<1, 0, 0, 0>>]}
            ELSE IF p.state \in {"ShiftDR", "ShiftIR"}
            THEN {[moved EXCEPT !.shift = Append(Tail(p.shift), tdi)]}
            ELSE IF p.state = "UpdateDR" THEN {[moved EXCEPT !.taken = p.shift, !.shift = <<>>]}
            ELSE IF p.state = "UpdateIR" THEN {[moved EXCEPT !.ir = p.shift, !.shift = <<>>]}
            ELSE IF p.state = "TestLogicReset"
            THEN {[moved EXCEPT !.ir = JTAG_IDCODE, !.shift = <<>>]}
            ELSE {moved}
  BY <1>1 DEF TapEdge
<1> HIDE DEF moved
<1>3. p.shift \in Seq(Levels) /\ <<>> \in Seq(Levels)
  BY DEF JtagPorts
<1>4. JTAG_IDCODE \in Seq(Levels) /\ <<1, 0, 0, 0>> \in Seq(Levels)
  BY LevelFacts DEF JTAG_IDCODE
<1>5. CASE p.state = "CaptureDR"
  <2>1. PICK v \in Captures(p) : q = [moved EXCEPT !.shift = v, !.shown = v]
    BY <1>2, <1>5
  <2>2. v \in Seq(Levels)
    BY CapturesTyped
  <2>3. QED
    BY <1>1, <1>5, <2>1, <2>2 DEF JtagPorts
<1>6. CASE p.state = "CaptureIR"
  <2>1. q = [moved EXCEPT !.shift = <<1, 0, 0, 0>>]
    BY <1>2, <1>6
  <2>2. QED
    BY <1>1, <1>4, <1>6, <2>1 DEF JtagPorts
<1>7. CASE p.state \in {"ShiftDR", "ShiftIR"}
  <2> DEFINE s == Append(Tail(p.shift), tdi)
  <2>1. q = [moved EXCEPT !.shift = s]
    BY <1>2, <1>7
  <2>2. s \in Seq(Levels)
    BY <1>3, <1>7, Shifted, Extended
  <2> HIDE DEF s
  <2>3. /\ q \in JtagPorts /\ q.state = moved.state /\ q.ir = moved.ir /\ q.shown = moved.shown
        /\ q.shift = s
    BY <1>1, <2>1, <2>2 DEF JtagPorts
  <2>4. QED
    BY <1>1, <1>7, <2>3 DEF s
<1>8. CASE p.state = "UpdateDR"
  <2>1. q = [moved EXCEPT !.taken = p.shift, !.shift = <<>>]
    BY <1>2, <1>8
  <2>2. QED
    BY <1>1, <1>3, <1>8, <2>1 DEF JtagPorts
<1>9. CASE p.state = "UpdateIR"
  <2>1. q = [moved EXCEPT !.ir = p.shift, !.shift = <<>>]
    BY <1>2, <1>9
  <2>2. QED
    BY <1>1, <1>3, <1>9, <2>1 DEF JtagPorts
<1>10. CASE p.state = "TestLogicReset"
  <2>1. q = [moved EXCEPT !.ir = JTAG_IDCODE, !.shift = <<>>]
    BY <1>2, <1>10
  <2>2. QED
    BY <1>1, <1>3, <1>4, <1>10, <2>1 DEF JtagPorts
<1>11. CASE p.state \notin {"CaptureDR", "CaptureIR", "ShiftDR", "ShiftIR", "UpdateDR", "UpdateIR",
                            "TestLogicReset"}
  <2>1. q = moved
    BY <1>2, <1>11
  <2>2. QED
    BY <1>1, <1>11, <2>1
<1>12. QED
  BY <1>5, <1>6, <1>7, <1>8, <1>9, <1>10, <1>11

\* The pulse that begins n of them, in the words of the scan.
ScanPulseIs(c, code, data, w, n) ==
    /\ n <= 2 => c.level = n - 1 /\ c.keep = FALSE /\ c.tdi = 0
    /\ n > 2 /\ n <= w + 2 => /\ c.level = (IF n = 3 THEN 1 ELSE 0) /\ c.keep = TRUE
                              /\ c.tdi = data[w + 3 - n]
    /\ n > w + 2 /\ n <= w + 5 =>
          c.level = (IF n = w + 5 THEN 1 ELSE 0) /\ c.keep = FALSE /\ c.tdi = 0
    /\ n > w + 5 /\ n <= w + 7 =>
          c.level = (IF n = w + 7 THEN 1 ELSE 0) /\ c.keep = FALSE /\ c.tdi = 0
    /\ n > w + 7 /\ n <= w + 11 => /\ c.level = (IF n = w + 8 THEN 1 ELSE 0) /\ c.keep = FALSE
                                   /\ c.tdi = code[w + 12 - n]
    /\ n > w + 11 => c.level = (IF n >= w + 14 THEN 1 ELSE 0) /\ c.keep = FALSE /\ c.tdi = 0

\* The pulses of a scan, told by those left.
LEMMA ScanPulseOf ==
    ASSUME NEW code, NEW data, NEW w \in Nat \ {0}, w = Len(data), NEW n \in Nat \ {0},
           NEW c, c = ScanPulses(code, data)[n - 1]
    PROVE  ScanPulseIs(c, code, data, w, n)
<1> DEFINE m == n - 1
<1>1. m \in Nat
  OBVIOUS
<1> HIDE DEF m
<1>2. ScanPulses(code, data)[m] =
           IF m <= 1 THEN Pulse(TRUE, m, 0, FALSE)
           ELSE IF m <= w + 1 THEN Pulse(TRUE, IF m = 2 THEN 1 ELSE 0, data[w + 2 - m], TRUE)
           ELSE IF m <= w + 4 THEN Pulse(TRUE, IF m = w + 4 THEN 1 ELSE 0, 0, FALSE)
           ELSE IF m <= w + 6 THEN Pulse(TRUE, IF m = w + 6 THEN 1 ELSE 0, 0, FALSE)
           ELSE IF m <= w + 10
           THEN Pulse(TRUE, IF m = w + 7 THEN 1 ELSE 0, code[w + 11 - m], FALSE)
           ELSE Pulse(TRUE, IF m >= w + 13 THEN 1 ELSE 0, 0, FALSE)
  BY <1>1 DEF ScanPulses
<1>4. c = ScanPulses(code, data)[m]
  BY DEF m
<1>5. ASSUME n <= 2 PROVE c.level = n - 1 /\ c.keep = FALSE /\ c.tdi = 0
  <2>1. m <= 1 /\ m = n - 1
    BY <1>5 DEF m
  <2>2. c = Pulse(TRUE, m, 0, FALSE)
    BY <1>2, <1>4, <2>1
  <2>3. QED
    BY <2>1, <2>2 DEF Pulse
<1>6. ASSUME n > 2, n <= w + 2
      PROVE  c.level = (IF n = 3 THEN 1 ELSE 0) /\ c.keep = TRUE /\ c.tdi = data[w + 3 - n]
  <2>1. ~(m <= 1) /\ m <= w + 1 /\ (m = 2 <=> n = 3) /\ w + 2 - m = w + 3 - n
    BY <1>6 DEF m
  <2>2. c = Pulse(TRUE, IF m = 2 THEN 1 ELSE 0, data[w + 2 - m], TRUE)
    BY <1>2, <1>4, <2>1
  <2>3. QED
    BY <2>1, <2>2 DEF Pulse
<1>7. ASSUME n > w + 2, n <= w + 5
      PROVE  c.level = (IF n = w + 5 THEN 1 ELSE 0) /\ c.keep = FALSE /\ c.tdi = 0
  <2>1. ~(m <= 1) /\ ~(m <= w + 1) /\ m <= w + 4 /\ (m = w + 4 <=> n = w + 5)
    BY <1>7 DEF m
  <2>2. c = Pulse(TRUE, IF m = w + 4 THEN 1 ELSE 0, 0, FALSE)
    BY <1>2, <1>4, <2>1
  <2>3. QED
    BY <2>1, <2>2 DEF Pulse
<1>8. ASSUME n > w + 5, n <= w + 7
      PROVE  c.level = (IF n = w + 7 THEN 1 ELSE 0) /\ c.keep = FALSE /\ c.tdi = 0
  <2>1. ~(m <= 1) /\ ~(m <= w + 1) /\ ~(m <= w + 4) /\ m <= w + 6 /\ (m = w + 6 <=> n = w + 7)
    BY <1>8 DEF m
  <2>2. c = Pulse(TRUE, IF m = w + 6 THEN 1 ELSE 0, 0, FALSE)
    BY <1>2, <1>4, <2>1
  <2>3. QED
    BY <2>1, <2>2 DEF Pulse
<1>9. ASSUME n > w + 7, n <= w + 11
      PROVE  c.level = (IF n = w + 8 THEN 1 ELSE 0) /\ c.keep = FALSE /\ c.tdi = code[w + 12 - n]
  <2>1. /\ ~(m <= 1) /\ ~(m <= w + 1) /\ ~(m <= w + 4) /\ ~(m <= w + 6) /\ m <= w + 10
        /\ (m = w + 7 <=> n = w + 8) /\ w + 11 - m = w + 12 - n
    BY <1>9 DEF m
  <2>2. c = Pulse(TRUE, IF m = w + 7 THEN 1 ELSE 0, code[w + 11 - m], FALSE)
    BY <1>2, <1>4, <2>1
  <2>3. QED
    BY <2>1, <2>2 DEF Pulse
<1>10. ASSUME n > w + 11
       PROVE  c.level = (IF n >= w + 14 THEN 1 ELSE 0) /\ c.keep = FALSE /\ c.tdi = 0
  <2>1. /\ ~(m <= 1) /\ ~(m <= w + 1) /\ ~(m <= w + 4) /\ ~(m <= w + 6) /\ ~(m <= w + 10)
        /\ (m >= w + 13 <=> n >= w + 14)
    BY <1>10 DEF m
  <2>2. c = Pulse(TRUE, IF m >= w + 13 THEN 1 ELSE 0, 0, FALSE)
    BY <1>2, <1>4, <2>1
  <2>3. QED
    BY <2>1, <2>2 DEF Pulse
<1>11. QED
  BY <1>5, <1>6, <1>7, <1>8, <1>9, <1>10 DEF ScanPulseIs

\* What a step of the scan of the instruction register leaves: more of it,
\* or the port at rest with the instruction.
AfterIR(n, q, c, code, w) ==
    /\ q \in JtagPorts /\ c.keep = FALSE
    /\ \/ ScanningIR(n - 1, q, code, w)
       \/ n - 1 = w + 5 /\ q.state = "RunTest" /\ q.ir = code

\* The scan of the instruction register: its four bits go in, and the
\* instruction is the code.
LEMMA ScanIRStep ==
    ASSUME NEW code \in Seq(Levels), Len(code) = 4,
           NEW data, NEW w \in Nat \ {0}, w = Len(data), NEW n \in Nat \ {0},
           NEW c, c = ScanPulses(code, data)[n - 1],
           NEW p \in JtagPorts, NEW q \in TapEdge(p, c.level, c.tdi), waits \in Nat,
           ScanningIR(n, p, code, w)
    PROVE  AfterIR(n, q, c, code, w)
<1> SUFFICES /\ q \in JtagPorts /\ c.keep = FALSE
             /\ ScanningIR(n - 1, q, code, w)
                   \/ (n - 1 = w + 5 /\ q.state = "RunTest" /\ q.ir = code)
  BY DEF AfterIR
<1>1. 0 \in Levels /\ 1 \in Levels /\ \A k \in 1 .. 4 : code[k] \in Levels
  BY LevelFacts, ElementOfSeq
<1>p. ScanPulseIs(c, code, data, w, n)
  BY ScanPulseOf
<1>2. CASE n = w + 15 /\ p.state = "RunTest"
  <2>1. n > w + 11 /\ n >= w + 14 /\ n - 1 = w + 14
    BY <1>2
  <2>2. c.level = 1 /\ c.keep = FALSE /\ c.tdi = 0
    BY <1>p, <2>1 DEF ScanPulseIs
  <2>3. q \in JtagPorts /\ q.state = "SelectDR"
    <3>1. 1 \in {0, 1} /\ q \in TapEdge(p, 1, 0)
      BY <2>2
    <3>2. q \in JtagPorts /\ q.state = Tap[p.state][1 + 1]
      BY <1>1, <1>2, <3>1, TapMoved
    <3>3. QED
      BY <1>2, <3>2, TapTable
  <2>4. QED
    BY <2>1, <2>2, <2>3 DEF ScanningIR
<1>3. CASE n = w + 14 /\ p.state = "SelectDR"
  <2>1. n > w + 11 /\ n >= w + 14 /\ n - 1 = w + 13
    BY <1>3
  <2>2. c.level = 1 /\ c.keep = FALSE /\ c.tdi = 0
    BY <1>p, <2>1 DEF ScanPulseIs
  <2>3. q \in JtagPorts /\ q.state = "SelectIR"
    <3>1. 1 \in {0, 1} /\ q \in TapEdge(p, 1, 0)
      BY <2>2
    <3>2. q \in JtagPorts /\ q.state = Tap[p.state][1 + 1]
      BY <1>1, <1>3, <3>1, TapMoved
    <3>3. QED
      BY <1>3, <3>2, TapTable
  <2>4. QED
    BY <2>1, <2>2, <2>3 DEF ScanningIR
<1>4. CASE n = w + 13 /\ p.state = "SelectIR"
  <2>1. n > w + 11 /\ ~(n >= w + 14) /\ n - 1 = w + 12
    BY <1>4
  <2>2. c.level = 0 /\ c.keep = FALSE /\ c.tdi = 0
    BY <1>p, <2>1 DEF ScanPulseIs
  <2>3. q \in JtagPorts /\ q.state = "CaptureIR"
    <3>1. 0 \in {0, 1} /\ q \in TapEdge(p, 0, 0)
      BY <2>2
    <3>2. q \in JtagPorts /\ q.state = Tap[p.state][0 + 1]
      BY <1>1, <1>4, <3>1, TapMoved
    <3>3. QED
      BY <1>4, <3>2, TapTable
  <2>4. QED
    BY <2>1, <2>2, <2>3 DEF ScanningIR
<1>5. CASE n = w + 12 /\ p.state = "CaptureIR"
  <2>1. n > w + 11 /\ ~(n >= w + 14) /\ n - 1 = w + 11
    BY <1>5
  <2>2. c.level = 0 /\ c.keep = FALSE /\ c.tdi = 0
    BY <1>p, <2>1 DEF ScanPulseIs
  <2>3. q \in JtagPorts /\ q.state = "ShiftIR" /\ q.shift = <<1, 0, 0, 0>>
    <3>1. 0 \in {0, 1} /\ q \in TapEdge(p, 0, 0)
      BY <2>2
    <3>2. q \in JtagPorts /\ q.state = Tap[p.state][0 + 1] /\ q.shift = <<1, 0, 0, 0>>
      BY <1>1, <1>5, <3>1, TapMoved
    <3>3. QED
      BY <1>5, <3>2, TapTable
  <2>4. Len(q.shift) = 4 /\ n - 1 \in w + 8 .. w + 11 /\ \A k \in 1 .. 4 : ~(k > n - 1 - w - 7)
    BY <2>1, <2>3
  <2>5. QED
    BY <2>2, <2>3, <2>4 DEF ScanningIR
<1>6. CASE /\ n \in w + 8 .. w + 11 /\ p.state = "ShiftIR" /\ Len(p.shift) = 4
           /\ \A k \in 1 .. 4 : k > n - w - 7 => p.shift[k] = code[k - (n - w - 7)]
  <2> DEFINE d == n - w - 7
  <2>1. /\ n > w + 7 /\ n <= w + 11 /\ d \in 1 .. 4 /\ w + 12 - n = 5 - d /\ (n = w + 8 <=> d = 1)
        /\ n - 1 - w - 7 = d - 1 /\ (d > 1 => n - 1 \in w + 8 .. w + 11) /\ (d = 1 => n - 1 = w + 7)
        /\ 5 - d \in 1 .. 4
    BY <1>6
  <2>2. \A k \in 1 .. 4 : k > d => p.shift[k] = code[k - d]
    BY <1>6
  <2> HIDE DEF d
  <2>3. c.level = (IF n = w + 8 THEN 1 ELSE 0) /\ c.keep = FALSE /\ c.tdi = code[w + 12 - n]
    BY <1>p, <2>1 DEF ScanPulseIs
  <2>4. c.level = (IF d = 1 THEN 1 ELSE 0) /\ c.tdi = code[5 - d] /\ c.tdi \in Levels
    BY <1>1, <2>1, <2>3
  <2>5. p.shift \in Seq(Levels) /\ p.shift # <<>>
    <3>1. p.shift \in Seq(Levels)
      BY DEF JtagPorts
    <3>2. Len(p.shift) # 0
      BY <1>6
    <3>3. QED
      BY <3>1, <3>2, NotEmpty
  <2>6. /\ q \in JtagPorts /\ q.state = Tap["ShiftIR"][c.level + 1]
        /\ q.shift = Append(Tail(p.shift), c.tdi)
    <3>1. c.level \in {0, 1}
      BY <2>4
    <3>2. p.state \in {"ShiftDR", "ShiftIR"}
      BY <1>6
    <3>3. /\ q \in JtagPorts /\ q.state = Tap[p.state][c.level + 1]
          /\ q.shift = Append(Tail(p.shift), c.tdi)
      BY <2>4, <2>5, <3>1, <3>2, TapMoved
    <3>4. QED
      BY <1>6, <3>3
  <2>7. /\ Len(q.shift) = 4 /\ q.shift \in Seq(Levels)
        /\ \A k \in 1 .. 4 : k > d - 1 => q.shift[k] = code[k - (d - 1)]
    <3>1. Tail(p.shift) \in Seq(Levels) /\ Len(Tail(p.shift)) = 3
          /\ \A k \in 1 .. 3 : Tail(p.shift)[k] = p.shift[k + 1]
      BY <1>6, <2>5, Shifted
    <3>2. /\ q.shift \in Seq(Levels) /\ Len(q.shift) = 4 /\ q.shift[4] = code[5 - d]
          /\ \A k \in 1 .. 3 : q.shift[k] = p.shift[k + 1]
      <4> DEFINE s == Tail(p.shift)
                 x == c.tdi
      <4>1. s \in Seq(Levels) /\ Len(s) = 3 /\ x \in Levels /\ q.shift = Append(s, x)
        BY <2>4, <2>6, <3>1
      <4> HIDE DEF s, x
      <4>2. /\ Append(s, x) \in Seq(Levels) /\ Len(Append(s, x)) = Len(s) + 1
            /\ Append(s, x)[Len(s) + 1] = x /\ \A k \in 1 .. Len(s) : Append(s, x)[k] = s[k]
        <5>1. s \in Seq(Levels) /\ x \in Levels
          BY <4>1
        <5>2. QED
          BY <5>1, Extended
      <4>3. /\ q.shift \in Seq(Levels) /\ Len(q.shift) = 4 /\ q.shift[4] = x
            /\ \A k \in 1 .. 3 : q.shift[k] = s[k]
        BY <4>1, <4>2
      <4>4. QED
        BY <2>4, <3>1, <4>3 DEF s, x
    <3>3. ASSUME NEW k \in 1 .. 4, k > d - 1 PROVE q.shift[k] = code[k - (d - 1)]
      <4>1. CASE k = 4
        <5>1. 4 - (d - 1) = 5 - d
          BY <2>1
        <5>2. QED
          BY <3>2, <4>1, <5>1
      <4>2. CASE k \in 1 .. 3
        <5>1. k + 1 \in 1 .. 4 /\ k + 1 > d /\ (k + 1) - d = k - (d - 1)
          BY <2>1, <3>3, <4>2
        <5>2. QED
          BY <2>2, <3>2, <4>2, <5>1
      <4>3. QED
        BY <4>1, <4>2
    <3>4. QED
      BY <3>2, <3>3
  <2>8. CASE d > 1
    <3>1. q.state = "ShiftIR"
      <4>1. c.level = 0
        BY <2>1, <2>4, <2>8
      <4>2. QED
        BY <2>6, <4>1, TapTable
    <3>2. \A k \in 1 .. 4 : k > n - 1 - w - 7 => q.shift[k] = code[k - (n - 1 - w - 7)]
      BY <2>1, <2>7
    <3>3. n - 1 \in w + 8 .. w + 11
      BY <2>1, <2>8
    <3>4. QED
      BY <2>3, <2>6, <2>7, <3>1, <3>2, <3>3 DEF ScanningIR
  <2>9. CASE d = 1
    <3>1. q.state = "Exit1IR"
      <4>1. c.level = 1
        BY <2>4, <2>9
      <4>2. QED
        BY <2>6, <4>1, TapTable
    <3>2. q.shift = code
      <4>1. \A k \in 1 .. 4 : q.shift[k] = code[k]
        <5>1. \A k \in 1 .. 4 : k > d - 1 /\ k - (d - 1) = k
          BY <2>9
        <5>2. QED
          BY <2>7, <5>1
      <4>2. QED
        BY <2>7, <4>1, SeqEqual
    <3>3. n - 1 = w + 7
      BY <2>1, <2>9
    <3>4. QED
      BY <2>3, <2>6, <3>1, <3>2, <3>3 DEF ScanningIR
  <2>10. QED
    <3>1. d > 1 \/ d = 1
      BY <2>1
    <3>2. QED
      BY <2>8, <2>9, <3>1
<1>7. CASE n = w + 7 /\ p.state = "Exit1IR" /\ p.shift = code
  <2>1. n > w + 5 /\ n <= w + 7 /\ n = w + 7 /\ n - 1 = w + 6
    BY <1>7
  <2>2. c.level = 1 /\ c.keep = FALSE /\ c.tdi = 0
    BY <1>p, <2>1 DEF ScanPulseIs
  <2>3. q \in JtagPorts /\ q.state = "UpdateIR" /\ q.shift = code
    <3>1. 1 \in {0, 1} /\ q \in TapEdge(p, 1, 0)
      BY <2>2
    <3>2. q \in JtagPorts /\ q.state = Tap[p.state][1 + 1] /\ q.shift = code
      BY <1>1, <1>7, <3>1, TapMoved
    <3>3. QED
      BY <1>7, <3>2, TapTable
  <2>4. QED
    BY <2>1, <2>2, <2>3 DEF ScanningIR
<1>8. CASE n = w + 6 /\ p.state = "UpdateIR" /\ p.shift = code
  <2>1. n > w + 5 /\ n <= w + 7 /\ n # w + 7 /\ n - 1 = w + 5
    BY <1>8
  <2>2. c.level = 0 /\ c.keep = FALSE /\ c.tdi = 0
    BY <1>p, <2>1 DEF ScanPulseIs
  <2>3. q \in JtagPorts /\ q.state = "RunTest" /\ q.ir = code
    <3>1. 0 \in {0, 1} /\ q \in TapEdge(p, 0, 0)
      BY <2>2
    <3>2. q \in JtagPorts /\ q.state = Tap[p.state][0 + 1] /\ q.ir = code
      BY <1>1, <1>8, <3>1, TapMoved
    <3>3. QED
      BY <1>8, <3>2, TapTable
  <2>4. QED
    BY <2>1, <2>2, <2>3 DEF ScanningIR
<1>9. QED
  BY <1>2, <1>3, <1>4, <1>5, <1>6, <1>7, <1>8 DEF ScanningIR

\* Position k + 1 with n pulses left is position k with one fewer.
LEMMA OneMore ==
    \A k, w, n \in Int : (k + 1) + (w + 2 - n) = k + (w + 3 - n)
OBVIOUS

AfterDR(n, q, kept, code, data, w) ==
    q \in JtagPorts /\ ScanningDR(n - 1, q, kept, code, data, w)

\* The scan of the data register: the tester's bits go in, and what the port
\* shows comes out.
LEMMA ScanDRStep ==
    ASSUME NEW code, NEW data \in Seq(Levels), NEW w \in Nat \ {0}, w = Len(data),
           w = IF code = JTAG_IDCODE THEN 3 ELSE WordBits + 3,
           NEW n \in Nat \ {0}, NEW c, c = ScanPulses(code, data)[n - 1],
           NEW p \in JtagPorts, NEW q \in TapEdge(p, c.level, c.tdi), waits \in Nat,
           NEW got \in Seq(Levels), NEW seen \in Levels, p.shift # <<>> => seen = p.shift[1],
           NEW kept, kept = IF c.keep THEN Append(got, seen) ELSE got,
           ScanningDR(n, p, got, code, data, w)
    PROVE  AfterDR(n, q, kept, code, data, w)
<1> SUFFICES q \in JtagPorts /\ ScanningDR(n - 1, q, kept, code, data, w)
  BY DEF AfterDR
<1>1. 0 \in Levels /\ 1 \in Levels /\ \A k \in 1 .. w : data[k] \in Levels
  BY LevelFacts, ElementOfSeq
<1>2. ScanPulseIs(c, code, data, w, n)
  BY ScanPulseOf
<1>3. p.ir = code
  BY DEF ScanningDR
<1>4. CASE n = w + 5 /\ p.state = "RunTest" /\ got = <<>>
  <2>1. n > w + 2 /\ n <= w + 5 /\ n - 1 = w + 4
    BY <1>4
  <2>2. c.level = 1 /\ c.keep = FALSE /\ c.tdi = 0
    BY <1>2, <2>1 DEF ScanPulseIs
  <2>3. kept = got
    BY <2>2
  <2>4. q \in JtagPorts /\ q.state = "SelectDR" /\ q.ir = code
    <3>1. 1 \in {0, 1} /\ q \in TapEdge(p, 1, 0)
      BY <2>2
    <3>2. p.state \notin {"UpdateIR", "TestLogicReset"} /\ (p.state \in {"ShiftDR", "ShiftIR"} => p.shift # <<>>)
      BY <1>4
    <3>3. q \in JtagPorts /\ q.state = Tap[p.state][1 + 1] /\ q.ir = p.ir
      BY <1>1, <1>4, <3>1, <3>2, TapMoved
    <3>4. QED
      BY <1>3, <1>4, <3>3, TapTable
  <2>5. QED
    BY <1>4, <2>1, <2>3, <2>4 DEF ScanningDR
<1>5. CASE n = w + 4 /\ p.state = "SelectDR" /\ got = <<>>
  <2>1. n > w + 2 /\ n <= w + 5 /\ n # w + 5 /\ n - 1 = w + 3
    BY <1>5
  <2>2. c.level = 0 /\ c.keep = FALSE /\ c.tdi = 0
    BY <1>2, <2>1 DEF ScanPulseIs
  <2>3. kept = got
    BY <2>2
  <2>4. q \in JtagPorts /\ q.state = "CaptureDR" /\ q.ir = code
    <3>1. 0 \in {0, 1} /\ q \in TapEdge(p, 0, 0)
      BY <2>2
    <3>2. p.state \notin {"UpdateIR", "TestLogicReset"} /\ (p.state \in {"ShiftDR", "ShiftIR"} => p.shift # <<>>)
      BY <1>5
    <3>3. q \in JtagPorts /\ q.state = Tap[p.state][0 + 1] /\ q.ir = p.ir
      BY <1>1, <1>5, <3>1, <3>2, TapMoved
    <3>4. QED
      BY <1>3, <1>5, <3>3, TapTable
  <2>5. QED
    BY <1>5, <2>1, <2>3, <2>4 DEF ScanningDR
<1>6. CASE n = w + 3 /\ p.state = "CaptureDR" /\ got = <<>>
  <2>1. n > w + 2 /\ n <= w + 5 /\ n # w + 5 /\ n - 1 = w + 2
    BY <1>6
  <2>2. c.level = 0 /\ c.keep = FALSE /\ c.tdi = 0
    BY <1>2, <2>1 DEF ScanPulseIs
  <2>3. kept = got
    BY <2>2
  <2>4. q \in JtagPorts /\ q.state = "ShiftDR" /\ q.ir = code /\ q.shift \in Captures(p) /\ q.shown = q.shift
    <3>1. 0 \in {0, 1} /\ q \in TapEdge(p, 0, 0)
      BY <2>2
    <3>2. p.state \notin {"UpdateIR", "TestLogicReset"} /\ (p.state \in {"ShiftDR", "ShiftIR"} => p.shift # <<>>)
      BY <1>6
    <3>3. q \in JtagPorts /\ q.state = Tap[p.state][0 + 1] /\ q.ir = p.ir /\ q.shift \in Captures(p) /\ q.shown = q.shift
      BY <1>1, <1>6, <3>1, <3>2, TapMoved
    <3>4. QED
      BY <1>3, <1>6, <3>3, TapTable
  <2>5. Len(q.shift) = w /\ (code = JTAG_IDCODE => q.shift = IdCode)
    BY <1>3, <2>4, CapturesTyped
  <2>6. /\ n - 1 \in 3 .. w + 2 /\ ~(n - 1 <= 2) /\ w + 2 - (n - 1) = 0 /\ n - 1 - 2 = w
        /\ Len(kept) = 0
    BY <1>6, <2>1, <2>3
  <2>7. \A k \in 1 .. w : q.shift[k] = IF k <= n - 1 - 2 THEN q.shown[k + (w + 2 - (n - 1))]
                                       ELSE data[k - (n - 1 - 2)]
    <3>1. \A k \in 1 .. w : k + 0 = k /\ k <= w
      OBVIOUS
    <3>2. QED
      BY <2>4, <2>6, <3>1
  <2>8. Len(q.shown) = w /\ \A k \in 1 .. Len(kept) : kept[k] = q.shown[k]
    BY <2>4, <2>5, <2>6
  <2>9. ShiftingDR(n - 1, q, kept, data, w)
    BY <2>4, <2>5, <2>6, <2>7, <2>8 DEF ShiftingDR
  <2>10. QED
    BY <2>4, <2>5, <2>9 DEF ScanningDR
<1>7. CASE /\ ShiftingDR(n, p, got, data, w) /\ (code = JTAG_IDCODE => p.shown = IdCode)
           /\ n \in 3 .. w + 2
  <2>1. /\ p.state = "ShiftDR" /\ Len(p.shift) = w /\ Len(p.shown) = w /\ Len(got) = w + 2 - n
        /\ \A k \in 1 .. w : p.shift[k] = IF k <= n - 2 THEN p.shown[k + (w + 2 - n)]
                                          ELSE data[k - (n - 2)]
        /\ \A k \in 1 .. Len(got) : got[k] = p.shown[k]
    <3>1. n # 2 /\ n # 1 /\ n # 0 /\ ~(n <= 2)
      BY <1>7
    <3>2. QED
      BY <1>7, <3>1 DEF ShiftingDR
  <2>2. /\ n > 2 /\ n <= w + 2 /\ w + 3 - n \in 1 .. w /\ 1 <= n - 2 /\ 1 + (w + 2 - n) = w + 3 - n
        /\ 1 \in 1 .. w
    BY <1>7
  <2>3. /\ c.level = (IF n = 3 THEN 1 ELSE 0) /\ c.keep = TRUE /\ c.tdi = data[w + 3 - n]
        /\ c.tdi \in Levels /\ c.level \in {0, 1}
    BY <1>1, <1>2, <2>2 DEF ScanPulseIs
  <2>4. p.shift \in Seq(Levels) /\ p.shift # <<>>
    <3>1. p.shift \in Seq(Levels)
      BY DEF JtagPorts
    <3>2. Len(p.shift) # 0
      BY <2>1
    <3>3. QED
      BY <3>1, <3>2, NotEmpty
  <2>5. seen = p.shown[w + 3 - n]
    BY <2>1, <2>2, <2>4
  <2>6. /\ q \in JtagPorts /\ q.state = Tap["ShiftDR"][c.level + 1] /\ q.ir = code
        /\ q.shift = Append(Tail(p.shift), c.tdi) /\ q.shown = p.shown
    <3>1. p.state \in {"ShiftDR", "ShiftIR"} /\ p.state \notin {"UpdateIR", "TestLogicReset"}
          /\ p.state # "CaptureDR"
      BY <2>1
    <3>2. /\ q \in JtagPorts /\ q.state = Tap[p.state][c.level + 1] /\ q.ir = p.ir
          /\ q.shift = Append(Tail(p.shift), c.tdi) /\ q.shown = p.shown
      <4>1. c.level \in {0, 1} /\ c.tdi \in Levels
        BY <2>3
      <4>2. p.shift # <<>>
        BY <2>4
      <4>3. /\ q \in JtagPorts /\ q.state = Tap[p.state][c.level + 1]
            /\ p.state \notin {"UpdateIR", "TestLogicReset"} => q.ir = p.ir
            /\ p.state # "CaptureDR" => q.shown = p.shown
            /\ p.state \in {"ShiftDR", "ShiftIR"} => q.shift = Append(Tail(p.shift), c.tdi)
        BY <4>1, <4>2, TapMoved
      <4>4. QED
        BY <3>1, <4>3
    <3>3. QED
      BY <1>3, <2>1, <3>2
  <2>7. /\ kept = Append(got, seen) /\ Len(kept) = w + 3 - n /\ kept[w + 3 - n] = seen
        /\ \A k \in 1 .. w + 2 - n : kept[k] = got[k]
    <3>1. kept = Append(got, seen)
      BY <2>3
    <3>2. Len(got) + 1 = w + 3 - n /\ Len(got) \in Nat
      BY <2>1, <2>2
    <3>3. QED
      <4>1. /\ Len(kept) = Len(got) + 1 /\ kept[Len(got) + 1] = seen
            /\ \A k \in 1 .. Len(got) : kept[k] = got[k]
        BY <3>1, Extended
      <4>2. Len(got) = w + 2 - n
        BY <2>1
      <4>3. QED
        BY <3>1, <3>2, <4>1, <4>2
  <2>8. \A k \in 1 .. Len(kept) : kept[k] = q.shown[k]
    <3>1. \A k \in 1 .. w + 3 - n : k \in 1 .. w + 2 - n \/ k = w + 3 - n
      BY <2>2
    <3>2. QED
      BY <2>1, <2>5, <2>6, <2>7, <3>1
  <2>9. /\ q.shift \in Seq(Levels) /\ Len(q.shift) = w
        /\ \A k \in 1 .. w : q.shift[k] = IF k <= n - 3 THEN p.shown[k + (w + 3 - n)]
                                          ELSE data[k - (n - 3)]
    <3>1. Tail(p.shift) \in Seq(Levels) /\ Len(Tail(p.shift)) = w - 1
          /\ \A k \in 1 .. w - 1 : Tail(p.shift)[k] = p.shift[k + 1]
      BY <2>1, <2>4, Shifted
    <3>2. /\ q.shift \in Seq(Levels) /\ Len(q.shift) = w /\ q.shift[w] = data[w + 3 - n]
          /\ \A k \in 1 .. w - 1 : q.shift[k] = p.shift[k + 1]
      <4>1. w - 1 + 1 = w
        OBVIOUS
      <4>2. c.tdi \in Levels /\ c.tdi = data[w + 3 - n] /\ q.shift = Append(Tail(p.shift), c.tdi)
        BY <2>3, <2>6
      <4>3. /\ q.shift \in Seq(Levels) /\ Len(q.shift) = Len(Tail(p.shift)) + 1
            /\ q.shift[Len(Tail(p.shift)) + 1] = c.tdi
            /\ \A k \in 1 .. Len(Tail(p.shift)) : q.shift[k] = Tail(p.shift)[k]
        BY <3>1, <4>2, Extended
      <4>4. QED
        BY <3>1, <4>1, <4>2, <4>3
    <3>3. ASSUME NEW k \in 1 .. w
          PROVE  q.shift[k] = IF k <= n - 3 THEN p.shown[k + (w + 3 - n)] ELSE data[k - (n - 3)]
      <4>1. CASE k = w
        <5>1. ~(w <= n - 3) /\ w - (n - 3) = w + 3 - n
          BY <2>2
        <5>2. QED
          BY <3>2, <4>1, <5>1
      <4>2. CASE k \in 1 .. w - 1
        <5>1. /\ k + 1 \in 1 .. w /\ (k + 1 <= n - 2 <=> k <= n - 3)
              /\ (k + 1) + (w + 2 - n) = k + (w + 3 - n) /\ (k + 1) - (n - 2) = k - (n - 3)
          <6>1. k \in Int /\ n \in Int /\ w \in Int
            OBVIOUS
          <6>2. k + 1 \in 1 .. w
            BY <4>2
          <6>3. (k + 1) - (n - 2) = k - (n - 3)
            BY <6>1
          <6>4. k + 1 <= n - 2 <=> k <= n - 3
            BY <6>1
          <6>5. (k + 1) + (w + 2 - n) = k + (w + 3 - n)
            BY <6>1, OneMore
          <6>6. QED
            BY <6>2, <6>3, <6>4, <6>5
        <5>2. p.shift[k + 1] = IF k + 1 <= n - 2 THEN p.shown[(k + 1) + (w + 2 - n)]
                               ELSE data[(k + 1) - (n - 2)]
          BY <2>1, <5>1
        <5>3. p.shift[k + 1] = IF k <= n - 3 THEN p.shown[k + (w + 3 - n)] ELSE data[k - (n - 3)]
          BY <5>1, <5>2
        <5>4. QED
          BY <3>2, <4>2, <5>3
      <4>3. QED
        BY <4>1, <4>2
    <3>4. QED
      BY <3>2, <3>3
  <2>10. CASE n = 3
    <3>1. n - 1 = 2 /\ n - 1 <= 2 /\ Len(kept) = w /\ n - 3 = 0
      BY <2>7, <2>10
    <3>2. q.state = "Exit1DR"
      <4>1. c.level = 1
        BY <2>3, <2>10
      <4>2. QED
        BY <2>6, <4>1, TapTable
    <3>3. q.shift = data
      <4>1. \A k \in 1 .. w : ~(k <= n - 3) /\ k - (n - 3) = k
        BY <3>1
      <4>2. \A k \in 1 .. w : q.shift[k] = data[k]
        BY <2>9, <4>1
      <4>3. QED
        BY <2>9, <4>2, SeqEqual
    <3>4. Len(q.shown) = w
      BY <2>1, <2>6
    <3>5. ShiftingDR(n - 1, q, kept, data, w)
      BY <2>8, <3>1, <3>2, <3>3, <3>4 DEF ShiftingDR
    <3>6. QED
      BY <1>7, <2>6, <3>5 DEF ScanningDR
  <2>11. CASE n > 3
    <3>1. /\ n - 1 \in 3 .. w + 2 /\ ~(n - 1 <= 2) /\ Len(kept) = w + 2 - (n - 1) /\ n - 1 - 2 = n - 3
          /\ w + 2 - (n - 1) = w + 3 - n
      <4>1. /\ n - 1 \in 3 .. w + 2 /\ ~(n - 1 <= 2) /\ n - 1 - 2 = n - 3
            /\ w + 2 - (n - 1) = w + 3 - n
        BY <2>2, <2>11
      <4>2. QED
        BY <2>7, <4>1
    <3>2. q.state = "ShiftDR"
      <4>1. c.level = 0
        BY <2>3, <2>11
      <4>2. QED
        BY <2>6, <4>1, TapTable
    <3>3. \A k \in 1 .. w : q.shift[k] = IF k <= n - 1 - 2 THEN q.shown[k + (w + 2 - (n - 1))]
                                         ELSE data[k - (n - 1 - 2)]
      BY <2>6, <2>9, <3>1
    <3>4. Len(q.shown) = w
      BY <2>1, <2>6
    <3>5. ShiftingDR(n - 1, q, kept, data, w)
      BY <2>8, <2>9, <3>1, <3>2, <3>3, <3>4 DEF ShiftingDR
    <3>6. QED
      BY <1>7, <2>6, <3>5 DEF ScanningDR
  <2>12. QED
    <3>1. n = 3 \/ n > 3
      BY <1>7
    <3>2. QED
      BY <2>10, <2>11, <3>1
<1>8. CASE n = 2 /\ p.state = "Exit1DR" /\ p.shift = data
           /\ ShiftingDR(n, p, got, data, w) /\ (code = JTAG_IDCODE => p.shown = IdCode)
  <2>1. n <= 2 /\ n - 1 = 1 /\ n - 1 <= 2
    BY <1>8
  <2>2. c.level = 1 /\ c.keep = FALSE /\ c.tdi = 0
    BY <1>2, <2>1 DEF ScanPulseIs
  <2>3. kept = got
    BY <2>2
  <2>4. q \in JtagPorts /\ q.state = "UpdateDR" /\ q.ir = code /\ q.shift = data /\ q.shown = p.shown
    <3>1. 1 \in {0, 1} /\ q \in TapEdge(p, 1, 0)
      BY <2>2
    <3>2. p.state \notin {"UpdateIR", "TestLogicReset"} /\ (p.state \in {"ShiftDR", "ShiftIR"} => p.shift # <<>>)
      BY <1>8
    <3>3. q \in JtagPorts /\ q.state = Tap[p.state][1 + 1] /\ q.ir = p.ir /\ q.shift = data /\ q.shown = p.shown
      BY <1>1, <1>8, <3>1, <3>2, TapMoved
    <3>4. QED
      BY <1>3, <1>8, <3>3, TapTable
  <2>5. Len(p.shown) = w /\ Len(got) = w /\ \A k \in 1 .. Len(got) : got[k] = p.shown[k]
    BY <1>8, <2>1 DEF ShiftingDR
  <2>6. ShiftingDR(n - 1, q, kept, data, w)
    BY <2>1, <2>3, <2>4, <2>5 DEF ShiftingDR
  <2>7. QED
    BY <1>8, <2>4, <2>6 DEF ScanningDR
<1>9. CASE n = 1 /\ p.state = "UpdateDR" /\ p.shift = data
           /\ ShiftingDR(n, p, got, data, w) /\ (code = JTAG_IDCODE => p.shown = IdCode)
  <2>1. n <= 2 /\ n - 1 = 0 /\ n - 1 <= 2
    BY <1>9
  <2>2. c.level = 0 /\ c.keep = FALSE /\ c.tdi = 0
    BY <1>2, <2>1 DEF ScanPulseIs
  <2>3. kept = got
    BY <2>2
  <2>4. q \in JtagPorts /\ q.state = "RunTest" /\ q.ir = code /\ q.taken = data /\ q.shown = p.shown
    <3>1. 0 \in {0, 1} /\ q \in TapEdge(p, 0, 0)
      BY <2>2
    <3>2. p.state \notin {"UpdateIR", "TestLogicReset"} /\ (p.state \in {"ShiftDR", "ShiftIR"} => p.shift # <<>>)
      BY <1>9
    <3>3. q \in JtagPorts /\ q.state = Tap[p.state][0 + 1] /\ q.ir = p.ir /\ q.taken = data /\ q.shown = p.shown
      BY <1>1, <1>9, <3>1, <3>2, TapMoved
    <3>4. QED
      BY <1>3, <1>9, <3>3, TapTable
  <2>5. Len(p.shown) = w /\ Len(got) = w /\ \A k \in 1 .. Len(got) : got[k] = p.shown[k]
    BY <1>9, <2>1 DEF ShiftingDR
  <2>6. ShiftingDR(n - 1, q, kept, data, w)
    BY <2>1, <2>3, <2>4, <2>5 DEF ShiftingDR
  <2>7. QED
    BY <1>9, <2>4, <2>6 DEF ScanningDR
<1>10. QED
  <2>1. CASE ShiftingDR(n, p, got, data, w) /\ (code = JTAG_IDCODE => p.shown = IdCode)
    <3>1. n # 0
      OBVIOUS
    <3>2. n \in 3 .. w + 2 \/ (n = 2 /\ p.state = "Exit1DR" /\ p.shift = data)
          \/ (n = 1 /\ p.state = "UpdateDR" /\ p.shift = data)
      BY <2>1, <3>1 DEF ShiftingDR
    <3>3. QED
      BY <1>7, <1>8, <1>9, <2>1, <3>2
  <2>2. QED
    BY <1>4, <1>5, <1>6, <2>1 DEF ScanningDR

-----------------------------------------------------------------------------
(* The pulses of a stage.                                                  *)

\* The pulses s are those f tells, from n left to m left.
Follows(s, f, n, m) ==
    /\ s \in Seq(Pulses) /\ m \in Nat /\ n \in Nat /\ Len(s) + m = n
    /\ \A k \in 1 .. Len(s) : s[k] = f[n - k]

\* Element by element, the pulses of f.
LEMMA FollowsIs ==
    ASSUME NEW f, NEW s \in Seq(Pulses), NEW a \in Nat, NEW n \in Nat, NEW m \in Nat,
           Len(s) = a, a + m = n, \A k \in 1 .. a : s[k] = f[n - k]
    PROVE  Follows(s, f, n, m)
BY DEF Follows

\* Pulses made one after the other.
LEMMA FollowsOn ==
    ASSUME NEW f, NEW n, NEW m, NEW l, NEW s, NEW t, Follows(s, f, n, m), Follows(t, f, m, l)
    PROVE  Follows(s \o t, f, n, l)
<1>1. /\ s \in Seq(Pulses) /\ t \in Seq(Pulses) /\ Len(s) \in Nat /\ Len(t) \in Nat
      /\ n \in Nat /\ m \in Nat /\ l \in Nat /\ Len(s) + m = n /\ Len(t) + l = m
      /\ \A k \in 1 .. Len(s) : s[k] = f[n - k]
      /\ \A k \in 1 .. Len(t) : t[k] = f[m - k]
  BY DEF Follows
<1>2. /\ s \o t \in Seq(Pulses) /\ Len(s \o t) = Len(s) + Len(t)
      /\ \A k \in 1 .. Len(s) + Len(t) :
            (s \o t)[k] = IF k <= Len(s) THEN s[k] ELSE t[k - Len(s)]
  BY <1>1, Joined
<1>3. ASSUME NEW k \in 1 .. Len(s) + Len(t)
      PROVE  (s \o t)[k] = f[n - k]
  <2>1. CASE k <= Len(s)
    <3>1. k \in 1 .. Len(s)
      BY <1>1, <2>1
    <3>2. QED
      BY <1>1, <1>2, <2>1, <3>1
  <2>2. CASE ~(k <= Len(s))
    <3>1. k - Len(s) \in 1 .. Len(t) /\ m - (k - Len(s)) = n - k
      BY <1>1, <2>2
    <3>2. QED
      BY <1>1, <1>2, <2>2, <3>1
  <2>3. QED
    BY <2>1, <2>2
<1>4. (Len(s) + Len(t)) + l = n
  BY <1>1
<1>5. QED
  BY <1>1, <1>2, <1>3, <1>4 DEF Follows

\* What the routines make.
LEMMA OutPulses ==
    ASSUME NEW bits \in Seq(Levels)
    PROVE  /\ SerialWireClockOut(bits) \in Seq(Pulses) /\ Len(SerialWireClockOut(bits)) = Len(bits)
           /\ \A k \in 1 .. Len(bits) : SerialWireClockOut(bits)[k] = Pulse(TRUE, bits[k], 0, FALSE)
<1> DEFINE s == SerialWireClockOut(bits)
<1>1. Len(bits) \in Nat /\ \A k \in 1 .. Len(bits) : bits[k] \in Levels
  BY ElementOfSeq
<1>2. DOMAIN s = 1 .. Len(bits) /\ s = [k \in 1 .. Len(bits) |-> s[k]]
      /\ \A k \in 1 .. Len(bits) : s[k] = Pulse(TRUE, bits[k], 0, FALSE)
  BY DEF SerialWireClockOut
<1>3. \A k \in 1 .. Len(bits) : Pulse(TRUE, bits[k], 0, FALSE) \in Pulses
  BY <1>1, LevelFacts DEF Pulse, Pulses
<1> HIDE DEF s
<1>4. s \in Seq(Pulses) /\ Len(s) = Len(bits)
  <2>1. \A k \in 1 .. Len(bits) : s[k] \in Pulses
    BY <1>2, <1>3
  <2>2. QED
    BY <1>1, <1>2, <2>1, Listed
<1>5. QED
  BY <1>2, <1>4 DEF s

\* What a TMS transition makes.
LEMMA TransitionPulses ==
    ASSUME NEW bits \in Seq(Levels)
    PROVE  /\ JTAGTransition(bits) \in Seq(Pulses) /\ Len(JTAGTransition(bits)) = Len(bits)
           /\ \A k \in 1 .. Len(bits) : JTAGTransition(bits)[k] = Pulse(TRUE, bits[k], 0, FALSE)
<1>1. JTAGTransition(bits) = SerialWireClockOut(bits)
  BY DEF JTAGTransition, SerialWireClockOut
<1>2. QED
  BY <1>1, OutPulses

\* What a clocking in makes: the line is let go.
LEMMA InPulses ==
    ASSUME NEW n \in Nat
    PROVE  /\ SerialWireClockIn(n) \in Seq(Pulses) /\ Len(SerialWireClockIn(n)) = n
           /\ \A k \in 1 .. n : SerialWireClockIn(n)[k] = Floating(TRUE)
<1> DEFINE s == SerialWireClockIn(n)
<1>1. DOMAIN s = 1 .. n /\ s = [k \in 1 .. n |-> s[k]]
      /\ \A k \in 1 .. n : s[k] = Floating(TRUE)
  BY DEF SerialWireClockIn, Floating
<1>2. Floating(TRUE) \in Pulses
  BY LevelFacts DEF Floating, Pulse, Pulses
<1> HIDE DEF s
<1>3. s \in Seq(Pulses) /\ Len(s) = n
  <2>1. \A k \in 1 .. n : s[k] \in Pulses
    BY <1>1, <1>2
  <2>2. QED
    BY <1>1, <2>1, Listed
<1>4. QED
  BY <1>1, <1>3 DEF s

\* What a shift makes: TMS rises with the last bit.
LEMMA ShiftPulses ==
    ASSUME NEW data \in Seq(Levels), NEW keep \in BOOLEAN
    PROVE  /\ JTAGShift(data, keep) \in Seq(Pulses) /\ Len(JTAGShift(data, keep)) = Len(data)
           /\ \A k \in 1 .. Len(data) :
                 JTAGShift(data, keep)[k] = Pulse(TRUE, IF k = Len(data) THEN 1 ELSE 0, data[k], keep)
<1> DEFINE s == JTAGShift(data, keep)
<1>1. Len(data) \in Nat /\ \A k \in 1 .. Len(data) : data[k] \in Levels
  BY ElementOfSeq
<1>2. DOMAIN s = 1 .. Len(data) /\ s = [k \in 1 .. Len(data) |-> s[k]]
      /\ \A k \in 1 .. Len(data) : s[k] = Pulse(TRUE, IF k = Len(data) THEN 1 ELSE 0, data[k], keep)
  BY DEF JTAGShift
<1>3. \A k \in 1 .. Len(data) : Pulse(TRUE, IF k = Len(data) THEN 1 ELSE 0, data[k], keep) \in Pulses
  BY <1>1, LevelFacts DEF Pulse, Pulses
<1> HIDE DEF s
<1>4. s \in Seq(Pulses) /\ Len(s) = Len(data)
  <2>1. \A k \in 1 .. Len(data) : s[k] \in Pulses
    BY <1>2, <1>3
  <2>2. QED
    BY <1>1, <1>2, <2>1, Listed
<1>5. QED
  BY <1>2, <1>4 DEF s

\* A header and, before it again, the bit that ends a WAIT.
LEMMA HeaderFollows ==
    ASSUME NEW a \in Accesses
    PROVE  /\ Follows(SWHeader(a), HeaderPulses(a), 12, 0)
           /\ Follows(SerialWireClockOut(<<0>>) \o SWHeader(a), HeaderPulses(a), 13, 0)
<1> DEFINE h == SW_HEADER(a)
           f == HeaderPulses(a)
<1>1. h \in Seq(Levels) /\ Len(h) = 8
  BY HeaderBits
<1>2. /\ SerialWireClockOut(h) \in Seq(Pulses) /\ Len(SerialWireClockOut(h)) = 8
      /\ \A k \in 1 .. 8 : SerialWireClockOut(h)[k] = Pulse(TRUE, h[k], 0, FALSE)
  BY <1>1, OutPulses
<1>3. /\ SerialWireClockIn(4) \in Seq(Pulses) /\ Len(SerialWireClockIn(4)) = 4
      /\ \A k \in 1 .. 4 : SerialWireClockIn(4)[k] = Floating(TRUE)
  BY InPulses
<1>4. <<0>> \in Seq(Levels) /\ Len(<<0>>) = 1 /\ <<0>>[1] = 0
  BY LevelFacts
<1>5. /\ SerialWireClockOut(<<0>>) \in Seq(Pulses) /\ Len(SerialWireClockOut(<<0>>)) = 1
      /\ \A k \in 1 .. 1 : SerialWireClockOut(<<0>>)[k] = Pulse(TRUE, 0, 0, FALSE)
  <2>1. /\ SerialWireClockOut(<<0>>) \in Seq(Pulses) /\ Len(SerialWireClockOut(<<0>>)) = Len(<<0>>)
        /\ \A k \in 1 .. Len(<<0>>) : SerialWireClockOut(<<0>>)[k] = Pulse(TRUE, <<0>>[k], 0, FALSE)
    BY <1>4, OutPulses
  <2>2. QED
    <3>1. 1 \in 1 .. Len(<<0>>) /\ \A k \in 1 .. 1 : k = 1
      BY <1>4
    <3>2. SerialWireClockOut(<<0>>)[1] = Pulse(TRUE, 0, 0, FALSE)
      BY <1>4, <2>1, <3>1
    <3>3. QED
      BY <1>4, <2>1, <3>1, <3>2
<1> HIDE DEF h, f
<1>6. \A k \in 1 .. 4 : f[4 - k] = Floating(TRUE)
  <2> TAKE k \in 1 .. 4
  <2>1. 5 - k \in Nat \ {0} /\ 5 - k <= 4 /\ (5 - k) - 1 = 4 - k
    OBVIOUS
  <2>2. f[(5 - k) - 1] = Floating(TRUE)
    BY <2>1, HeaderPulseOf DEF f
  <2>3. QED
    BY <2>1, <2>2
<1>7. \A k \in 1 .. 8 : f[12 - k] = Pulse(TRUE, h[k], 0, FALSE)
  <2> TAKE k \in 1 .. 8
  <2>1. /\ 13 - k \in Nat \ {0} /\ 13 - k > 4 /\ 13 - k <= 12 /\ (13 - k) - 1 = 12 - k
        /\ 13 - (13 - k) = k
    OBVIOUS
  <2>2. f[(13 - k) - 1] = Pulse(TRUE, h[13 - (13 - k)], 0, FALSE)
    BY <2>1, HeaderPulseOf DEF f, h
  <2>3. QED
    BY <2>1, <2>2
<1>8. f[13 - 1] = Pulse(TRUE, 0, 0, FALSE)
  <2>1. 13 \in Nat \ {0} /\ 13 > 12
    OBVIOUS
  <2>2. QED
    BY <2>1, HeaderPulseOf DEF f
<1>9. Follows(SerialWireClockIn(4), f, 4, 0)
  <2>a. 4 \in Nat /\ 4 \in Nat /\ 0 \in Nat /\ 4 + 0 = 4
    OBVIOUS
  <2>e. \A k \in 1 .. 4 : SerialWireClockIn(4)[k] = f[4 - k]
    BY <1>3, <1>6
  <2>l. SerialWireClockIn(4) \in Seq(Pulses) /\ Len(SerialWireClockIn(4)) = 4
    BY <1>3
  <2>q. QED
    BY <2>a, <2>e, <2>l, FollowsIs
<1>10. Follows(SerialWireClockOut(h), f, 12, 4)
  <2>a. 8 \in Nat /\ 12 \in Nat /\ 4 \in Nat /\ 8 + 4 = 12
    OBVIOUS
  <2>e. \A k \in 1 .. 8 : SerialWireClockOut(h)[k] = f[12 - k]
    BY <1>2, <1>7
  <2>l. SerialWireClockOut(h) \in Seq(Pulses) /\ Len(SerialWireClockOut(h)) = 8
    BY <1>2
  <2>q. QED
    BY <2>a, <2>e, <2>l, FollowsIs
<1>11. Follows(SWHeader(a), f, 12, 0)
  BY <1>9, <1>10, FollowsOn DEF SWHeader, h
<1>12. Follows(SerialWireClockOut(<<0>>), f, 13, 12)
  <2>1. \A k \in 1 .. 1 : k = 1
    OBVIOUS
  <2>a. 1 \in Nat /\ 13 \in Nat /\ 12 \in Nat /\ 1 + 12 = 13
    OBVIOUS
  <2>e. \A k \in 1 .. 1 : SerialWireClockOut(<<0>>)[k] = f[13 - k]
    BY <1>5, <1>8, <2>1
  <2>l. SerialWireClockOut(<<0>>) \in Seq(Pulses) /\ Len(SerialWireClockOut(<<0>>)) = 1
    BY <1>5
  <2>q. QED
    BY <2>a, <2>e, <2>l, FollowsIs
<1>13. Follows(SerialWireClockOut(<<0>>) \o SWHeader(a), f, 13, 0)
  BY <1>11, <1>12, FollowsOn
<1>14. QED
  BY <1>11, <1>13 DEF f

\* A constant sequence.
LEMMA Repeated ==
    ASSUME NEW n \in Nat, NEW x \in Levels
    PROVE  /\ [k \in 1 .. n |-> x] \in Seq(Levels) /\ Len([k \in 1 .. n |-> x]) = n
           /\ \A k \in 1 .. n : [j \in 1 .. n |-> x][k] = x
<1> DEFINE s == [k \in 1 .. n |-> x]
<1>1. DOMAIN s = 1 .. n /\ s = [k \in 1 .. n |-> s[k]] /\ \A k \in 1 .. n : s[k] = x
  OBVIOUS
<1>2. \A k \in 1 .. n : s[k] \in Levels
  BY <1>1
<1> HIDE DEF s
<1>3. s \in Seq(Levels) /\ Len(s) = n
  BY <1>1, <1>2, Listed
<1>4. QED
  BY <1>1, <1>3 DEF s

\* What a line reset makes.
LEMMA ResetFollows ==
    Follows(SWLineReset(8), ResetPulses, ResetCycles + 8, 0)
<1> DEFINE ones == [k \in 1 .. ResetCycles |-> 1]
           zeros == [k \in 1 .. 8 |-> 0]
<1>1. ResetCycles \in Nat
  BY WireAssumption
<1>2. ones \in Seq(Levels) /\ Len(ones) = ResetCycles /\ \A k \in 1 .. ResetCycles : ones[k] = 1
  BY <1>1, Repeated, LevelFacts
<1>3. zeros \in Seq(Levels) /\ Len(zeros) = 8 /\ \A k \in 1 .. 8 : zeros[k] = 0
  <2>1. 8 \in Nat
    OBVIOUS
  <2>2. QED
    BY <2>1, Repeated, LevelFacts
<1>4. SWLineReset(8) = SerialWireClockOut(ones) \o SerialWireClockOut(zeros)
  BY DEF SWLineReset
<1> HIDE DEF ones, zeros
<1>5. Follows(SerialWireClockOut(zeros), ResetPulses, 8, 0)
  <2>1. /\ SerialWireClockOut(zeros) \in Seq(Pulses) /\ Len(SerialWireClockOut(zeros)) = 8
        /\ \A k \in 1 .. 8 : SerialWireClockOut(zeros)[k] = Pulse(TRUE, zeros[k], 0, FALSE)
    BY <1>3, OutPulses
  <2>2. \A k \in 1 .. 8 : ResetPulses[8 - k] = Pulse(TRUE, 0, 0, FALSE)
    <3> TAKE k \in 1 .. 8
    <3>1. 8 - k \in Nat /\ ~(8 - k >= 8)
      OBVIOUS
    <3>2. QED
      BY <3>1 DEF ResetPulses
  <2>a. 8 \in Nat /\ 8 \in Nat /\ 0 \in Nat /\ 8 + 0 = 8
    OBVIOUS
  <2>e. \A k \in 1 .. 8 : SerialWireClockOut(zeros)[k] = ResetPulses[8 - k]
    BY <1>3, <2>1, <2>2
  <2>l. SerialWireClockOut(zeros) \in Seq(Pulses) /\ Len(SerialWireClockOut(zeros)) = 8
    BY <2>1
  <2>q. QED
    BY <2>a, <2>e, <2>l, FollowsIs
<1>6. Follows(SerialWireClockOut(ones), ResetPulses, ResetCycles + 8, 8)
  <2>1. /\ SerialWireClockOut(ones) \in Seq(Pulses) /\ Len(SerialWireClockOut(ones)) = ResetCycles
        /\ \A k \in 1 .. ResetCycles : SerialWireClockOut(ones)[k] = Pulse(TRUE, ones[k], 0, FALSE)
    BY <1>2, OutPulses
  <2>2. \A k \in 1 .. ResetCycles : ResetPulses[ResetCycles + 8 - k] = Pulse(TRUE, 1, 0, FALSE)
    <3> TAKE k \in 1 .. ResetCycles
    <3>1. ResetCycles + 8 - k \in Nat /\ ResetCycles + 8 - k >= 8
      BY <1>1
    <3>2. QED
      BY <3>1 DEF ResetPulses
  <2> DEFINE n == ResetCycles + 8
  <2>a. ResetCycles \in Nat /\ n \in Nat /\ 8 \in Nat /\ ResetCycles + 8 = n
    BY <1>1
  <2>e. \A k \in 1 .. ResetCycles : SerialWireClockOut(ones)[k] = ResetPulses[n - k]
    <3>1. \A k \in 1 .. ResetCycles : SerialWireClockOut(ones)[k] = ResetPulses[ResetCycles + 8 - k]
      BY <1>2, <2>1, <2>2
    <3>2. QED
      BY <1>1, <3>1 DEF n
  <2>l. SerialWireClockOut(ones) \in Seq(Pulses) /\ Len(SerialWireClockOut(ones)) = ResetCycles
    BY <2>1
  <2> HIDE DEF n
  <2>f. Follows(SerialWireClockOut(ones), ResetPulses, n, 8)
    <3>1. Len(SerialWireClockOut(ones)) + 8 = n
      BY <2>a, <2>l
    <3>2. \A k \in 1 .. Len(SerialWireClockOut(ones)) :
             SerialWireClockOut(ones)[k] = ResetPulses[n - k]
      BY <2>e, <2>l
    <3>3. QED
      BY <2>a, <2>l, <3>1, <3>2 DEF Follows
  <2>q. QED
    BY <2>f DEF n
<1>7. QED
  BY <1>4, <1>5, <1>6, FollowsOn

\* What the reading of a word makes: data, parity and turnaround.
LEMMA ReadFollows ==
    Follows(SWDataRead, ReadPulses, WordBits + 2, 0)
<1>1. WordBits \in Nat /\ WordBits + 2 \in Nat
  BY WireAssumption
<1>2. ASSUME NEW n \in Nat, NEW m \in Nat
      PROVE  Follows(SerialWireClockIn(n), ReadPulses, n + m, m)
  <2>1. /\ SerialWireClockIn(n) \in Seq(Pulses) /\ Len(SerialWireClockIn(n)) = n
        /\ \A k \in 1 .. n : SerialWireClockIn(n)[k] = Floating(TRUE)
    BY InPulses
  <2> DEFINE s == SerialWireClockIn(n)
             l == n + m
  <2>3. s \in Seq(Pulses) /\ Len(s) = n
    BY <2>1
  <2>4. l \in Nat /\ n + m = l
    OBVIOUS
  <2>5. \A k \in 1 .. n : s[k] = Floating(TRUE)
    BY <2>1
  <2>6. \A k \in 1 .. n : l - k \in Nat
    OBVIOUS
  <2> HIDE DEF s, l
  <2>7. \A k \in 1 .. n : ReadPulses[l - k] = Floating(TRUE)
    BY <2>6 DEF ReadPulses
  <2>8. Follows(s, ReadPulses, l, m)
    <3>1. \A k \in 1 .. n : s[k] = ReadPulses[l - k]
      BY <2>5, <2>7
    <3>2. QED
      BY <2>3, <2>4, <3>1, FollowsIs
  <2>9. QED
    BY <2>8 DEF s, l
<1>3. Follows(SerialWireClockIn(2), ReadPulses, 2, 0)
  <2>1. Follows(SerialWireClockIn(2), ReadPulses, 2 + 0, 0)
    BY <1>2
  <2>2. 2 + 0 = 2
    OBVIOUS
  <2>3. QED
    BY <2>1, <2>2
<1>4. Follows(SerialWireClockIn(WordBits), ReadPulses, WordBits + 2, 2)
  BY <1>1, <1>2
<1>5. QED
  BY <1>3, <1>4, FollowsOn DEF SWDataRead

\* What the writing of a word makes: turnaround, data and parity.
LEMMA WriteFollows ==
    ASSUME NEW data \in Words
    PROVE  Follows(SWDataWrite(data), WritePulses(data), WordBits + 2, 0)
<1> DEFINE f == WritePulses(data)
           turn == <<Pulse(FALSE, 0, 0, FALSE)>>
           p == Parity(data)
           par == SerialWireClockOut(<<p>>)
           bits == SerialWireClockOut(data)
<1>1. WordBits \in Nat /\ WordBits # 0
  BY WireAssumption
<1>2. data \in Seq(Levels) /\ Len(data) = WordBits /\ p \in Levels
  BY WordBitsOf, LevelFacts
<1>3. SWDataWrite(data) = (turn \o bits) \o par
  BY DEF SWDataWrite
<1>4. /\ bits \in Seq(Pulses) /\ Len(bits) = WordBits
      /\ \A k \in 1 .. WordBits : bits[k] = Pulse(TRUE, data[k], 0, FALSE)
  BY <1>2, OutPulses
<1>5. \A j \in Nat : f[j] = IF j = 0 THEN Pulse(TRUE, p, 0, FALSE)
                            ELSE IF j <= WordBits THEN Pulse(TRUE, data[WordBits + 1 - j], 0, FALSE)
                            ELSE Floating(FALSE)
  BY DEF WritePulses
<1> HIDE DEF f, p, bits
<1>6. Follows(par, f, 1, 0)
  <2>1. <<p>> \in Seq(Levels) /\ Len(<<p>>) = 1 /\ <<p>>[1] = p
    BY <1>2
  <2>2. /\ par \in Seq(Pulses) /\ Len(par) = Len(<<p>>)
        /\ \A k \in 1 .. Len(<<p>>) : par[k] = Pulse(TRUE, <<p>>[k], 0, FALSE)
    BY <2>1, OutPulses
  <2> HIDE DEF par
  <2>3. Len(par) = 1 /\ \A k \in 1 .. 1 : par[k] = Pulse(TRUE, p, 0, FALSE)
    <3>1. 1 \in 1 .. Len(<<p>>) /\ \A k \in 1 .. 1 : k = 1
      BY <2>1
    <3>2. QED
      BY <2>1, <2>2, <3>1
  <2>4. f[0] = Pulse(TRUE, p, 0, FALSE) /\ \A k \in 1 .. 1 : 1 - k = 0
    <3>1. 0 \in Nat /\ \A k \in 1 .. 1 : 1 - k = 0
      OBVIOUS
    <3>2. QED
      BY <1>5, <3>1
  <2>a. 1 \in Nat /\ 1 \in Nat /\ 0 \in Nat /\ 1 + 0 = 1
    OBVIOUS
  <2>e. \A k \in 1 .. 1 : par[k] = f[1 - k]
    BY <2>3, <2>4
  <2>l. par \in Seq(Pulses) /\ Len(par) = 1
    BY <2>2, <2>3
  <2>q. QED
    BY <2>a, <2>e, <2>l, FollowsIs
<1>7. Follows(bits, f, WordBits + 1, 1)
  <2>1. \A k \in 1 .. WordBits : f[WordBits + 1 - k] = Pulse(TRUE, data[k], 0, FALSE)
    <3> TAKE k \in 1 .. WordBits
    <3> DEFINE j == WordBits + 1 - k
    <3>1. j \in Nat /\ j # 0 /\ j <= WordBits /\ WordBits + 1 - j = k
      BY <1>1
    <3> HIDE DEF j
    <3>2. f[j] = Pulse(TRUE, data[WordBits + 1 - j], 0, FALSE)
      BY <1>5, <3>1
    <3>3. QED
      BY <3>1, <3>2 DEF j
  <2> DEFINE n == WordBits + 1
  <2>a. WordBits \in Nat /\ n \in Nat /\ 1 \in Nat /\ WordBits + 1 = n
    BY <1>1
  <2>e. \A k \in 1 .. WordBits : bits[k] = f[n - k]
    <3>1. \A k \in 1 .. WordBits : bits[k] = f[WordBits + 1 - k]
      BY <1>4, <2>1
    <3>2. QED
      BY <1>1, <3>1 DEF n
  <2>l. bits \in Seq(Pulses) /\ Len(bits) = WordBits
    BY <1>4
  <2> HIDE DEF n
  <2>f. Follows(bits, f, n, 1)
    BY <2>a, <2>e, <2>l, FollowsIs
  <2>q. QED
    BY <2>f DEF n
<1>8. Follows(turn, f, WordBits + 2, WordBits + 1)
  <2>1. Pulse(FALSE, 0, 0, FALSE) \in Pulses
    BY LevelFacts DEF Pulse, Pulses
  <2>2. turn \in Seq(Pulses) /\ Len(turn) = 1 /\ turn[1] = Floating(FALSE)
    <3>1. turn \in Seq(Pulses) /\ Len(turn) = 1
      <4> DEFINE x == Pulse(FALSE, 0, 0, FALSE)
      <4> HIDE DEF x
      <4>1. x \in Pulses
        BY <2>1 DEF x
      <4>2. <<x>> \in Seq(Pulses) /\ Len(<<x>>) = 1
        BY <4>1
      <4>3. QED
        BY <4>2 DEF x
    <3>2. turn[1] = Floating(FALSE)
      BY DEF Floating
    <3>3. QED
      BY <3>1, <3>2
  <2> DEFINE j == WordBits + 2 - 1
  <2>3. j \in Nat /\ j # 0 /\ ~(j <= WordBits)
    BY <1>1
  <2> HIDE DEF j
  <2>4. f[j] = Floating(FALSE)
    BY <1>5, <2>3
  <2>5. \A k \in 1 .. 1 : k = 1
    OBVIOUS
  <2> HIDE DEF turn
  <2>6. \A k \in 1 .. 1 : turn[k] = f[WordBits + 2 - k]
    BY <2>2, <2>4, <2>5 DEF j
  <2> DEFINE n == WordBits + 2
             m == WordBits + 1
  <2>a. 1 \in Nat /\ n \in Nat /\ m \in Nat /\ 1 + m = n
    BY <1>1
  <2>e. \A k \in 1 .. 1 : turn[k] = f[n - k]
    <3>1. \A k \in 1 .. 1 : turn[k] = f[WordBits + 2 - k]
      BY <2>6
    <3>2. QED
      BY <1>1, <3>1 DEF n
  <2>l. turn \in Seq(Pulses) /\ Len(turn) = 1
    BY <2>2
  <2> HIDE DEF n, m
  <2>f. Follows(turn, f, n, m)
    BY <2>a, <2>e, <2>l, FollowsIs
  <2>q. QED
    BY <2>f DEF n, m
<1> HIDE DEF turn, par
<1>9. Follows(turn \o bits, f, WordBits + 2, 1)
  BY <1>7, <1>8, FollowsOn
<1>10. Follows((turn \o bits) \o par, f, WordBits + 2, 0)
  BY <1>6, <1>9, FollowsOn
<1>11. QED
  BY <1>3, <1>10 DEF f

\* What the selection of JTAG makes.
LEMMA TapResetFollows ==
    Follows(SetInterfaceJTAG, TapResetPulses, 6, 0)
<1> DEFINE ones == <<1, 1, 1, 1, 1>>
<1>1. ones \in Seq(Levels) /\ Len(ones) = 5 /\ <<0>> \in Seq(Levels) /\ Len(<<0>>) = 1
  BY LevelFacts
<1>2. \A k \in 1 .. 5 : ones[k] = 1
  <2>1. \A k \in 1 .. 5 : k = 1 \/ k = 2 \/ k = 3 \/ k = 4 \/ k = 5
    OBVIOUS
  <2>2. QED
    BY <2>1
<1> HIDE DEF ones
<1>3. \A j \in Nat : TapResetPulses[j] = Pulse(TRUE, IF j >= 1 THEN 1 ELSE 0, 0, FALSE)
  BY DEF TapResetPulses
<1>4. Follows(JTAGTransition(ones), TapResetPulses, 6, 1)
  <2>1. /\ JTAGTransition(ones) \in Seq(Pulses) /\ Len(JTAGTransition(ones)) = 5
        /\ \A k \in 1 .. 5 : JTAGTransition(ones)[k] = Pulse(TRUE, ones[k], 0, FALSE)
    BY <1>1, TransitionPulses
  <2>2. \A k \in 1 .. 5 : TapResetPulses[6 - k] = Pulse(TRUE, 1, 0, FALSE)
    <3> TAKE k \in 1 .. 5
    <3>1. 6 - k \in Nat /\ 6 - k >= 1
      OBVIOUS
    <3>2. QED
      BY <1>3, <3>1
  <2>3. \A k \in 1 .. 5 : JTAGTransition(ones)[k] = TapResetPulses[6 - k]
    BY <1>2, <2>1, <2>2
  <2>4. 5 \in Nat /\ 6 \in Nat /\ 1 \in Nat /\ 5 + 1 = 6
    OBVIOUS
  <2>5. QED
    BY <2>1, <2>3, <2>4, FollowsIs
<1>5. Follows(JTAGTransition(<<0>>), TapResetPulses, 1, 0)
  <2>1. /\ JTAGTransition(<<0>>) \in Seq(Pulses) /\ Len(JTAGTransition(<<0>>)) = Len(<<0>>)
        /\ \A k \in 1 .. Len(<<0>>) : JTAGTransition(<<0>>)[k] = Pulse(TRUE, <<0>>[k], 0, FALSE)
    BY <1>1, TransitionPulses
  <2>2. JTAGTransition(<<0>>)[1] = Pulse(TRUE, 0, 0, FALSE) /\ Len(JTAGTransition(<<0>>)) = 1
    <3>1. 1 \in 1 .. Len(<<0>>) /\ <<0>>[1] = 0
      BY <1>1
    <3>2. QED
      BY <1>1, <2>1, <3>1
  <2>3. TapResetPulses[0] = Pulse(TRUE, 0, 0, FALSE)
    <3>1. 0 \in Nat /\ ~(0 >= 1)
      OBVIOUS
    <3>2. QED
      BY <1>3, <3>1
  <2>4. \A k \in 1 .. 1 : JTAGTransition(<<0>>)[k] = TapResetPulses[1 - k]
    <3>1. \A k \in 1 .. 1 : k = 1 /\ 1 - k = 0
      OBVIOUS
    <3>2. QED
      BY <2>2, <2>3, <3>1
  <2>5. 1 \in Nat /\ 0 \in Nat /\ 1 + 0 = 1
    OBVIOUS
  <2>6. QED
    BY <2>1, <2>2, <2>4, <2>5, FollowsIs
<1>6. QED
  BY <1>4, <1>5, FollowsOn DEF SetInterfaceJTAG, ones

\* The scan of the data register alone, as it is repeated after a WAIT, and
\* the whole of a scan.
LEMMA ScanFollows ==
    ASSUME NEW code \in Seq(Levels), Len(code) = 4,
           NEW data \in Seq(Levels), NEW w \in Nat \ {0}, w = Len(data)
    PROVE  /\ Follows(JTAGScanDR(data), ScanPulses(code, data), w + 5, 0)
           /\ Follows(JTAGScanIR(code) \o JTAGScanDR(data), ScanPulses(code, data), w + 15, 0)
<1> DEFINE f == ScanPulses(code, data)
           b4 == <<1, 1, 0, 0>>
           b3 == <<1, 0, 0>>
           b2 == <<1, 0>>
<1>1. \A j \in Nat :
         f[j] = IF j <= 1 THEN Pulse(TRUE, j, 0, FALSE)
                ELSE IF j <= w + 1 THEN Pulse(TRUE, IF j = 2 THEN 1 ELSE 0, data[w + 2 - j], TRUE)
                ELSE IF j <= w + 4 THEN Pulse(TRUE, IF j = w + 4 THEN 1 ELSE 0, 0, FALSE)
                ELSE IF j <= w + 6 THEN Pulse(TRUE, IF j = w + 6 THEN 1 ELSE 0, 0, FALSE)
                ELSE IF j <= w + 10
                THEN Pulse(TRUE, IF j = w + 7 THEN 1 ELSE 0, code[w + 11 - j], FALSE)
                ELSE Pulse(TRUE, IF j >= w + 13 THEN 1 ELSE 0, 0, FALSE)
  BY DEF ScanPulses
<1>2. /\ b4 \in Seq(Levels) /\ Len(b4) = 4 /\ b3 \in Seq(Levels) /\ Len(b3) = 3
      /\ b2 \in Seq(Levels) /\ Len(b2) = 2
  BY LevelFacts
<1>3. /\ \A k \in 1 .. 4 : b4[k] = IF k <= 2 THEN 1 ELSE 0
      /\ \A k \in 1 .. 3 : b3[k] = IF k = 1 THEN 1 ELSE 0
      /\ \A k \in 1 .. 2 : b2[k] = IF k = 1 THEN 1 ELSE 0
  <2>1. /\ \A k \in 1 .. 4 : k = 1 \/ k = 2 \/ k = 3 \/ k = 4
        /\ \A k \in 1 .. 3 : k = 1 \/ k = 2 \/ k = 3
        /\ \A k \in 1 .. 2 : k = 1 \/ k = 2
    OBVIOUS
  <2>2. b4[1] = 1 /\ b4[2] = 1 /\ b4[3] = 0 /\ b4[4] = 0
    OBVIOUS
  <2>3. b3[1] = 1 /\ b3[2] = 0 /\ b3[3] = 0 /\ b2[1] = 1 /\ b2[2] = 0
    OBVIOUS
  <2> HIDE DEF b4, b3, b2
  <2>4. 1 <= 2 /\ 2 <= 2 /\ ~(3 <= 2) /\ ~(4 <= 2)
    OBVIOUS
  <2>5. \A k \in 1 .. 4 : b4[k] = IF k <= 2 THEN 1 ELSE 0
    BY <2>1, <2>2, <2>4
  <2>6. QED
    BY <2>1, <2>3, <2>5
<1> HIDE DEF f, b4, b3, b2
<1>4. Follows(JTAGTransition(b2), f, 2, 0)
  <2>1. /\ JTAGTransition(b2) \in Seq(Pulses) /\ Len(JTAGTransition(b2)) = 2
        /\ \A k \in 1 .. 2 : JTAGTransition(b2)[k] = Pulse(TRUE, IF k = 1 THEN 1 ELSE 0, 0, FALSE)
    <3>1. /\ JTAGTransition(b2) \in Seq(Pulses) /\ Len(JTAGTransition(b2)) = 2
          /\ \A k \in 1 .. 2 : JTAGTransition(b2)[k] = Pulse(TRUE, b2[k], 0, FALSE)
      BY <1>2, TransitionPulses
    <3>2. QED
      BY <1>3, <3>1
  <2> DEFINE n == 2
             m == 0
  <2>2. n \in Nat /\ m \in Nat /\ 2 \in Nat /\ 2 + m = n
    OBVIOUS
  <2>3. ASSUME NEW k \in 1 .. 2 PROVE JTAGTransition(b2)[k] = f[n - k]
    <3> DEFINE j == n - k
    <3>1. j \in Nat /\ j <= 1 /\ j = (IF k = 1 THEN 1 ELSE 0)
      OBVIOUS
    <3> HIDE DEF j
    <3>2. f[j] = Pulse(TRUE, j, 0, FALSE)
      BY <1>1, <3>1
    <3>3. f[j] = Pulse(TRUE, IF k = 1 THEN 1 ELSE 0, 0, FALSE)
      BY <3>1, <3>2
    <3>4. QED
      BY <2>1, <3>3 DEF j
  <2> HIDE DEF n, m
  <2>4. Follows(JTAGTransition(b2), f, n, m)
    BY <2>1, <2>2, <2>3, FollowsIs
  <2>5. QED
    BY <2>4 DEF n, m
<1>5. Follows(JTAGShift(data, TRUE), f, w + 2, 2)
  <2>1. /\ JTAGShift(data, TRUE) \in Seq(Pulses) /\ Len(JTAGShift(data, TRUE)) = w
        /\ \A k \in 1 .. w : JTAGShift(data, TRUE)[k] = Pulse(TRUE, IF k = w THEN 1 ELSE 0, data[k], TRUE)
    <3>1. TRUE \in BOOLEAN /\ Len(data) = w /\ data \in Seq(Levels)
      OBVIOUS
    <3>2. /\ JTAGShift(data, TRUE) \in Seq(Pulses) /\ Len(JTAGShift(data, TRUE)) = Len(data)
          /\ \A k \in 1 .. Len(data) :
                JTAGShift(data, TRUE)[k] = Pulse(TRUE, IF k = Len(data) THEN 1 ELSE 0, data[k], TRUE)
      BY <3>1, ShiftPulses, Zenon
    <3>3. QED
      BY <3>1, <3>2
  <2> DEFINE n == w + 2
             m == 2
  <2>2. n \in Nat /\ m \in Nat /\ w \in Nat /\ w + m = n
    OBVIOUS
  <2>3. ASSUME NEW k \in 1 .. w PROVE JTAGShift(data, TRUE)[k] = f[n - k]
    <3> DEFINE j == n - k
    <3>1. j \in Nat /\ ~(j <= 1) /\ j <= w + 1 /\ (j = 2 <=> k = w) /\ w + 2 - j = k
      OBVIOUS
    <3> HIDE DEF j
    <3>2. f[j] = Pulse(TRUE, IF j = 2 THEN 1 ELSE 0, data[w + 2 - j], TRUE)
      BY <1>1, <3>1
    <3>3. f[j] = Pulse(TRUE, IF k = w THEN 1 ELSE 0, data[k], TRUE)
      BY <3>1, <3>2
    <3>4. QED
      BY <2>1, <3>3 DEF j
  <2> HIDE DEF n, m
  <2>4. Follows(JTAGShift(data, TRUE), f, n, m)
    BY <2>1, <2>2, <2>3, FollowsIs
  <2>5. QED
    BY <2>4 DEF n, m
<1>6. Follows(JTAGTransition(b3), f, w + 5, w + 2)
  <2>1. /\ JTAGTransition(b3) \in Seq(Pulses) /\ Len(JTAGTransition(b3)) = 3
        /\ \A k \in 1 .. 3 : JTAGTransition(b3)[k] = Pulse(TRUE, IF k = 1 THEN 1 ELSE 0, 0, FALSE)
    <3>1. /\ JTAGTransition(b3) \in Seq(Pulses) /\ Len(JTAGTransition(b3)) = 3
          /\ \A k \in 1 .. 3 : JTAGTransition(b3)[k] = Pulse(TRUE, b3[k], 0, FALSE)
      BY <1>2, TransitionPulses
    <3>2. QED
      BY <1>3, <3>1
  <2> DEFINE n == w + 5
             m == w + 2
  <2>2. n \in Nat /\ m \in Nat /\ 3 \in Nat /\ 3 + m = n
    OBVIOUS
  <2>3. ASSUME NEW k \in 1 .. 3 PROVE JTAGTransition(b3)[k] = f[n - k]
    <3> DEFINE j == n - k
    <3>1. j \in Nat /\ ~(j <= 1) /\ ~(j <= w + 1) /\ j <= w + 4 /\ (j = w + 4 <=> k = 1)
      OBVIOUS
    <3> HIDE DEF j
    <3>2. f[j] = Pulse(TRUE, IF j = w + 4 THEN 1 ELSE 0, 0, FALSE)
      BY <1>1, <3>1
    <3>3. f[j] = Pulse(TRUE, IF k = 1 THEN 1 ELSE 0, 0, FALSE)
      BY <3>1, <3>2
    <3>4. QED
      BY <2>1, <3>3 DEF j
  <2> HIDE DEF n, m
  <2>4. Follows(JTAGTransition(b3), f, n, m)
    BY <2>1, <2>2, <2>3, FollowsIs
  <2>5. QED
    BY <2>4 DEF n, m
<1>7. Follows(JTAGScanDR(data), f, w + 5, 0)
  <2>1. JTAGScanDR(data) = (JTAGTransition(b3) \o JTAGShift(data, TRUE)) \o JTAGTransition(b2)
    BY DEF JTAGScanDR, b3, b2
  <2>2. Follows(JTAGTransition(b3) \o JTAGShift(data, TRUE), f, w + 5, 2)
    BY <1>5, <1>6, FollowsOn
  <2>3. QED
    BY <1>4, <2>1, <2>2, FollowsOn
<1>8. Follows(JTAGTransition(b2), f, w + 7, w + 5)
  <2>1. /\ JTAGTransition(b2) \in Seq(Pulses) /\ Len(JTAGTransition(b2)) = 2
        /\ \A k \in 1 .. 2 : JTAGTransition(b2)[k] = Pulse(TRUE, IF k = 1 THEN 1 ELSE 0, 0, FALSE)
    <3>1. /\ JTAGTransition(b2) \in Seq(Pulses) /\ Len(JTAGTransition(b2)) = 2
          /\ \A k \in 1 .. 2 : JTAGTransition(b2)[k] = Pulse(TRUE, b2[k], 0, FALSE)
      BY <1>2, TransitionPulses
    <3>2. QED
      BY <1>3, <3>1
  <2> DEFINE n == w + 7
             m == w + 5
  <2>2. n \in Nat /\ m \in Nat /\ 2 \in Nat /\ 2 + m = n
    OBVIOUS
  <2>3. ASSUME NEW k \in 1 .. 2 PROVE JTAGTransition(b2)[k] = f[n - k]
    <3> DEFINE j == n - k
    <3>1. j \in Nat /\ ~(j <= 1) /\ ~(j <= w + 1) /\ ~(j <= w + 4) /\ j <= w + 6 /\ (j = w + 6 <=> k = 1)
      OBVIOUS
    <3> HIDE DEF j
    <3>2. f[j] = Pulse(TRUE, IF j = w + 6 THEN 1 ELSE 0, 0, FALSE)
      BY <1>1, <3>1
    <3>3. f[j] = Pulse(TRUE, IF k = 1 THEN 1 ELSE 0, 0, FALSE)
      BY <3>1, <3>2
    <3>4. QED
      BY <2>1, <3>3 DEF j
  <2> HIDE DEF n, m
  <2>4. Follows(JTAGTransition(b2), f, n, m)
    BY <2>1, <2>2, <2>3, FollowsIs
  <2>5. QED
    BY <2>4 DEF n, m
<1>9. Follows(JTAGShift(code, FALSE), f, w + 11, w + 7)
  <2>1. /\ JTAGShift(code, FALSE) \in Seq(Pulses) /\ Len(JTAGShift(code, FALSE)) = 4
        /\ \A k \in 1 .. 4 : JTAGShift(code, FALSE)[k] = Pulse(TRUE, IF k = 4 THEN 1 ELSE 0, code[k], FALSE)
    <3>1. FALSE \in BOOLEAN /\ Len(code) = 4 /\ code \in Seq(Levels)
      OBVIOUS
    <3>2. /\ JTAGShift(code, FALSE) \in Seq(Pulses) /\ Len(JTAGShift(code, FALSE)) = Len(code)
          /\ \A k \in 1 .. Len(code) :
                JTAGShift(code, FALSE)[k] = Pulse(TRUE, IF k = Len(code) THEN 1 ELSE 0, code[k], FALSE)
      BY <3>1, ShiftPulses, Zenon
    <3>3. QED
      BY <3>1, <3>2
  <2> DEFINE n == w + 11
             m == w + 7
  <2>2. n \in Nat /\ m \in Nat /\ 4 \in Nat /\ 4 + m = n
    OBVIOUS
  <2>3. ASSUME NEW k \in 1 .. 4 PROVE JTAGShift(code, FALSE)[k] = f[n - k]
    <3> DEFINE j == n - k
    <3>1. j \in Nat /\ ~(j <= 1) /\ ~(j <= w + 1) /\ ~(j <= w + 4) /\ ~(j <= w + 6) /\ j <= w + 10
          /\ (j = w + 7 <=> k = 4) /\ w + 11 - j = k
      OBVIOUS
    <3> HIDE DEF j
    <3>2. f[j] = Pulse(TRUE, IF j = w + 7 THEN 1 ELSE 0, code[w + 11 - j], FALSE)
      BY <1>1, <3>1
    <3>3. f[j] = Pulse(TRUE, IF k = 4 THEN 1 ELSE 0, code[k], FALSE)
      BY <3>1, <3>2
    <3>4. QED
      BY <2>1, <3>3 DEF j
  <2> HIDE DEF n, m
  <2>4. Follows(JTAGShift(code, FALSE), f, n, m)
    BY <2>1, <2>2, <2>3, FollowsIs
  <2>5. QED
    BY <2>4 DEF n, m
<1>10. Follows(JTAGTransition(b4), f, w + 15, w + 11)
  <2>1. /\ JTAGTransition(b4) \in Seq(Pulses) /\ Len(JTAGTransition(b4)) = 4
        /\ \A k \in 1 .. 4 : JTAGTransition(b4)[k] = Pulse(TRUE, IF k <= 2 THEN 1 ELSE 0, 0, FALSE)
    <3>1. /\ JTAGTransition(b4) \in Seq(Pulses) /\ Len(JTAGTransition(b4)) = 4
          /\ \A k \in 1 .. 4 : JTAGTransition(b4)[k] = Pulse(TRUE, b4[k], 0, FALSE)
      BY <1>2, TransitionPulses
    <3>2. QED
      BY <1>3, <3>1
  <2> DEFINE n == w + 15
             m == w + 11
  <2>2. n \in Nat /\ m \in Nat /\ 4 \in Nat /\ 4 + m = n
    OBVIOUS
  <2>3. ASSUME NEW k \in 1 .. 4 PROVE JTAGTransition(b4)[k] = f[n - k]
    <3> DEFINE j == n - k
    <3>1. j \in Nat /\ ~(j <= 1) /\ ~(j <= w + 1) /\ ~(j <= w + 4) /\ ~(j <= w + 6) /\ ~(j <= w + 10)
          /\ (j >= w + 13 <=> k <= 2)
      OBVIOUS
    <3> HIDE DEF j
    <3>2. f[j] = Pulse(TRUE, IF j >= w + 13 THEN 1 ELSE 0, 0, FALSE)
      BY <1>1, <3>1
    <3>3. f[j] = Pulse(TRUE, IF k <= 2 THEN 1 ELSE 0, 0, FALSE)
      BY <3>1, <3>2
    <3>4. QED
      BY <2>1, <3>3 DEF j
  <2> HIDE DEF n, m
  <2>4. Follows(JTAGTransition(b4), f, n, m)
    BY <2>1, <2>2, <2>3, FollowsIs
  <2>5. QED
    BY <2>4 DEF n, m
<1>11. Follows(JTAGScanIR(code), f, w + 15, w + 5)
  <2>1. JTAGScanIR(code) = (JTAGTransition(b4) \o JTAGShift(code, FALSE)) \o JTAGTransition(b2)
    BY DEF JTAGScanIR, b4, b2
  <2>2. Follows(JTAGTransition(b4) \o JTAGShift(code, FALSE), f, w + 15, w + 7)
    BY <1>9, <1>10, FollowsOn
  <2>3. QED
    BY <1>8, <2>1, <2>2, FollowsOn
<1>12. QED
  BY <1>7, <1>11, FollowsOn DEF f

-----------------------------------------------------------------------------
(* JTAG: a clock pulse.                                                    *)

\* The reset: five clocks with TMS high from anywhere, one with TMS low.
LEMMA ResetStep ==
    ASSUME NEW n \in 1 .. 6, NEW p \in JtagPorts, NEW tms, tms = IF n - 1 >= 1 THEN 1 ELSE 0,
           p.state \in ResetIn(n - 1), n = 6 => p.shift # <<>>, waits \in Nat,
           NEW q \in TapEdge(p, tms, 0)
    PROVE  q \in JtagPorts /\ IF n = 1 THEN q.state = "RunTest" ELSE q.state \in ResetIn(n - 2)
<1>1. tms \in {0, 1}
  OBVIOUS
<1>2. n = 1 \/ n = 2 \/ n = 3 \/ n = 4 \/ n = 5 \/ n = 6
  OBVIOUS
<1>3. p.state \in {"ShiftDR", "ShiftIR"} => p.shift # <<>>
  <2>1. /\ "ShiftDR" \notin ResetIn(0) /\ "ShiftIR" \notin ResetIn(0)
        /\ "ShiftDR" \notin ResetIn(1) /\ "ShiftIR" \notin ResetIn(1)
        /\ "ShiftDR" \notin ResetIn(2) /\ "ShiftIR" \notin ResetIn(2)
    BY DEF ResetIn
  <2>2. /\ "ShiftDR" \notin ResetIn(3) /\ "ShiftIR" \notin ResetIn(3)
        /\ "ShiftDR" \notin ResetIn(4) /\ "ShiftIR" \notin ResetIn(4)
    BY DEF ResetIn
  <2>3. n = 6 \/ n - 1 = 0 \/ n - 1 = 1 \/ n - 1 = 2 \/ n - 1 = 3 \/ n - 1 = 4
    BY <1>2
  <2>4. QED
    BY <2>1, <2>2, <2>3
<1>4. q \in JtagPorts /\ q.state = Tap[p.state][tms + 1]
  BY <1>1, <1>3, LevelFacts, TapMoved
<1>5. CASE n = 1
  <2>1. n - 1 = 0 /\ tms + 1 = 1
    BY <1>5
  <2>2. QED
    BY <1>4, <1>5, <2>1, ResetMoves
<1>6. CASE n # 1
  <2>1. tms = 1 /\ tms + 1 = 2
    BY <1>6
  <2>2. \/ n - 1 = 1 /\ n - 2 = 0
        \/ n - 1 = 2 /\ n - 2 = 1
        \/ n - 1 = 3 /\ n - 2 = 2
        \/ n - 1 = 4 /\ n - 2 = 3
        \/ n - 1 = 5 /\ n - 2 = 4
    BY <1>2, <1>6
  <2>3. q.state = Tap[p.state][2]
    BY <1>4, <2>1
  <2>4. q.state \in ResetIn(n - 2)
    BY <2>2, <2>3, ResetMoves
  <2>5. QED
    BY <1>4, <1>6, <2>4
<1>7. QED
  BY <1>5, <1>6

\* A clock of the reset of the TAP.
LEMMA JtagSelectingClock ==
    ASSUME JtagTyped, JtagSelecting, HostClocked, waits \in Nat,
           port' \in TapEdge(port, host.pulses[1].level, host.pulses[1].tdi)
    PROVE  JtagTyped' /\ JtagSelecting'
<1>1. Left \in Nat /\ Left >= 1 /\ Left' = Left - 1 /\ Left <= 6
  BY DEF HostClocked, JtagSelecting
<1>2. host.pulses[1].level = (IF Left - 1 >= 1 THEN 1 ELSE 0) /\ host.pulses[1].tdi = 0
  <2>1. host.pulses[1] = TapResetPulses[Left - 1] /\ Left - 1 \in Nat
    BY PulsesFollow DEF JtagSelecting
  <2>2. host.pulses[1] = Pulse(TRUE, IF Left - 1 >= 1 THEN 1 ELSE 0, 0, FALSE)
    BY <2>1 DEF TapResetPulses
  <2>3. QED
    BY <2>2 DEF Pulse
<1>3. Left \in 1 .. 6 /\ Left' # 6 /\ Left' <= 6
  BY <1>1
<1>4. port.state \in ResetIn(Left - 1) /\ (Left = 6 => port.shift # <<>>)
  <2>1. Left # 0
    BY <1>1
  <2>2. QED
    BY <2>1 DEF JtagSelecting
<1>5. /\ port' \in JtagPorts
      /\ IF Left = 1 THEN port'.state = "RunTest" ELSE port'.state \in ResetIn(Left - 2)
  <2>1. port \in JtagPorts
    BY DEF JtagTyped
  <2>2. port' \in TapEdge(port, IF Left - 1 >= 1 THEN 1 ELSE 0, 0)
    BY <1>2
  <2>3. QED
    BY <1>3, <1>4, <2>1, <2>2, ResetStep
<1>6. Left' = 0 <=> Left = 1
  BY <1>1
<1>7. Left' - 1 = Left - 2
  BY <1>1
<1>8. port'.state \in IF Left' = 0 THEN {"RunTest"} ELSE ResetIn(Left' - 1)
  BY <1>5, <1>6, <1>7
<1>9. host'.stage = "select" /\ Making(TapResetPulses)'
  BY PulsesFollow DEF JtagSelecting, HostClocked, Making
<1>10. QED
  BY <1>3, <1>5, <1>8, <1>9 DEF JtagTyped, JtagSelecting

\* A scan's code and data.
LEMMA CodeFacts ==
    /\ JTAG_IDCODE \in Seq(Levels) /\ Len(JTAG_IDCODE) = 4
    /\ JTAG_APACC \in Seq(Levels) /\ Len(JTAG_APACC) = 4
    /\ JTAG_DPACC \in Seq(Levels) /\ Len(JTAG_DPACC) = 4
    /\ JTAG_APACC # JTAG_IDCODE /\ JTAG_DPACC # JTAG_IDCODE
BY LevelFacts DEF JTAG_IDCODE, JTAG_APACC, JTAG_DPACC

\* The code and the data of a scan, and their lengths.
LEMMA ScanTarget ==
    ASSUME NEW h, h.access \in Accesses
    PROVE  /\ ScanCode(h) \in Seq(Levels) /\ Len(ScanCode(h)) = 4
           /\ ScanData(h) \in Seq(Levels) /\ Len(ScanData(h)) \in Nat \ {0}
           /\ Len(ScanData(h)) = IF ScanCode(h) = JTAG_IDCODE THEN 3 ELSE WordBits + 3
           /\ ScanCode(h) = JTAG_IDCODE <=> h.stage = "scan id"
<1>1. h.access.rnw \in {0, 1} /\ h.access.addr \in {<<0, 0>>, <<1, 0>>} /\ h.access.data \in Words
  BY DEF Accesses
<1>2. AccessCode(h.access) \in Seq(Levels) /\ Len(AccessCode(h.access)) = 3
  <2>1. <<h.access.rnw>> \in Seq(Levels) /\ Len(<<h.access.rnw>>) = 1
    BY <1>1, LevelFacts
  <2>2. h.access.addr \in Seq(Levels) /\ Len(h.access.addr) = 2
    <3>1. /\ <<0, 0>> \in Seq(Levels) /\ Len(<<0, 0>>) = 2
          /\ <<1, 0>> \in Seq(Levels) /\ Len(<<1, 0>>) = 2
      BY LevelFacts
    <3>2. h.access.addr = <<0, 0>> \/ h.access.addr = <<1, 0>>
      BY <1>1
    <3>3. QED
      BY <3>1, <3>2
  <2> DEFINE s == <<h.access.rnw>>
             t == h.access.addr
  <2>3. AccessCode(h.access) = s \o t
    BY DEF AccessCode
  <2>4. s \in Seq(Levels) /\ t \in Seq(Levels) /\ Len(s) = 1 /\ Len(t) = 2
    BY <2>1, <2>2
  <2> HIDE DEF s, t
  <2>5. s \o t \in Seq(Levels) /\ Len(s \o t) = Len(s) + Len(t)
    BY <2>4, Joined
  <2>6. QED
    BY <2>3, <2>4, <2>5
<1>3. h.access.data \in Seq(Levels) /\ Len(h.access.data) = WordBits /\ WordBits \in Nat
  BY <1>1, WordBitsOf, WireAssumption
<1>4. /\ AccessCode(h.access) \o h.access.data \in Seq(Levels)
      /\ Len(AccessCode(h.access) \o h.access.data) = WordBits + 3
  <2> DEFINE s == AccessCode(h.access)
             t == h.access.data
  <2>1. s \in Seq(Levels) /\ t \in Seq(Levels) /\ Len(s) = 3 /\ Len(t) = WordBits
    BY <1>2, <1>3
  <2> HIDE DEF s, t
  <2>2. s \o t \in Seq(Levels) /\ Len(s \o t) = Len(s) + Len(t)
    BY <2>1, Joined
  <2>3. s \o t \in Seq(Levels) /\ Len(s \o t) = WordBits + 3
    BY <1>3, <2>1, <2>2
  <2>4. QED
    BY <2>3 DEF s, t
<1>5. <<0, 0, 0>> \in Seq(Levels) /\ Len(<<0, 0, 0>>) = 3
  BY LevelFacts
<1>6. ScanCode(h) = JTAG_IDCODE <=> h.stage = "scan id"
  BY CodeFacts DEF ScanCode
<1>7. ScanCode(h) \in Seq(Levels) /\ Len(ScanCode(h)) = 4
  BY CodeFacts DEF ScanCode
<1>8. /\ ScanData(h) \in Seq(Levels)
      /\ Len(ScanData(h)) = IF ScanCode(h) = JTAG_IDCODE THEN 3 ELSE WordBits + 3
  BY <1>4, <1>5, <1>6 DEF ScanData
<1>9. Len(ScanData(h)) \in Nat \ {0}
  BY <1>3, <1>8
<1>10. QED
  BY <1>6, <1>7, <1>8, <1>9

\* The level the tester sees over JTAG: the port shifts out its lowest bit.
LEMMA JtagSeen ==
    ASSUME JtagTyped
    PROVE  port.kind = "jtag" /\ Seen \in Levels /\ (port.shift # <<>> => Seen = port.shift[1])
<1>1. port.kind = "jtag" /\ port.shift \in Seq(Levels)
  BY DEF JtagTyped, JtagPorts
<1>2. CASE port.shift = <<>>
  BY <1>1, <1>2, LevelFacts DEF Seen
<1>3. CASE port.shift # <<>>
  <2>1. Head(port.shift) = port.shift[1] /\ port.shift[1] \in Levels
    BY <1>1, <1>3, Shifted
  <2>2. QED
    BY <1>1, <1>3, <2>1 DEF Seen
<1>4. QED
  BY <1>2, <1>3

\* A step of the scan of a stage.
AfterScan(n, q, kept, code, data, w) ==
    q \in JtagPorts /\ Scanning(n - 1, q, kept, code, data, w)

\* A pulse of a scan leaves the scan of one pulse fewer.
LEMMA ScanStep ==
    ASSUME NEW code \in Seq(Levels), Len(code) = 4,
           NEW data \in Seq(Levels), NEW w \in Nat \ {0}, w = Len(data),
           w = IF code = JTAG_IDCODE THEN 3 ELSE WordBits + 3,
           NEW n \in Nat \ {0}, NEW c, c = ScanPulses(code, data)[n - 1],
           NEW p \in JtagPorts, NEW q \in TapEdge(p, c.level, c.tdi), waits \in Nat,
           NEW got \in Seq(Levels), NEW seen \in Levels, p.shift # <<>> => seen = p.shift[1],
           NEW kept, kept = IF c.keep THEN Append(got, seen) ELSE got,
           Scanning(n, p, got, code, data, w)
    PROVE  AfterScan(n, q, kept, code, data, w)
<1>1. CASE ScanningIR(n, p, code, w) /\ got = <<>>
  <2>1. ScanningIR(n, p, code, w)
    BY <1>1
  <2>2. AfterIR(n, q, c, code, w)
    BY <2>1, ScanIRStep
  <2>3. kept = <<>>
    BY <1>1, <2>2 DEF AfterIR
  <2>4. QED
    BY <2>2, <2>3 DEF AfterIR, AfterScan, Scanning, ScanningDR
<1>2. CASE ScanningDR(n, p, got, code, data, w)
  <2>1. AfterDR(n, q, kept, code, data, w)
    BY <1>2, ScanDRStep
  <2>2. QED
    BY <2>1 DEF AfterDR, AfterScan, Scanning
<1>3. QED
  BY <1>1, <1>2 DEF Scanning

\* A scan: what the port's registers hold follows the pulses left.
LEMMA ScanningClock ==
    ASSUME HostTyped, JtagTyped, JtagScanning, HostClocked, waits \in Nat,
           port' \in TapEdge(port, host.pulses[1].level, host.pulses[1].tdi)
    PROVE  JtagTyped' /\ JtagScanning'
<1> DEFINE code == ScanCode(host)
           data == ScanData(host)
           w == Len(ScanData(host))
           c == host.pulses[1]
<1>1. Left \in Nat /\ Left >= 1 /\ Left' = Left - 1 /\ Left \in Nat \ {0}
  BY DEF HostClocked
<1>2. /\ code \in Seq(Levels) /\ Len(code) = 4 /\ data \in Seq(Levels) /\ w \in Nat \ {0}
      /\ w = Len(data) /\ w = IF code = JTAG_IDCODE THEN 3 ELSE WordBits + 3
  BY ScanTarget DEF HostTyped
<1>3. /\ host.stage \in {"scan id", "scan"} /\ Making(ScanPulses(code, data))
      /\ Scanning(Left, port, host.got, code, data, w)
  BY DEF JtagScanning
<1>4. /\ host'.stage = host.stage /\ ScanCode(host') = code /\ ScanData(host') = data
      /\ host'.got = IF c.keep THEN Append(host.got, Seen) ELSE host.got
  BY DEF HostClocked, ScanCode, ScanData
<1>5. port \in JtagPorts /\ Seen \in Levels /\ (port.shift # <<>> => Seen = port.shift[1])
      /\ host.got \in Seq(Levels)
  BY JtagSeen DEF JtagTyped, HostTyped
<1> DEFINE f == ScanPulses(code, data)
<1>6. c = f[Left - 1] /\ \A k \in 1 .. Left' : host'.pulses[k] = f[Left' - k]
  BY <1>3, PulsesFollow
<1>7. port' \in TapEdge(port, c.level, c.tdi)
  OBVIOUS
<1> HIDE DEF code, data, w, c, f
<1> DEFINE n == Left
           p == port
           q == port'
           got == host.got
           kept == host'.got
           seen == Seen
<1>8. /\ n \in Nat \ {0} /\ c = ScanPulses(code, data)[n - 1] /\ p \in JtagPorts
      /\ q \in TapEdge(p, c.level, c.tdi) /\ got \in Seq(Levels) /\ seen \in Levels
      /\ p.shift # <<>> => seen = p.shift[1]
      /\ kept = IF c.keep THEN Append(got, seen) ELSE got
      /\ Scanning(n, p, got, code, data, w) /\ Left' = n - 1
  BY <1>1, <1>3, <1>4, <1>5, <1>6, <1>7 DEF f
<1> HIDE DEF n, p, q, got, kept, seen
<1>9. AfterScan(n, q, kept, code, data, w)
  BY <1>2, <1>8, ScanStep
<1>10. port' \in JtagPorts /\ Scanning(Left', port', host'.got, code, data, w)
  BY <1>8, <1>9 DEF q, kept, AfterScan
<1>11. QED
  <2>1. Making(ScanPulses(ScanCode(host), ScanData(host)))'
         <=> \A k \in 1 .. Left' : host'.pulses[k] = ScanPulses(ScanCode(host'), ScanData(host'))[Left' - k]
    BY DEF Making
  <2>2. host'.stage \in {"scan id", "scan"}
    BY <1>3, <1>4
  <2>3. \A k \in 1 .. Left' : host'.pulses[k] = ScanPulses(ScanCode(host'), ScanData(host'))[Left' - k]
    BY <1>4, <1>6 DEF f
  <2>4. Scanning(Left', port', host'.got, ScanCode(host'), ScanData(host'), Len(ScanData(host')))
    BY <1>4, <1>10 DEF code, data, w
  <2>5. QED
    BY <1>10, <2>1, <2>2, <2>3, <2>4 DEF JtagTyped, JtagScanning

-----------------------------------------------------------------------------
(* Every step keeps the two ends in step.                                  *)

\* A clock pulse.
LEMMA ClockKeeps ==
    ASSUME Inv, Clock
    PROVE  Inv'
<1>1. HostTyped /\ waits \in Nat
  BY DEF Inv
<1>2. CASE SwInv
  <2>1. port.kind = "sw" /\ Seen \in Levels /\ (Drives(port) => Seen = port.shift[1])
    BY <1>1, <1>2, SwSeen
  <2>2. HostTyped' /\ HostClocked /\ waits' = waits /\ port' \in SwdEdge(port, Line)
    BY <1>1, <2>1, PulseMade
  <2>3. SwTyped
    BY <1>2 DEF SwInv
  <2>4. CASE SwSelecting
    BY <1>1, <2>2, <2>3, <2>4, SelectingClock DEF Inv, SwInv
  <2>5. CASE SwHeading
    BY <1>1, <2>1, <2>2, <2>3, <2>5, HeadingClock DEF Inv, SwInv
  <2>6. CASE SwReading
    BY <1>1, <2>1, <2>2, <2>3, <2>6, ReadingClock DEF Inv, SwInv
  <2>7. CASE SwWriting
    BY <1>1, <2>2, <2>3, <2>7, WritingClock DEF Inv, SwInv
  <2>8. CASE SwResting
    BY <1>1, <2>2, <2>3, <2>8, RestingClock DEF Inv, SwInv
  <2>9. QED
    BY <1>2, <2>4, <2>5, <2>6, <2>7, <2>8 DEF SwInv
<1>3. CASE JtagInv
  <2>1. JtagTyped
    BY <1>3 DEF JtagInv
  <2>2. port.kind = "jtag" /\ Seen \in Levels
    BY <2>1, JtagSeen
  <2>3. /\ HostTyped' /\ HostClocked /\ waits' = waits
        /\ port' \in TapEdge(port, host.pulses[1].level, host.pulses[1].tdi)
    BY <1>1, <2>2, PulseMade
  <2>4. CASE JtagSelecting
    BY <1>1, <2>1, <2>3, <2>4, JtagSelectingClock DEF Inv, JtagInv
  <2>5. CASE JtagScanning
    BY <1>1, <2>1, <2>3, <2>5, ScanningClock DEF Inv, JtagInv
  <2>6. CASE JtagResting
    <3>1. Left >= 1 /\ Left = 0
      BY <2>3, <2>6 DEF HostClocked, JtagResting
    <3>2. QED
      BY <3>1
  <2>7. QED
    BY <1>3, <2>4, <2>5, <2>6 DEF JtagInv
<1>4. QED
  BY <1>2, <1>3 DEF Inv

\* A stage that begins.
LEMMA Begun ==
    ASSUME NEW stage \in Stages, NEW a \in Accesses, NEW s, NEW f, NEW n, Follows(s, f, n, 0),
           host' = Stage(stage, a, s)
    PROVE  /\ HostTyped' /\ host'.stage = stage /\ host'.access = a /\ host'.got = <<>>
           /\ Left' = n /\ n \in Nat /\ \A k \in 1 .. Left' : host'.pulses[k] = f[Left' - k]
<1>1. s \in Seq(Pulses) /\ Len(s) = n /\ n \in Nat /\ \A k \in 1 .. n : s[k] = f[n - k]
  <2>1. s \in Seq(Pulses) /\ n \in Nat /\ Len(s) + 0 = n /\ \A k \in 1 .. Len(s) : s[k] = f[n - k]
    BY DEF Follows
  <2>2. Len(s) = n
    BY <2>1
  <2>3. QED
    BY <2>1, <2>2
<1>2. /\ host'.stage = stage /\ host'.access = a /\ host'.got = <<>> /\ host'.pulses = s
      /\ host' = [stage |-> stage, access |-> a, pulses |-> s, got |-> <<>>]
  BY DEF Stage
<1>3. <<>> \in Seq(Levels)
  OBVIOUS
<1>4. HostTyped'
  BY <1>1, <1>2, <1>3 DEF HostTyped
<1>5. Left' = n
  BY <1>1, <1>2 DEF Left
<1>6. QED
  BY <1>1, <1>2, <1>4, <1>5

\* A stage that ends at rest.
LEMMA Finished ==
    ASSUME HostTyped, host.pulses = <<>>, Finish
    PROVE  /\ HostTyped' /\ host'.stage = "rest" /\ Left' = 0 /\ port' = port
<1>1. host' = [host EXCEPT !.stage = "rest"] /\ "rest" \in Stages /\ port' = port
  BY DEF Finish, Stages
<1>2. HostTyped' /\ host'.stage = "rest" /\ host'.pulses = <<>>
  BY <1>1 DEF HostTyped
<1>3. QED
  BY <1>1, <1>2 DEF Left

\* A scan whose pulses are made.
LEMMA ScanOver ==
    ASSUME HostTyped, JtagTyped, JtagScanning, host.pulses = <<>>
    PROVE  /\ port.state = "RunTest" /\ port.ir = ScanCode(host) /\ port.taken = ScanData(host)
           /\ host.got = port.shown
           /\ host.stage = "scan id" => port.shown = IdCode
<1> DEFINE code == ScanCode(host)
           data == ScanData(host)
           w == Len(data)
<1>1. w \in Nat \ {0} /\ (host.stage = "scan id" => code = JTAG_IDCODE)
  BY ScanTarget DEF HostTyped
<1>2. Left = 0
  BY DEF Left
<1>3. Scanning(0, port, host.got, code, data, w)
  BY <1>2 DEF JtagScanning
<1> HIDE DEF code, data, w
<1>4. 0 # w + 15 /\ 0 # w + 14 /\ 0 # w + 13 /\ 0 # w + 12 /\ 0 \notin w + 8 .. w + 11
      /\ 0 # w + 7 /\ 0 # w + 6 /\ 0 # w + 5 /\ 0 # w + 4 /\ 0 # w + 3
      /\ 0 \notin 3 .. w + 2
  <2>1. w \in Nat /\ w # 0
    BY <1>1
  <2>2. QED
    BY <2>1
<1>5. ~ScanningIR(0, port, code, w)
  BY <1>4 DEF ScanningIR
<1>6. ScanningDR(0, port, host.got, code, data, w)
  BY <1>3, <1>5 DEF Scanning
<1>7. port.ir = code /\ ShiftingDR(0, port, host.got, data, w) /\ (code = JTAG_IDCODE => port.shown = IdCode)
  BY <1>4, <1>6 DEF ScanningDR
<1>8. /\ Len(port.shown) = w /\ Len(host.got) = w /\ port.state = "RunTest" /\ port.taken = data
      /\ \A k \in 1 .. Len(host.got) : host.got[k] = port.shown[k]
  BY <1>4, <1>7 DEF ShiftingDR
<1>9. port.shown \in Seq(Levels) /\ host.got \in Seq(Levels)
  BY DEF HostTyped, JtagTyped, JtagPorts
<1>10. host.got = port.shown
  BY <1>8, <1>9, SeqEqual
<1>11. QED
  BY <1>1, <1>7, <1>8, <1>10 DEF code, data

-----------------------------------------------------------------------------
(* The actions between the pulses.                                         *)

\* With no pulse left, the stage tells what there is to know.
LEMMA AtEnd ==
    ASSUME Inv, host.pulses = <<>>
    PROVE  /\ HostTyped /\ Left = 0 /\ waits \in Nat
           /\ \/ SwInv /\ port.kind = "sw" /\ SwTyped
              \/ JtagInv /\ port.kind = "jtag" /\ JtagTyped
BY DEF Inv, SwInv, SwTyped, SwPorts, JtagInv, JtagTyped, JtagPorts, Left

\* The end of a selection: the port rests.
LEMMA EndOfSelect ==
    ASSUME Inv, host.pulses = <<>>, host.stage = "select"
    PROVE  (SwTyped /\ port.phase = "idle") \/ (JtagTyped /\ port.state = "RunTest")
<1>1. HostTyped /\ Left = 0 /\ ~(Left >= 8) /\ ~(Left > 8)
  BY AtEnd
<1>2. CASE SwInv
  <2>1. SwSelecting
    BY <1>2 DEF SwInv, SwHeading, SwReading, SwWriting, SwResting
  <2>2. QED
    BY <1>1, <1>2, <2>1 DEF SwInv, SwSelecting
<1>3. CASE JtagInv
  <2>1. JtagSelecting
    BY <1>3 DEF JtagInv, JtagScanning, JtagResting
  <2>2. QED
    BY <1>1, <1>3, <2>1 DEF JtagInv, JtagSelecting
<1>4. QED
  BY <1>2, <1>3 DEF Inv

\* At rest the port rests too.
LEMMA EndOfRest ==
    ASSUME Inv, host.pulses = <<>>, host.stage = "rest"
    PROVE  \/ port.kind = "sw" /\ SwTyped /\ port.phase = "idle"
           \/ port.kind = "jtag" /\ JtagTyped /\ port.state = "RunTest"
<1>1. CASE SwInv /\ port.kind = "sw" /\ SwTyped
  BY <1>1 DEF SwInv, SwSelecting, SwHeading, SwReading, SwWriting, SwResting
<1>2. CASE JtagInv /\ port.kind = "jtag" /\ JtagTyped
  BY <1>2 DEF JtagInv, JtagSelecting, JtagScanning, JtagResting
<1>3. QED
  BY <1>1, <1>2, AtEnd

\* The end of a scan: both ends hold the words of the other.
LEMMA EndOfScan ==
    ASSUME Inv, host.pulses = <<>>, host.stage \in {"scan id", "scan"}
    PROVE  /\ HostTyped /\ JtagTyped
           /\ port.state = "RunTest" /\ port.ir = ScanCode(host) /\ port.taken = ScanData(host)
           /\ host.got = port.shown
           /\ host.stage = "scan id" => port.shown = IdCode
<1>1. JtagInv
  BY DEF Inv, SwInv, SwSelecting, SwHeading, SwReading, SwWriting, SwResting
<1>2. HostTyped /\ JtagTyped /\ JtagScanning
  BY <1>1 DEF Inv, JtagInv, JtagSelecting, JtagResting
<1>3. QED
  BY <1>2, ScanOver

\* Serial wire: the acknowledge has come, and the port goes on by it.
LEMMA EndOfHeader ==
    ASSUME Inv, host.pulses = <<>>, host.stage = "header"
    PROVE  HostTyped /\ SwTyped /\ Ack = port.ack /\ Answered
<1>1. SwInv
  BY DEF Inv, JtagInv, JtagSelecting, JtagScanning, JtagResting
<1>2. HostTyped /\ SwTyped /\ SwHeading /\ Left = 0
  BY <1>1, AtEnd DEF SwInv, SwSelecting, SwReading, SwWriting, SwResting
<1>3. Left # 13 /\ Left # 12 /\ Left \notin 5 .. 11 /\ Left # 4 /\ Left \notin 1 .. 3
  BY <1>2
<1>4. HeadingPhase
  BY <1>2 DEF SwHeading
<1>5. Len(host.got) = 4 /\ (\A k \in 1 .. 3 : host.got[k + 1] = port.ack[k]) /\ Answered
  BY <1>3, <1>4 DEF HeadingPhase
<1>6. host.got \in Seq(Levels) /\ host.got # <<>>
  BY <1>2, <1>5 DEF HostTyped
<1>7. /\ Ack \in Seq(Levels) /\ Len(Ack) = 3
      /\ \A k \in 1 .. 3 : Ack[k] = host.got[k + 1]
  <2>1. /\ Tail(host.got) \in Seq(Levels) /\ Len(Tail(host.got)) = Len(host.got) - 1
        /\ \A k \in 1 .. Len(host.got) - 1 : Tail(host.got)[k] = host.got[k + 1]
    BY <1>6, Shifted
  <2>2. Len(host.got) - 1 = 3
    BY <1>5
  <2>3. QED
    BY <2>1, <2>2 DEF Ack
<1>8. port.ack \in Seq(Levels) /\ Len(port.ack) = 3
  <2>1. port.ack = SW_OK \/ port.ack = SW_WAIT \/ port.ack = SW_FAULT
    BY <1>2 DEF SwTyped, SwPorts
  <2>2. /\ SW_OK \in Seq(Levels) /\ Len(SW_OK) = 3 /\ SW_WAIT \in Seq(Levels) /\ Len(SW_WAIT) = 3
        /\ SW_FAULT \in Seq(Levels) /\ Len(SW_FAULT) = 3
    BY LevelFacts DEF SW_OK, SW_WAIT, SW_FAULT
  <2>3. QED
    BY <2>1, <2>2
<1>9. Ack = port.ack
  <2>1. Len(Ack) = Len(port.ack) /\ \A k \in 1 .. Len(Ack) : Ack[k] = port.ack[k]
    BY <1>5, <1>7, <1>8
  <2>2. QED
    BY <1>7, <1>8, <2>1, SeqEqual
<1>10. QED
  BY <1>2, <1>5, <1>9

\* The end of a serial wire access: the port is idle and has, or gave, the word.
LEMMA EndOfData ==
    ASSUME Inv, host.pulses = <<>>, host.stage \in {"data", "refused"}
    PROVE  /\ HostTyped /\ SwTyped /\ port.phase = "idle"
           /\ host.stage = "data" /\ host.access.rnw = 1 =>
                 /\ Len(port.shown) = WordBits /\ Len(host.got) = WordBits + 2
                 /\ \A k \in 1 .. WordBits : host.got[k] = port.shown[k]
           /\ host.stage = "data" /\ host.access.rnw = 0 => port.taken = host.access.data
<1>1. SwInv
  BY DEF Inv, JtagInv, JtagSelecting, JtagScanning, JtagResting
<1>2. HostTyped /\ SwTyped /\ Left = 0 /\ (SwReading \/ SwWriting \/ SwResting) /\ WordBits \in Nat
  BY <1>1, AtEnd, WireAssumption DEF SwInv, SwSelecting, SwHeading
<1>3. /\ ~(Left >= 2) /\ Left # 1 /\ Left # WordBits + 2 /\ Left \notin 1 .. WordBits + 1
      /\ WordBits + 2 - Left = WordBits + 2 /\ \A k \in 1 .. WordBits : k <= WordBits + 2
  BY <1>2
<1>4. CASE SwReading
  <2>1. host.stage = "data" /\ host.access.rnw = 1 /\ port.phase = "idle"
    BY <1>3, <1>4 DEF SwReading, ReadingPhase
  <2>2. /\ Len(port.shown) = WordBits /\ Len(host.got) = WordBits + 2
        /\ \A k \in 1 .. WordBits : host.got[k] = port.shown[k]
    BY <1>3, <1>4 DEF SwReading
  <2>3. QED
    BY <1>2, <2>1, <2>2
<1>5. CASE SwWriting
  <2>1. /\ host.stage = "data" /\ host.access.rnw = 0 /\ port.phase = "idle"
        /\ port.taken = host.access.data
    BY <1>3, <1>5 DEF SwWriting, WritingPhase
  <2>2. QED
    BY <1>2, <2>1
<1>6. CASE SwResting
  BY <1>2, <1>3, <1>6 DEF SwResting
<1>7. QED
  BY <1>2, <1>4, <1>5, <1>6

\* The access ends, with the port at rest.
LEMMA FinishKeeps ==
    ASSUME Inv, host.pulses = <<>>, Finish, waits' \in Nat,
           \/ port.kind = "sw" /\ SwTyped /\ port.phase = "idle"
           \/ port.kind = "jtag" /\ JtagTyped /\ port.state = "RunTest"
    PROVE  Inv'
<1>1. HostTyped
  BY AtEnd
<1>2. HostTyped' /\ host'.stage = "rest" /\ Left' = 0 /\ port' = port
  BY <1>1, Finished
<1>3. (SwTyped' /\ SwResting') \/ (JtagTyped' /\ JtagResting')
  BY <1>2 DEF SwTyped, SwResting, JtagTyped, JtagResting
<1>4. QED
  BY <1>2, <1>3 DEF Inv, SwInv, JtagInv

\* The selection ends.
LEMMA SelectedKeeps ==
    ASSUME Inv, Selected
    PROVE  Inv'
<1>1. host.pulses = <<>> /\ host.stage = "select" /\ Finish /\ waits' \in Nat
  BY DEF Selected, Ended, Inv
<1>2. (SwTyped /\ port.phase = "idle") \/ (JtagTyped /\ port.state = "RunTest")
  BY <1>1, EndOfSelect
<1>3. (SwTyped => port.kind = "sw") /\ (JtagTyped => port.kind = "jtag")
  BY DEF SwTyped, SwPorts, JtagTyped, JtagPorts
<1>4. QED
  BY <1>1, <1>2, <1>3, FinishKeeps

\* The scan of the identification ends.
LEMMA ScannedIDKeeps ==
    ASSUME Inv, ScannedID
    PROVE  Inv'
<1>1. host.pulses = <<>> /\ host.stage \in {"scan id", "scan"} /\ Finish /\ waits' \in Nat
  BY DEF ScannedID, Ended, Inv
<1>2. JtagTyped /\ port.state = "RunTest"
  BY <1>1, EndOfScan
<1>3. port.kind = "jtag"
  BY <1>2 DEF JtagTyped, JtagPorts
<1>4. QED
  BY <1>1, <1>2, <1>3, FinishKeeps

\* A serial wire access ends.
LEMMA DataDoneKeeps ==
    ASSUME Inv, DataDone
    PROVE  Inv'
<1>1. host.pulses = <<>> /\ host.stage \in {"data", "refused"} /\ Finish /\ waits' \in Nat
  BY DEF DataDone, Ended, Inv
<1>2. SwTyped /\ port.phase = "idle"
  BY <1>1, EndOfData
<1>3. port.kind = "sw"
  BY <1>2 DEF SwTyped, SwPorts
<1>4. QED
  BY <1>1, <1>2, <1>3, FinishKeeps

Begins(stage, a, f, n) ==
    /\ HostTyped' /\ host'.stage = stage /\ host'.access = a /\ host'.got = <<>>
    /\ Left' = n /\ \A k \in 1 .. Left' : host'.pulses[k] = f[Left' - k]

\* Begun, as one fact of the stage.
LEMMA StageBegins ==
    ASSUME NEW stage \in Stages, NEW a \in Accesses, NEW s, NEW f, NEW n, Follows(s, f, n, 0),
           host' = Stage(stage, a, s)
    PROVE  Begins(stage, a, f, n)
BY Begun DEF Begins

\* The scan of a stage begins, with the instruction register or, once that
\* has the code, without.
LEMMA ScanBegun ==
    ASSUME JtagTyped, port.state = "RunTest", port' = port, waits' \in Nat,
           NEW stage \in {"scan id", "scan"}, NEW a \in Accesses,
           NEW code, NEW data,
           code = ScanCode([stage |-> stage, access |-> a]),
           data = ScanData([stage |-> stage, access |-> a]),
           \/ host' = Stage(stage, a, JTAGScanIR(code) \o JTAGScanDR(data))
           \/ host' = Stage(stage, a, JTAGScanDR(data)) /\ port.ir = code
    PROVE  Inv'
<1> DEFINE h == [stage |-> stage, access |-> a]
           f == ScanPulses(code, data)
           w == Len(data)
<1>1. h.access \in Accesses /\ h.stage = stage /\ h.access = a /\ stage \in Stages
  BY DEF Stages
<1>a. stage \in Stages /\ a \in Accesses
  BY <1>1
<1>2. code = ScanCode(h) /\ data = ScanData(h)
  OBVIOUS
<1> HIDE DEF h
<1>3. code \in Seq(Levels) /\ Len(code) = 4 /\ data \in Seq(Levels) /\ w \in Nat \ {0}
  BY <1>1, <1>2, ScanTarget
<1>4. /\ Follows(JTAGScanDR(data), f, w + 5, 0)
      /\ Follows(JTAGScanIR(code) \o JTAGScanDR(data), f, w + 15, 0)
  BY <1>3, ScanFollows
<1> DEFINE n == Left'
           short == w + 5
           long == w + 15
<1>5. Follows(JTAGScanDR(data), f, short, 0) /\ Follows(JTAGScanIR(code) \o JTAGScanDR(data), f, long, 0)
  BY <1>4
<1> HIDE DEF f, n, short, long
<1>6. /\ HostTyped' /\ host'.stage = stage /\ host'.access = a /\ host'.got = <<>>
      /\ \A k \in 1 .. Left' : host'.pulses[k] = f[Left' - k]
      /\ \/ Left' = long
         \/ Left' = short /\ port.ir = code
  <2>1. CASE host' = Stage(stage, a, JTAGScanIR(code) \o JTAGScanDR(data))
    <3> DEFINE s == JTAGScanIR(code) \o JTAGScanDR(data)
    <3>1. Follows(s, f, long, 0) /\ host' = Stage(stage, a, s)
      BY <1>5, <2>1
    <3> HIDE DEF s
    <3>2. Begins(stage, a, f, long)
      BY <1>a, <3>1, StageBegins
    <3>3. QED
      BY <3>2 DEF Begins
  <2>2. CASE host' = Stage(stage, a, JTAGScanDR(data)) /\ port.ir = code
    <3> DEFINE s == JTAGScanDR(data)
    <3>1. Follows(s, f, short, 0) /\ host' = Stage(stage, a, s)
      BY <1>5, <2>2
    <3> HIDE DEF s
    <3>2. Begins(stage, a, f, short)
      BY <1>a, <3>1, StageBegins
    <3>3. QED
      BY <2>2, <3>2 DEF Begins
  <2>3. QED
    BY <2>1, <2>2
<1>7. ScanCode(host') = code /\ ScanData(host') = data
  BY <1>1, <1>2, <1>6 DEF ScanCode, ScanData
<1>8. Scanning(Left', port', host'.got, code, data, w)
  <2>1. CASE Left' = long
    <3>1. ScanningIR(Left', port', code, w)
      BY <2>1 DEF ScanningIR, long
    <3>2. QED
      BY <1>6, <3>1 DEF Scanning
  <2>2. CASE Left' = short /\ port.ir = code
    <3>1. ScanningDR(Left', port', host'.got, code, data, w)
      BY <1>6, <2>2 DEF ScanningDR, short
    <3>2. QED
      BY <3>1 DEF Scanning
  <2>3. QED
    BY <1>6, <2>1, <2>2
<1>9. JtagScanning'
  <2>1. Making(ScanPulses(ScanCode(host), ScanData(host)))'
         <=> \A k \in 1 .. Left' : host'.pulses[k] = ScanPulses(ScanCode(host'), ScanData(host'))[Left' - k]
    BY DEF Making
  <2>2. \A k \in 1 .. Left' : host'.pulses[k] = ScanPulses(ScanCode(host'), ScanData(host'))[Left' - k]
    BY <1>6, <1>7 DEF f
  <2>3. Scanning(Left', port', host'.got, ScanCode(host'), ScanData(host'), Len(ScanData(host')))
    BY <1>7, <1>8 DEF w
  <2>4. QED
    BY <1>6, <2>1, <2>2, <2>3 DEF JtagScanning
<1>10. JtagTyped'
  BY DEF JtagTyped
<1>11. QED
  BY <1>6, <1>9, <1>10 DEF Inv, JtagInv

\* The scan of the identification begins.
LEMMA ScanIDCODEKeeps ==
    ASSUME Inv, ScanIDCODE
    PROVE  Inv'
<1>1. /\ host.pulses = <<>> /\ host.stage = "rest" /\ port.kind = "jtag" /\ waits' \in Nat
      /\ port' = port /\ HostTyped
      /\ host' = Stage("scan id", host.access, JTAGScanIR(JTAG_IDCODE) \o JTAGScanDR(<<0, 0, 0>>))
  BY DEF ScanIDCODE, Ended, Begin, Inv
<1>2. JtagTyped /\ port.state = "RunTest"
  BY <1>1, EndOfRest
<1>3. host.access \in Accesses
  BY <1>1 DEF HostTyped
<1>4. /\ JTAG_IDCODE = ScanCode([stage |-> "scan id", access |-> host.access])
      /\ <<0, 0, 0>> = ScanData([stage |-> "scan id", access |-> host.access])
  BY DEF ScanCode, ScanData
<1>5. QED
  BY <1>1, <1>2, <1>3, <1>4, ScanBegun

\* The scan of an access begins.
LEMMA ScanDRKeeps ==
    ASSUME Inv, NEW a \in Accesses, ScanDR(a)
    PROVE  Inv'
<1> DEFINE code == IF a.ap = 1 THEN JTAG_APACC ELSE JTAG_DPACC
           data == AccessCode(a) \o a.data
<1>1. /\ host.pulses = <<>> /\ host.stage = "rest" /\ port.kind = "jtag" /\ waits' \in Nat
      /\ port' = port
      /\ host' = Stage("scan", a, JTAGScanIR(code) \o JTAGScanDR(data))
  BY DEF ScanDR, Ended, Inv
<1>2. JtagTyped /\ port.state = "RunTest"
  BY <1>1, EndOfRest
<1>3. /\ code = ScanCode([stage |-> "scan", access |-> a])
      /\ data = ScanData([stage |-> "scan", access |-> a])
  BY DEF ScanCode, ScanData
<1> HIDE DEF code, data
<1>4. QED
  BY <1>1, <1>2, <1>3, ScanBegun

\* The scan of an access ends or, after a WAIT, begins again.
LEMMA ScannedKeeps ==
    ASSUME Inv, Scanned
    PROVE  Inv'
<1> DEFINE a == host.access
           code == ScanCode(host)
           data == AccessCode(host.access) \o host.access.data
<1>1. /\ host.pulses = <<>> /\ host.stage \in {"scan id", "scan"} /\ host.stage = "scan"
      /\ a \in Accesses /\ waits \in Nat
  BY DEF Scanned, Ended, Inv, HostTyped
<1>2. JtagTyped /\ port.state = "RunTest" /\ port.ir = code
  BY <1>1, EndOfScan
<1>3. CASE SubSeq(host.got, 1, 3) = JTAG_WAIT
  <2>1. host' = Stage("scan", a, JTAGScanDR(data)) /\ port' = port /\ waits' = waits + 1
    BY <1>1, <1>3 DEF Scanned, Begin
  <2>2. /\ code = ScanCode([stage |-> "scan", access |-> a])
        /\ data = ScanData([stage |-> "scan", access |-> a])
    BY <1>1 DEF ScanCode, ScanData
  <2>3. waits' \in Nat
    BY <1>1, <2>1
  <2> HIDE DEF code, data, a
  <2>4. QED
    BY <1>1, <1>2, <2>1, <2>2, <2>3, ScanBegun
<1>4. CASE SubSeq(host.got, 1, 3) # JTAG_WAIT
  <2>1. Finish /\ waits' = 0
    BY <1>4 DEF Scanned
  <2>2. port.kind = "jtag"
    BY <1>2 DEF JtagTyped, JtagPorts
  <2>3. QED
    BY <1>1, <1>2, <2>1, <2>2, FinishKeeps
<1>5. QED
  BY <1>3, <1>4

\* The header of a serial wire access is begun.
LEMMA SwAccessKeeps ==
    ASSUME Inv, NEW a \in Accesses, SwAccess(a)
    PROVE  Inv'
<1>1. /\ host.pulses = <<>> /\ host.stage = "rest" /\ port.kind = "sw" /\ waits' \in Nat
      /\ port' = port /\ host' = Stage("header", a, SWHeader(a)) /\ "header" \in Stages
  BY DEF SwAccess, Ended, Inv, Stages
<1>2. SwTyped /\ port.phase = "idle"
  BY <1>1, EndOfRest
<1> DEFINE f == HeaderPulses(a)
<1>3. Follows(SWHeader(a), f, 12, 0)
  BY HeaderFollows
<1> HIDE DEF f
<1>4. /\ HostTyped' /\ host'.stage = "header" /\ host'.access = a /\ host'.got = <<>>
      /\ Left' = 12 /\ \A k \in 1 .. Left' : host'.pulses[k] = f[Left' - k]
  BY <1>1, <1>3, Begun
<1>5. Making(HeaderPulses(host.access))'
  BY <1>4 DEF Making, f
<1>6. HeadingPhase'
  BY <1>1, <1>2, <1>4 DEF HeadingPhase
<1>7. SwTyped' /\ SwHeading'
  BY <1>1, <1>2, <1>4, <1>5, <1>6 DEF SwTyped, SwHeading
<1>8. QED
  BY <1>1, <1>4, <1>7 DEF Inv, SwInv

\* The turnaround after a refusal.
LEMMA IdleFollows ==
    Follows(<<Pulse(FALSE, 0, 0, FALSE)>>, IdlePulses, 1, 0)
<1> DEFINE x == Pulse(FALSE, 0, 0, FALSE)
           s == <<x>>
           f == IdlePulses
<1>1. x \in Pulses
  BY LevelFacts DEF Pulse, Pulses
<1>2. f[0] = x
  BY DEF IdlePulses, Floating
<1> HIDE DEF x, f
<1>3. s \in Seq(Pulses) /\ Len(s) = 1 /\ s[1] = x
  BY <1>1
<1> HIDE DEF s
<1>4. \A k \in 1 .. 1 : s[k] = f[1 - k]
  <2>1. \A k \in 1 .. 1 : k = 1 /\ 1 - k = 0
    OBVIOUS
  <2>2. QED
    BY <1>2, <1>3, <2>1
<1>5. 1 \in Nat /\ 0 \in Nat /\ 1 + 0 = 1
  OBVIOUS
<1>6. Follows(s, f, 1, 0)
  BY <1>3, <1>4, <1>5, FollowsIs
<1>7. QED
  BY <1>6 DEF s, x, f

\* The acknowledge decides: the header again, nothing more, or the data.
LEMMA AcknowledgedKeeps ==
    ASSUME Inv, Acknowledged
    PROVE  Inv'
<1> DEFINE a == host.access
<1>1. host.pulses = <<>> /\ host.stage = "header" /\ waits \in Nat /\ waits' \in Nat
  BY DEF Acknowledged, Ended, Inv
<1>2. HostTyped /\ SwTyped /\ Ack = port.ack /\ Answered
  BY <1>1, EndOfHeader
<1>3. a \in Accesses /\ a.rnw \in {0, 1} /\ a.data \in Words
  BY <1>2 DEF HostTyped, Accesses
<1>4. SW_WAIT # SW_OK
  BY DEF SW_WAIT, SW_OK
<1>5. WordBits \in Nat
  BY WireAssumption
<1>6. CASE Ack = SW_WAIT
  <2>1. /\ host' = Stage("header", a, SerialWireClockOut(<<0>>) \o SWHeader(a))
        /\ port' = port /\ "header" \in Stages
    BY <1>6 DEF Acknowledged, Begin, Stages
  <2>2. port.phase = "turn to idle"
    BY <1>2, <1>4, <1>6 DEF Answered
  <2> DEFINE f == HeaderPulses(a)
  <2>3. Follows(SerialWireClockOut(<<0>>) \o SWHeader(a), f, 13, 0)
    BY <1>3, HeaderFollows
  <2> HIDE DEF f
  <2>4. /\ HostTyped' /\ host'.stage = "header" /\ host'.access = a /\ host'.got = <<>>
        /\ Left' = 13 /\ \A k \in 1 .. Left' : host'.pulses[k] = f[Left' - k]
    BY <1>3, <2>1, <2>3, Begun
  <2>5. Making(HeaderPulses(host.access))'
    BY <2>4 DEF Making, f
  <2>6. HeadingPhase'
    BY <2>1, <2>2, <2>4 DEF HeadingPhase
  <2>7. SwTyped' /\ SwHeading'
    BY <1>2, <2>1, <2>4, <2>5, <2>6 DEF SwTyped, SwHeading
  <2>8. QED
    BY <1>1, <2>4, <2>7 DEF Inv, SwInv
<1>7. CASE Ack # SW_WAIT /\ Ack # SW_OK
  <2> DEFINE s == <<Pulse(FALSE, 0, 0, FALSE)>>
             f == IdlePulses
  <2>1. host' = Stage("refused", a, s) /\ port' = port /\ "refused" \in Stages
    BY <1>7 DEF Acknowledged, Begin, Stages
  <2>2. port.phase = "turn to idle"
    BY <1>2, <1>7 DEF Answered
  <2>3. Follows(s, f, 1, 0)
    BY IdleFollows
  <2> HIDE DEF s, f
  <2>4. /\ HostTyped' /\ host'.stage = "refused" /\ Left' = 1
        /\ \A k \in 1 .. Left' : host'.pulses[k] = f[Left' - k]
    BY <1>3, <2>1, <2>3, Begun
  <2>5. Making(IdlePulses)'
    BY <2>4 DEF Making, f
  <2>6. SwTyped' /\ SwResting'
    <3>1. Left' <= 1
      BY <2>4
    <3>2. port'.phase = IF Left' = 1 THEN "turn to idle" ELSE "idle"
      BY <2>1, <2>2, <2>4
    <3>3. SwTyped'
      BY <1>2, <2>1 DEF SwTyped
    <3>4. QED
      BY <2>4, <2>5, <3>1, <3>2, <3>3 DEF SwResting
  <2>7. QED
    BY <1>1, <2>4, <2>6 DEF Inv, SwInv
<1>8. CASE Ack = SW_OK /\ a.rnw = 1
  <2>1. host' = Stage("data", a, SWDataRead) /\ port' = port /\ "data" \in Stages
    BY <1>4, <1>8 DEF Acknowledged, Begin, Stages
  <2>2. /\ port.phase = "read" /\ Len(port.shift) = WordBits + 1 /\ Len(port.shown) = WordBits
        /\ \A k \in 1 .. WordBits : port.shift[k] = port.shown[k]
    BY <1>2, <1>8 DEF Answered
  <2> DEFINE f == ReadPulses
             n == WordBits + 2
  <2>3. Follows(SWDataRead, f, n, 0)
    BY ReadFollows
  <2> HIDE DEF f, n
  <2>4. /\ HostTyped' /\ host'.stage = "data" /\ host'.access = a /\ host'.got = <<>>
        /\ Left' = n /\ \A k \in 1 .. Left' : host'.pulses[k] = f[Left' - k]
    BY <1>3, <2>1, <2>3, Begun
  <2>5. Making(ReadPulses)'
    BY <2>4 DEF Making, f
  <2>6. /\ Left' >= 2 /\ Left' <= WordBits + 2 /\ Left' - 1 = WordBits + 1 /\ Left' - 2 = WordBits
        /\ WordBits + 2 - Left' = 0 /\ \A k \in 1 .. WordBits : WordBits + 2 - Left' + k = k
    BY <1>5, <2>4 DEF n
  <2>7. ReadingPhase'
    <3>1. port'.phase = "read" /\ Len(port'.shift) = Left' - 1
      BY <2>1, <2>2, <2>6
    <3>2. \A k \in 1 .. Left' - 2 : port'.shift[k] = port'.shown[WordBits + 2 - Left' + k]
      BY <2>1, <2>2, <2>6
    <3>3. QED
      BY <2>6, <3>1, <3>2 DEF ReadingPhase
  <2>8. /\ Len(host'.got) = WordBits + 2 - Left'
        /\ \A k \in 1 .. WordBits : k <= Len(host'.got) => host'.got[k] = port'.shown[k]
    <3>1. Len(host'.got) = 0
      BY <2>4
    <3>2. QED
      BY <2>6, <3>1
  <2>9. SwTyped' /\ SwReading'
    <3>1. host'.access.rnw = 1 /\ Len(port'.shown) = WordBits /\ SwTyped'
      BY <1>2, <1>8, <2>1, <2>2, <2>4 DEF SwTyped
    <3>2. QED
      BY <2>4, <2>5, <2>6, <2>7, <2>8, <3>1 DEF SwReading
  <2>10. QED
    BY <1>1, <2>4, <2>9 DEF Inv, SwInv
<1>9. CASE Ack = SW_OK /\ a.rnw # 1
  <2>1. host' = Stage("data", a, SWDataWrite(a.data)) /\ port' = port /\ "data" \in Stages
    BY <1>4, <1>9 DEF Acknowledged, Begin, Stages
  <2>2. a.rnw = 0 /\ port.phase = "turn to write"
    BY <1>2, <1>3, <1>9 DEF Answered
  <2> DEFINE f == WritePulses(a.data)
             n == WordBits + 2
  <2>3. Follows(SWDataWrite(a.data), f, n, 0)
    BY <1>3, WriteFollows
  <2> HIDE DEF f, n
  <2>4. /\ HostTyped' /\ host'.stage = "data" /\ host'.access = a
        /\ Left' = n /\ \A k \in 1 .. Left' : host'.pulses[k] = f[Left' - k]
    BY <1>3, <2>1, <2>3, Begun
  <2>5. Making(WritePulses(host.access.data))'
    BY <2>4 DEF Making, f
  <2>6. Left' = WordBits + 2 /\ Left' <= WordBits + 2
    BY <1>5, <2>4 DEF n
  <2>7. WritingPhase'
    BY <2>1, <2>2, <2>6 DEF WritingPhase
  <2>8. SwTyped' /\ SwWriting'
    BY <1>2, <2>1, <2>2, <2>4, <2>5, <2>6, <2>7 DEF SwTyped, SwWriting
  <2>9. QED
    BY <1>1, <2>4, <2>8 DEF Inv, SwInv
<1>10. QED
  BY <1>6, <1>7, <1>8, <1>9

-----------------------------------------------------------------------------
(* The theorems.                                                           *)

\* The access before the first is one.
LEMMA NoAccessTyped ==
    NoAccess \in Accesses
<1>1. [k \in 1 .. WordBits |-> 0] \in Words
  BY DEF Words
<1>2. QED
  BY <1>1 DEF NoAccess, Accesses

\* The port in any state, the tester at its first reset pulse.
LEMMA InitInv ==
    ASSUME Init
    PROVE  Inv
<1>1. waits \in Nat /\ WordBits \in Nat /\ ResetCycles \in Nat \ {0}
  BY WireAssumption DEF Init
<1>2. <<>> \in Seq(Levels) /\ Len(<<>>) = 0
  OBVIOUS
<1>3. CASE \E s \in DOMAIN Tap :
              port = [kind |-> "jtag", state |-> s, ir |-> JTAG_DPACC,
                      shift |-> [k \in 1 .. WordBits + 3 |-> 0], shown |-> <<>>, taken |-> <<>>]
  <2> DEFINE zeros == [k \in 1 .. WordBits + 3 |-> 0]
  <2>1. PICK s \in TapStates :
           port = [kind |-> "jtag", state |-> s, ir |-> JTAG_DPACC,
                   shift |-> zeros, shown |-> <<>>, taken |-> <<>>]
    BY <1>3, TapTable
  <2>2. zeros \in Seq(Levels) /\ zeros # <<>>
    <3>1. WordBits + 3 \in Nat /\ WordBits + 3 # 0
      BY <1>1
    <3>2. zeros \in Seq(Levels) /\ Len(zeros) = WordBits + 3
      BY <3>1, LevelFacts, Repeated
    <3> HIDE DEF zeros
    <3>3. QED
      BY <3>1, <3>2, NotEmpty
  <2> HIDE DEF zeros
  <2>3. port \in JtagPorts
    BY <1>2, <2>1, <2>2, CodeFacts DEF JtagPorts
  <2>4. host = Stage("select", NoAccess, SetInterfaceJTAG)
    BY <2>1 DEF Init
  <2> DEFINE t == SetInterfaceJTAG
  <2>5. t \in Seq(Pulses) /\ Len(t) = 6 /\ \A k \in 1 .. 6 : t[k] = TapResetPulses[6 - k]
    <3>1. t \in Seq(Pulses) /\ Len(t) + 0 = 6 /\ \A k \in 1 .. Len(t) : t[k] = TapResetPulses[6 - k]
      BY TapResetFollows DEF Follows
    <3>2. Len(t) \in Nat
      BY <3>1
    <3>3. Len(t) = 6
      BY <3>1, <3>2
    <3>4. QED
      BY <3>1, <3>3
  <2> HIDE DEF t
  <2>6. host = [stage |-> "select", access |-> NoAccess, pulses |-> t, got |-> <<>>]
    BY <2>4 DEF Stage, t
  <2>7. HostTyped /\ Left = 6 /\ Making(TapResetPulses) /\ host.stage = "select"
    BY <1>2, <2>5, <2>6, NoAccessTyped DEF HostTyped, Stages, Left, Making
  <2>8. ResetIn(5) = TapStates /\ 6 - 1 = 5 /\ 6 <= 6 /\ 6 # 0
    BY DEF ResetIn
  <2>9. port.state \in (IF Left = 0 THEN {"RunTest"} ELSE ResetIn(Left - 1))
        /\ (Left = 6 => port.shift # <<>>) /\ Left <= 6
    BY <2>1, <2>2, <2>7, <2>8
  <2>10. QED
    BY <1>1, <2>3, <2>7, <2>9 DEF Inv, JtagInv, JtagTyped, JtagSelecting
<1>4. CASE \E n \in 0 .. (ResetCycles - 1) :
              port = [kind |-> "sw", phase |-> "lost", shift |-> [k \in 1 .. n |-> 1],
                      header |-> <<>>, ack |-> SW_OK, shown |-> <<>>, taken |-> <<>>]
  <2>1. PICK n \in 0 .. (ResetCycles - 1) :
           port = [kind |-> "sw", phase |-> "lost", shift |-> [k \in 1 .. n |-> 1],
                   header |-> <<>>, ack |-> SW_OK, shown |-> <<>>, taken |-> <<>>]
    BY <1>4
  <2> DEFINE ones == [k \in 1 .. n |-> 1]
  <2>2. ones \in Seq(Levels) /\ Len(ones) = n /\ n \in Nat /\ n < ResetCycles
    <3>1. n \in Nat /\ n < ResetCycles
      BY <1>1
    <3>2. QED
      BY <3>1, LevelFacts, Repeated
  <2> HIDE DEF ones
  <2>3. /\ port = [kind |-> "sw", phase |-> "lost", shift |-> ones,
                   header |-> <<>>, ack |-> SW_OK, shown |-> <<>>, taken |-> <<>>]
        /\ "lost" \in Phases
    BY <2>1 DEF ones, Phases
  <2>4. port \in SwPorts /\ port.phase = "lost" /\ port.shift = ones
    BY <1>2, <2>2, <2>3 DEF SwPorts
  <2>5. host = Stage("select", NoAccess, SWLineReset(8))
    BY <2>3 DEF Init
  <2> DEFINE t == SWLineReset(8)
             m == ResetCycles + 8
  <2>6. /\ t \in Seq(Pulses) /\ Len(t) = m /\ m \in Nat
        /\ \A k \in 1 .. m : t[k] = ResetPulses[m - k]
    <3>1. t \in Seq(Pulses) /\ Len(t) + 0 = m /\ \A k \in 1 .. Len(t) : t[k] = ResetPulses[m - k]
      BY ResetFollows DEF Follows
    <3>2. Len(t) \in Nat /\ m \in Nat
      BY <1>1, <3>1
    <3>3. Len(t) = m
      BY <3>1, <3>2
    <3>4. QED
      BY <3>1, <3>2, <3>3
  <2> HIDE DEF t
  <2>7. host = [stage |-> "select", access |-> NoAccess, pulses |-> t, got |-> <<>>]
    BY <2>5 DEF Stage, t
  <2>8. Left = m /\ host.stage = "select" /\ host.pulses = t
    BY <2>6, <2>7 DEF Left
  <2>9. /\ m <= ResetCycles + 8 /\ m > 8 /\ n + m - 8 >= ResetCycles
    BY <1>1, <2>2
  <2> HIDE DEF m
  <2>10. HostTyped /\ Making(ResetPulses)
    BY <1>2, <2>6, <2>7, <2>8, NoAccessTyped DEF HostTyped, Stages, Making
  <2>11. /\ Left <= ResetCycles + 8 /\ Left > 8 /\ Len(port.shift) < ResetCycles
         /\ Len(port.shift) + Left - 8 >= ResetCycles
    BY <2>2, <2>4, <2>8, <2>9
  <2>12. SwTyped /\ SwSelecting
    BY <2>4, <2>8, <2>10, <2>11 DEF SwTyped, SwSelecting
  <2>13. QED
    BY <1>1, <2>10, <2>12 DEF Inv, SwInv
<1>5. QED
  BY <1>3, <1>4 DEF Init

\* Every step keeps the invariant.
LEMMA NextInv ==
    ASSUME Inv, [Next]_vars
    PROVE  Inv'
<1>1. CASE Clock
  BY <1>1, ClockKeeps
<1>2. CASE Selected
  BY <1>2, SelectedKeeps
<1>3. CASE ScannedID
  BY <1>3, ScannedIDKeeps
<1>4. CASE Scanned
  BY <1>4, ScannedKeeps
<1>5. CASE Acknowledged
  BY <1>5, AcknowledgedKeeps
<1>6. CASE DataDone
  BY <1>6, DataDoneKeeps
<1>7. CASE ScanIDCODE
  BY <1>7, ScanIDCODEKeeps
<1>8. ASSUME NEW a \in Accesses, ScanDR(a)
      PROVE  Inv'
  BY <1>8, ScanDRKeeps
<1>9. ASSUME NEW a \in Accesses, SwAccess(a)
      PROVE  Inv'
  BY <1>9, SwAccessKeeps
<1>10. CASE UNCHANGED vars
  BY <1>10 DEF Inv, HostTyped, SwInv, SwTyped, SwSelecting, SwHeading, HeadingPhase, Answered,
               SwReading, ReadingPhase, SwWriting, WritingPhase, SwResting, JtagInv, JtagTyped,
               JtagSelecting, JtagScanning, JtagResting, Making, Left, vars
<1>11. QED
  BY <1>1, <1>2, <1>3, <1>4, <1>5, <1>6, <1>7, <1>8, <1>9, <1>10 DEF Next, Continue

\* The two ends are in step: which pulses the tester has yet to make tells
\* where the port is in the access, at every length of a word and of a reset.
THEOREM EndsInStep == Spec => []Inv
<1>1. Init => Inv
  BY InitInv
<1>2. Inv /\ [Next]_vars => Inv'
  BY NextInv
<1>3. QED
  BY <1>1, <1>2, PTL DEF Spec

\* The tester lets go of the line in every clock in which the port drives it.
LEMMA LetsGo ==
    ASSUME Inv
    PROVE  NoContention
<1> SUFFICES ASSUME port.kind = "sw", host.pulses # <<>>, Drives(port)
             PROVE  ~Head(host.pulses).drive
  BY DEF NoContention
<1>1. SwInv /\ HostTyped
  BY DEF Inv, JtagInv, JtagTyped, JtagPorts
<1>2. port.phase = "ack" \/ port.phase = "read"
  BY DEF Drives
<1>3. /\ Head(host.pulses) = host.pulses[1] /\ Left \in Nat /\ Left # 0 /\ Left - 1 \in Nat
      /\ 1 \in 1 .. Left
  <2>1. host.pulses \in Seq(Pulses)
    BY <1>1 DEF HostTyped
  <2>2. Head(host.pulses) = host.pulses[1] /\ Left \in Nat \ {0}
    BY <2>1, Shifted DEF Left
  <2>3. QED
    BY <2>2
<1>4. CASE SwHeading
  <2>1. Left \in 1 .. 3
    BY <1>2, <1>3, <1>4 DEF SwHeading, HeadingPhase
  <2>2. host.pulses[1] = HeaderPulses(host.access)[Left - 1]
    BY <1>3, <1>4 DEF SwHeading, Making
  <2>3. Left \in Nat \ {0} /\ Left <= 4
    BY <2>1
  <2>4. HeaderPulses(host.access)[Left - 1] = Floating(TRUE)
    BY <2>3, HeaderPulseOf
  <2>5. QED
    BY <1>3, <2>2, <2>4 DEF Floating, Pulse
<1>5. CASE SwReading
  <2>1. host.pulses[1] = ReadPulses[Left - 1]
    BY <1>3, <1>5 DEF SwReading, Making
  <2>2. ReadPulses[Left - 1] = Floating(TRUE)
    BY <1>3 DEF ReadPulses
  <2>3. QED
    BY <1>3, <2>1, <2>2 DEF Floating, Pulse
<1>6. ~SwSelecting /\ ~SwWriting /\ ~SwResting
  BY <1>2 DEF SwSelecting, SwWriting, WritingPhase, SwResting
<1>7. QED
  BY <1>1, <1>4, <1>5, <1>6 DEF SwInv

\* NoContention, for every length of a word and of a line reset and however
\* often the port answers WAIT.
THEOREM OneDriver == Spec => []NoContention
<1>1. Inv => NoContention
  BY LetsGo
<1>2. QED
  BY <1>1, EndsInStep, PTL

\* Words are whole at the end of an access.
LEMMA Whole ==
    ASSUME Inv
    PROVE  WordsArrive
<1>1. Ended("scan id") => host.got = port.shown /\ port.shown = IdCode
  BY EndOfScan DEF Ended
<1>2. Ended("scan") => /\ host.got = port.shown
                       /\ port.taken = AccessCode(host.access) \o host.access.data
                       /\ port.ir = IF host.access.ap = 1 THEN JTAG_APACC ELSE JTAG_DPACC
  <2> SUFFICES ASSUME Ended("scan")
               PROVE  /\ host.got = port.shown
                      /\ port.taken = AccessCode(host.access) \o host.access.data
                      /\ port.ir = IF host.access.ap = 1 THEN JTAG_APACC ELSE JTAG_DPACC
    OBVIOUS
  <2>1. host.pulses = <<>> /\ host.stage \in {"scan id", "scan"} /\ host.stage = "scan"
    BY DEF Ended
  <2>2. host.got = port.shown /\ port.ir = ScanCode(host) /\ port.taken = ScanData(host)
    BY <2>1, EndOfScan
  <2>3. QED
    BY <2>1, <2>2 DEF ScanCode, ScanData
<1>3. ASSUME Ended("data"), host.access.rnw = 1
      PROVE  SubSeq(host.got, 1, WordBits) = port.shown
  <2>1. /\ HostTyped /\ SwTyped /\ Len(port.shown) = WordBits /\ Len(host.got) = WordBits + 2
        /\ \A k \in 1 .. WordBits : host.got[k] = port.shown[k]
    BY <1>3, EndOfData DEF Ended
  <2>2. host.got \in Seq(Levels) /\ port.shown \in Seq(Levels) /\ WordBits \in Nat
    BY <2>1, WireAssumption DEF HostTyped, SwTyped, SwPorts
  <2> DEFINE s == host.got
             t == port.shown
  <2>3. /\ s \in Seq(Levels) /\ t \in Seq(Levels) /\ Len(t) = WordBits /\ Len(s) = WordBits + 2
        /\ \A k \in 1 .. WordBits : s[k] = t[k]
    BY <2>1, <2>2
  <2> HIDE DEF s, t
  <2>4. /\ SubSeq(s, 1, WordBits) \in Seq(Levels) /\ Len(SubSeq(s, 1, WordBits)) = WordBits
        /\ \A k \in 1 .. WordBits : SubSeq(s, 1, WordBits)[k] = s[k]
    BY <2>2, <2>3
  <2>5. SubSeq(s, 1, WordBits) = t
    BY <2>3, <2>4, SeqEqual
  <2>6. QED
    BY <2>5 DEF s, t
<1>4. ASSUME Ended("data"), host.access.rnw # 1
      PROVE  port.taken = host.access.data
  <2>1. host.access.rnw = 0
    BY <1>4 DEF Inv, HostTyped, Accesses
  <2>2. QED
    BY <1>4, <2>1, EndOfData DEF Ended
<1>5. QED
  BY <1>1, <1>2, <1>3, <1>4 DEF WordsArrive

\* WordsArrive, for every length of a word: what the tester read is what the
\* port showed, what the port took is what the tester wrote.
THEOREM WordsWhole == Spec => []WordsArrive
<1>1. Inv => WordsArrive
  BY Whole
<1>2. QED
  BY <1>1, EndsInStep, PTL
=============================================================================
