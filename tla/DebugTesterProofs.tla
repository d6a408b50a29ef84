------------------------- MODULE DebugTesterProofs -------------------------
(***************************************************************************)
(* Proofs about DebugTester, in two layers.  Orderly is the handshake over *)
(* the GPIO lines: it follows the call from the program to the tester and  *)
(* back, whatever the functions do, and gives VerdictIsResult.  Safe adds  *)
(* what every function leaves of the debug port: Resting says more of the  *)
(* state between two functions than CacheCoherent does, that the chain is  *)
(* not the access port's, the bank is 0 and, over serial wire, a fault has *)
(* been counted.  Each operator of DapPort has a lemma that carries        *)
(* Resting, or the weaker Pictured and Scanned, through it.                *)
(***************************************************************************)
EXTENDS DebugTester, TLAPS, WellFoundedInduction

-----------------------------------------------------------------------------
(* The record.                                                              *)

\* Its parts, and the record of a tester that no loop holds.
Parts(x) == x = [st |-> x.st, mcu |-> x.mcu, port |-> x.port, mem |-> x.mem, core |-> x.core,
                 rd |-> x.rd, acc |-> x.acc, block |-> x.block, hung |-> x.hung]
Dap(x) ==
    /\ Parts(x) /\ x.hung = FALSE
    /\ x.st = [jtagnsw |-> x.st.jtagnsw, jtagapndp |-> x.st.jtagapndp, on |-> x.st.on,
               banksel |-> x.st.banksel, csw |-> x.st.csw, error |-> x.st.error,
               ack |-> x.st.ack, stkerrclr |-> x.st.stkerrclr]
    /\ x.mcu = [stacktop |-> x.mcu.stacktop, traceconfigured |-> x.mcu.traceconfigured]
    /\ x.port = [jtag |-> x.port.jtag, ir |-> x.port.ir, bank |-> x.port.bank,
                 tar |-> x.port.tar, csw |-> x.port.csw, req |-> x.port.req,
                 sticky |-> x.port.sticky, buf |-> x.port.buf]
    /\ x.st.jtagnsw \in BOOLEAN /\ x.st.on \in BOOLEAN /\ x.port.sticky \in BOOLEAN
    /\ x.st.jtagapndp \in {AP, DP, 2} /\ x.st.error \in 0 .. MaxError

\* An access has failed.
Bad(x) == x.st.error # 0 \/ x.port.sticky

\* The picture is the port's.  Chained allows for the identification scan.
Right(apndp) == IF apndp = AP THEN "APACC" ELSE "DPACC"
Chain(x) == x.st.jtagnsw /\ x.st.jtagapndp # 2 => x.port.ir = Right(x.st.jtagapndp)
Chained(x) == x.st.jtagnsw /\ x.st.jtagapndp # 2
                 => x.port.ir \in {Right(x.st.jtagapndp), "IDCODE"}
Banks(x) == x.st.banksel # 255 => x.port.bank = x.st.banksel
Sizes(x) == x.st.csw # InitDAPSTATUS.csw => x.port.csw = x.st.csw
AtDp(x) == x.st.jtagnsw => x.st.jtagapndp # AP

\* Over serial wire the program has counted the port's error.
Known(x) == ~x.st.jtagnsw /\ x.port.sticky => x.st.error # 0

Pictured(x) == Dap(x) /\ Chain(x) /\ (Bad(x) \/ (Banks(x) /\ Sizes(x)))
Coherent(x) == Chain(x) /\ (Bad(x) \/ (Banks(x) /\ Sizes(x)))
AtBank0(x) == Pictured(x) /\ (Bad(x) \/ x.port.bank = 0)
Resting(x) == AtBank0(x) /\ AtDp(x) /\ Known(x)
Scanned(x) == /\ Dap(x) /\ Chained(x) /\ AtDp(x)
              /\ Bad(x) \/ (Banks(x) /\ Sizes(x) /\ x.port.bank = 0)
Ready(x) == Pictured(x) \/ Scanned(x)

\* What an access through one port or the other does not touch.
Apart(x, y) == /\ Dap(y) /\ y.st = x.st /\ y.port.ir = x.port.ir
               /\ x.port.sticky => y.port.sticky

LEMMA MemWriteApart ==
  ASSUME NEW x, Dap(x), NEW a, NEW v
  PROVE  LET y == MemWrite(x, a, v) IN Dap(y) /\ y.st = x.st /\ y.port = x.port
BY DEF MemWrite, Dap, Parts

LEMMA ApReadApart ==
  ASSUME NEW x, Dap(x), NEW a
  PROVE  LET y == ApRead(x, a)
         IN  Apart(x, y) /\ y.port.bank = x.port.bank /\ y.port.csw = x.port.csw
BY DEF ApRead, Dap, Parts, Apart

LEMMA ApWriteApart ==
  ASSUME NEW x, Dap(x), NEW a, NEW v
  PROVE  LET y == ApWrite(x, a, v)
         IN  /\ Apart(x, y) /\ y.port.bank = x.port.bank
             /\ y.port.csw = x.port.csw \/ (ApRegister(x, a) = CSW /\ y.port.csw = v)
             /\ ApRegister(x, a) = CSW => y.port.sticky \/ y.port.csw = v
<1>1. CASE Faults(x, a)
  BY <1>1 DEF ApWrite, Dap, Parts, Apart
<1>2. CASE ~Faults(x, a) /\ ApRegister(x, a) = DRW
  <2> DEFINE z == MemWrite(x, x.port.tar, v)
  <2>1. Dap(z) /\ z.st = x.st /\ z.port = x.port
    BY MemWriteApart
  <2>2. ApWrite(x, a, v) = [z EXCEPT !.port.tar = NextTar(x.port)]
    BY <1>2 DEF ApWrite, DRW, CSW, TAR
  <2> HIDE DEF z
  <2>3. PICK n : n = NextTar(x.port)
    OBVIOUS
  <2>4. PICK y : y = [z EXCEPT !.port.tar = n]
    OBVIOUS
  <2>5. Dap(y) /\ y.st = z.st /\ y.port = [z.port EXCEPT !.tar = n]
    BY <2>1, <2>4 DEF Dap, Parts
  <2>6. y.port.ir = z.port.ir /\ y.port.sticky = z.port.sticky /\ y.port.bank = z.port.bank
        /\ y.port.csw = z.port.csw
    BY <2>1, <2>5 DEF Dap, Parts
  <2> QED
    BY <1>2, <2>1, <2>2, <2>3, <2>4, <2>5, <2>6 DEF Apart, DRW, CSW
<1>3. CASE ~Faults(x, a) /\ ApRegister(x, a) # DRW
  BY <1>3 DEF ApWrite, Dap, Parts, Apart, CSW, TAR, DRW
<1> QED
  BY <1>1, <1>2, <1>3

LEMMA DpReadApart ==
  ASSUME NEW x, Dap(x), NEW a
  PROVE  LET y == DpRead(x, a)
         IN  /\ Apart(x, y) /\ y.port.bank = x.port.bank /\ y.port.csw = x.port.csw
             /\ y.port.sticky = x.port.sticky
BY DEF DpRead, Dap, Parts, Apart

LEMMA DpWriteApart ==
  ASSUME NEW x, Dap(x), NEW a, NEW v, a # ABORT, a = CTRLSTAT => ~Bit(v, STICKYERR)
  PROVE  LET y == DpWrite(x, a, v)
         IN  /\ Apart(x, y)
             /\ y.port.bank = IF a = SELECT THEN v ELSE x.port.bank
             /\ a # CTRLSTAT => y.port.csw = x.port.csw
<1>1. CASE a = CTRLSTAT
  <2>1. DpWrite(x, a, v) = [x EXCEPT !.port.req = Bit(v, POWERUP),
                       !.port.sticky = @ /\ ~(x.st.jtagnsw /\ Bit(v, STICKYERR)),
                       !.port.csw = IF Bit(v, POWERUP) THEN @ ELSE NoSize]
    BY <1>1 DEF DpWrite, CTRLSTAT, ABORT, SELECT
  <2>2. ~(x.st.jtagnsw /\ Bit(v, STICKYERR))
    BY <1>1
  <2>3. PICK r : r = Bit(v, POWERUP)
    OBVIOUS
  <2>4. PICK y : y = DpWrite(x, a, v)
    OBVIOUS
  <2>5. y = [x EXCEPT !.port.req = r, !.port.sticky = x.port.sticky,
                      !.port.csw = IF r THEN @ ELSE NoSize]
    BY <2>1, <2>2, <2>3, <2>4 DEF Dap, Parts
  <2>6. Dap(y) /\ y.st = x.st /\ y.port.ir = x.port.ir /\ y.port.sticky = x.port.sticky
        /\ y.port.bank = x.port.bank
    BY <2>5 DEF Dap, Parts
  <2> QED
    BY <1>1, <2>4, <2>6 DEF Apart, CTRLSTAT, SELECT
<1>2. CASE a # CTRLSTAT
  BY <1>2 DEF DpWrite, Dap, Parts, Apart, ABORT, CTRLSTAT, SELECT
<1> QED
  BY <1>1, <1>2

-----------------------------------------------------------------------------
(* An access.                                                               *)

LEMMA JtagApart ==
  ASSUME NEW x, Dap(x), Chained(x), NEW apndp \in {AP, DP}
  PROVE  LET y == SwitchTo(x, apndp)
         IN  /\ Dap(y) /\ y.st.jtagnsw = x.st.jtagnsw /\ y.st.on = x.st.on
             /\ y.st.banksel = x.st.banksel /\ y.st.csw = x.st.csw /\ y.st.error = x.st.error
             /\ y.st.jtagapndp = IF x.st.jtagnsw THEN apndp ELSE x.st.jtagapndp
             /\ x.st.jtagnsw => y.port.ir \in {Right(apndp), "IDCODE"}
             /\ x.st.jtagnsw /\ (Chain(x) \/ x.st.jtagapndp # apndp) => y.port.ir = Right(apndp)
             /\ y.port.bank = x.port.bank /\ y.port.csw = x.port.csw /\ y.port.req = x.port.req
             /\ y.port.sticky = x.port.sticky /\ y.port.buf = x.port.buf
<1>1. CASE ~x.st.jtagnsw
  BY <1>1 DEF SwitchTo
<1>2. CASE x.st.jtagnsw /\ x.st.jtagapndp = apndp
  <2>1. SwitchTo(x, apndp) = x
    BY <1>2 DEF SwitchTo, JtagAPnDP
  <2>2. x.st.jtagapndp # 2
    BY <1>2 DEF AP, DP
  <2> QED
    BY <1>2, <2>1, <2>2 DEF Chained, Chain
<1>3. CASE x.st.jtagnsw /\ x.st.jtagapndp # apndp
  <2>1. PICK y : y = [[x EXCEPT !.port.ir = Right(apndp)] EXCEPT !.st.jtagapndp = apndp]
    OBVIOUS
  <2>2. y = SwitchTo(x, apndp)
    BY <1>3, <2>1 DEF SwitchTo, JtagAPnDP, JTAGScanIR, Right
  <2>3. y = [x EXCEPT !.port = [x.port EXCEPT !.ir = Right(apndp)],
                      !.st = [x.st EXCEPT !.jtagapndp = apndp]]
    BY <2>1 DEF Dap, Parts
  <2>4. y.st = [x.st EXCEPT !.jtagapndp = apndp] /\ y.port = [x.port EXCEPT !.ir = Right(apndp)]
    BY <2>3 DEF Dap, Parts
  <2>5. Dap(y)
    BY <2>3, <2>4 DEF Dap, Parts
  <2>6. /\ y.st.jtagnsw = x.st.jtagnsw /\ y.st.on = x.st.on /\ y.st.banksel = x.st.banksel
        /\ y.st.csw = x.st.csw /\ y.st.error = x.st.error /\ y.st.jtagapndp = apndp
    BY <2>4 DEF Dap, Parts
  <2>7. /\ y.port.ir = Right(apndp) /\ y.port.bank = x.port.bank /\ y.port.csw = x.port.csw
        /\ y.port.req = x.port.req /\ y.port.sticky = x.port.sticky /\ y.port.buf = x.port.buf
    BY <2>4 DEF Dap, Parts
  <2> QED
    BY <1>3, <2>2, <2>5, <2>6, <2>7
<1> QED
  BY <1>1, <1>2, <1>3

\* An access leaves of the picture all but the scan chain and the errors.
Same(x, y) == /\ y.st.jtagnsw = x.st.jtagnsw /\ y.st.on = x.st.on
              /\ y.st.banksel = x.st.banksel /\ y.st.csw = x.st.csw
              /\ Bad(x) => Bad(y)
Clears(apndp, rnw, a, v) ==
    apndp = DP /\ rnw = WRITE /\ (a = ABORT \/ (a = CTRLSTAT /\ Bit(v, STICKYERR)))
Switches(apndp, rnw, a) == apndp = DP /\ rnw = WRITE /\ a = SELECT
Sizing(x, apndp, rnw, a) == \/ apndp = DP /\ rnw = WRITE /\ a = CTRLSTAT
                            \/ apndp = AP /\ rnw = WRITE /\ ApRegister(x, a) = CSW

LEMMA TransferApart ==
  ASSUME NEW x, Dap(x), NEW apndp \in {AP, DP}, NEW rnw \in {READ, WRITE}, NEW a, NEW v,
         ~Clears(apndp, rnw, a, v), NEW chain \in {Right(apndp), "IDCODE"}
  PROVE  LET y == Transfer(x, chain, rnw, a, v)
         IN  /\ Apart(x, y)
             /\ ~Switches(apndp, rnw, a) => y.port.bank = x.port.bank
             /\ ~Sizing(x, apndp, rnw, a) => y.port.csw = x.port.csw
             /\ Switches(apndp, rnw, a) => y.port.bank \in {x.port.bank, v}
             /\ chain = Right(apndp) /\ Switches(apndp, rnw, a) => y.port.bank = v
             /\ chain = Right(apndp) /\ apndp = AP /\ Sizing(x, apndp, rnw, a)
                   => y.port.sticky \/ y.port.csw = v
<1> DEFINE y == Transfer(x, chain, rnw, a, v)
<1>1. CASE chain = "APACC" /\ rnw = READ
  <2>1. y = ApRead(x, a) /\ apndp = AP
    BY <1>1 DEF Transfer, Right, READ, WRITE, AP, DP
  <2> QED
    BY <1>1, <2>1, ApReadApart DEF Switches, Sizing, READ, WRITE, AP, DP
<1>2. CASE chain = "APACC" /\ rnw = WRITE
  <2>1. y = ApWrite(x, a, v) /\ apndp = AP
    BY <1>2 DEF Transfer, Right, READ, WRITE, AP, DP
  <2> QED
    BY <1>2, <2>1, ApWriteApart DEF Switches, Sizing, READ, WRITE, AP, DP
<1>3. CASE chain = "DPACC" /\ rnw = READ
  <2>1. y = DpRead(x, a) /\ apndp = DP
    BY <1>3 DEF Transfer, Right, READ, WRITE, AP, DP
  <2> QED
    BY <1>3, <2>1, DpReadApart DEF Switches, Sizing, READ, WRITE, AP, DP
<1>4. CASE chain = "DPACC" /\ rnw = WRITE
  <2>1. y = DpWrite(x, a, v) /\ apndp = DP
    BY <1>4 DEF Transfer, Right, READ, WRITE, AP, DP
  <2>2. a # ABORT /\ (a = CTRLSTAT => ~Bit(v, STICKYERR))
    BY <1>4, <2>1 DEF Clears
  <2> QED
    BY <1>4, <2>1, <2>2, DpWriteApart DEF Switches, Sizing, READ, WRITE, AP, DP
<1>5. CASE chain = "IDCODE"
  <2>1. y = [x EXCEPT !.rd = IdCode] /\ chain # Right(apndp)
    BY <1>5 DEF Transfer, Right
  <2> QED
    BY <2>1 DEF Dap, Parts, Apart
<1> QED
  BY <1>1, <1>2, <1>3, <1>4, <1>5 DEF Right

LEMMA AccessApart ==
  ASSUME NEW x, Dap(x), Chained(x), NEW apndp \in {AP, DP}, NEW rnw \in {READ, WRITE},
         NEW a, NEW v, ~Clears(apndp, rnw, a, v)
  PROVE  LET y == Access(x, apndp, rnw, a, v)
         IN  /\ Dap(y) /\ Same(x, y) /\ Chained(y)
             /\ y.st.jtagnsw => y.st.jtagapndp = apndp
             /\ Chain(x) \/ x.st.jtagapndp # apndp => Chain(y)
             /\ ~Switches(apndp, rnw, a) => Bad(y) \/ y.port.bank = x.port.bank
             /\ ~Sizing(x, apndp, rnw, a) => Bad(y) \/ y.port.csw = x.port.csw
             /\ Switches(apndp, rnw, a) => Bad(y) \/ y.port.bank \in {x.port.bank, v}
             /\ Chain(x) \/ x.st.jtagapndp # apndp =>
                   /\ Switches(apndp, rnw, a) => Bad(y) \/ y.port.bank = v
                   /\ apndp = AP /\ Sizing(x, apndp, rnw, a) => Bad(y) \/ y.port.csw = v
<1> DEFINE y == Access(x, apndp, rnw, a, v)
<1>1. CASE SWRefused(x, apndp, a)
  <2>1. y = SWFault(x) /\ ~x.st.jtagnsw
    BY <1>1 DEF Access, SWRefused
  <2>2. /\ Dap(y) /\ y.st.jtagnsw = x.st.jtagnsw /\ y.st.on = x.st.on
        /\ y.st.banksel = x.st.banksel /\ y.st.csw = x.st.csw /\ y.port.sticky
    <3>1. PICK e : e = (IF x.st.error < MaxError THEN x.st.error + 1 ELSE x.st.error)
      OBVIOUS
    <3>2. e \in 0 .. MaxError
      BY <3>1 DEF Dap, Parts, MaxError
    <3>3. y = [x EXCEPT !.st = [x.st EXCEPT !.error = e, !.ack = "FAULT"], !.rd = Bogus,
                        !.port = [x.port EXCEPT !.sticky = TRUE]]
      BY <2>1, <3>1 DEF SWFault, CountError, Dap, Parts
    <3> HIDE DEF y
    <3>4. y.st = [x.st EXCEPT !.error = e, !.ack = "FAULT"]
          /\ y.port = [x.port EXCEPT !.sticky = TRUE]
      BY <3>3 DEF Dap, Parts
    <3> QED
      BY <3>2, <3>3, <3>4 DEF Dap, Parts
  <2> QED
    BY <2>1, <2>2 DEF Same, Bad, Chain, Chained
<1>2. CASE ~SWRefused(x, apndp, a)
  <2> DEFINE s == SwitchTo(x, apndp)
             z == [s EXCEPT !.st.ack = "OK"]
             chain == Reached(s, apndp)
  <2>1. y = Transfer(z, chain, rnw, a, v)
    BY <1>2 DEF Access, OnChain
  <2>2. /\ Dap(s) /\ s.st.jtagnsw = x.st.jtagnsw /\ s.st.on = x.st.on
        /\ s.st.banksel = x.st.banksel /\ s.st.csw = x.st.csw /\ s.st.error = x.st.error
        /\ s.st.jtagapndp = IF x.st.jtagnsw THEN apndp ELSE x.st.jtagapndp
        /\ x.st.jtagnsw => s.port.ir \in {Right(apndp), "IDCODE"}
        /\ x.st.jtagnsw /\ (Chain(x) \/ x.st.jtagapndp # apndp) => s.port.ir = Right(apndp)
        /\ s.port.bank = x.port.bank /\ s.port.csw = x.port.csw
        /\ s.port.sticky = x.port.sticky
    BY JtagApart
  <2> HIDE DEF s
  <2>3. /\ Dap(z) /\ z.port = s.port /\ z.st = [s.st EXCEPT !.ack = "OK"]
    <3>1. z.st = [s.st EXCEPT !.ack = "OK"] /\ z.port = s.port
      BY <2>2 DEF Dap, Parts
    <3> QED
      BY <2>2, <3>1 DEF Dap, Parts
  <2>4. /\ z.st.jtagnsw = x.st.jtagnsw /\ z.st.on = x.st.on /\ z.st.banksel = x.st.banksel
        /\ z.st.csw = x.st.csw /\ z.st.error = x.st.error
        /\ z.st.jtagapndp = IF x.st.jtagnsw THEN apndp ELSE x.st.jtagapndp
        /\ z.port.bank = x.port.bank /\ z.port.csw = x.port.csw
        /\ z.port.sticky = x.port.sticky /\ z.port.ir = s.port.ir
    BY <2>2, <2>3 DEF Dap, Parts
  <2>5. /\ chain \in {Right(apndp), "IDCODE"}
        /\ Chain(x) \/ x.st.jtagapndp # apndp => chain = Right(apndp)
        /\ x.st.jtagnsw => chain = s.port.ir
    BY <2>2 DEF Reached, Right
  <2> HIDE DEF z, chain
  <2>6. /\ Apart(z, y)
        /\ ~Switches(apndp, rnw, a) => y.port.bank = z.port.bank
        /\ ~Sizing(z, apndp, rnw, a) => y.port.csw = z.port.csw
        /\ Switches(apndp, rnw, a) => y.port.bank \in {z.port.bank, v}
        /\ chain = Right(apndp) /\ Switches(apndp, rnw, a) => y.port.bank = v
        /\ chain = Right(apndp) /\ apndp = AP /\ Sizing(z, apndp, rnw, a)
              => y.port.sticky \/ y.port.csw = v
    <3> HIDE DEF y
    <3> QED
      BY <2>1, <2>3, <2>5, TransferApart
  <2>7. Sizing(z, apndp, rnw, a) = Sizing(x, apndp, rnw, a)
    BY <2>4 DEF Sizing, ApRegister
  <2> HIDE DEF y
  <2>8. Dap(y) /\ Same(x, y) /\ (y.st.jtagnsw => y.st.jtagapndp = apndp)
    BY <2>4, <2>6 DEF Apart, Same, Bad
  <2>9. Chained(y) /\ (Chain(x) \/ x.st.jtagapndp # apndp => Chain(y))
    BY <2>4, <2>5, <2>6 DEF Apart, Chain, Chained
  <2> QED
    BY <2>4, <2>5, <2>6, <2>7, <2>8, <2>9 DEF Bad, y
<1> QED
  BY <1>1, <1>2

\* An access to the debug port that is not refused reaches it.
LEMMA DpAccessReaches ==
  ASSUME NEW x, Dap(x), Chain(x), NEW rnw \in {READ, WRITE}, NEW a, NEW v,
         ~SWRefused(x, DP, a)
  PROVE  \E z : /\ Dap(z) /\ Chain(z) /\ AtDp(z)
                /\ z.st.jtagnsw = x.st.jtagnsw /\ z.st.on = x.st.on /\ z.st.banksel = x.st.banksel
                /\ z.st.csw = x.st.csw /\ z.st.error = x.st.error
                /\ z.port.bank = x.port.bank /\ z.port.csw = x.port.csw
                /\ z.port.req = x.port.req /\ z.port.sticky = x.port.sticky
                /\ z.port.buf = x.port.buf
                /\ Access(x, DP, rnw, a, v) = IF rnw = READ THEN DpRead(z, a) ELSE DpWrite(z, a, v)
<1>1. PICK s : s = SwitchTo(x, DP)
  OBVIOUS
<1>2. PICK z : z = [s EXCEPT !.st.ack = "OK"]
  OBVIOUS
<1>3. /\ Dap(s) /\ s.st.jtagnsw = x.st.jtagnsw /\ s.st.on = x.st.on
      /\ s.st.banksel = x.st.banksel /\ s.st.csw = x.st.csw /\ s.st.error = x.st.error
      /\ s.st.jtagapndp = IF x.st.jtagnsw THEN DP ELSE x.st.jtagapndp
      /\ x.st.jtagnsw => s.port.ir = Right(DP)
      /\ s.port.bank = x.port.bank /\ s.port.csw = x.port.csw /\ s.port.req = x.port.req
      /\ s.port.sticky = x.port.sticky /\ s.port.buf = x.port.buf
  BY <1>1, JtagApart DEF Chain, Chained
<1>4. z.st = [s.st EXCEPT !.ack = "OK"] /\ z.port = s.port
  BY <1>2, <1>3 DEF Dap, Parts
<1>5. Dap(z)
  BY <1>2, <1>3, <1>4 DEF Dap, Parts
<1>6. /\ z.st.jtagnsw = x.st.jtagnsw /\ z.st.on = x.st.on /\ z.st.banksel = x.st.banksel
      /\ z.st.csw = x.st.csw /\ z.st.error = x.st.error
      /\ z.st.jtagapndp = IF x.st.jtagnsw THEN DP ELSE x.st.jtagapndp
  BY <1>3, <1>4 DEF Dap, Parts
<1>7. Chain(z) /\ AtDp(z)
  BY <1>3, <1>4, <1>6 DEF Chain, AtDp, AP, DP
<1>8. Access(x, DP, rnw, a, v) = Transfer(z, "DPACC", rnw, a, v)
  BY <1>1, <1>2, <1>3 DEF Access, OnChain, Reached, Right, AP, DP
<1>9. Transfer(z, "DPACC", rnw, a, v) = IF rnw = READ THEN DpRead(z, a) ELSE DpWrite(z, a, v)
  BY DEF Transfer, READ, WRITE
<1> QED
  BY <1>3, <1>4, <1>5, <1>6, <1>7, <1>8, <1>9

\* A read of CTRL/STAT returns it and changes nothing that matters.
LEMMA CtrlStatRead ==
  ASSUME NEW x, Dap(x), Chain(x), NEW y, y = DPReadCTRLSTAT(x)
  PROVE  /\ Dap(y) /\ Chain(y) /\ AtDp(y)
         /\ y.st.jtagnsw = x.st.jtagnsw /\ y.st.on = x.st.on /\ y.st.banksel = x.st.banksel
         /\ y.st.csw = x.st.csw /\ y.st.error = x.st.error
         /\ y.port.bank = x.port.bank /\ y.port.csw = x.port.csw
         /\ y.port.req = x.port.req /\ y.port.sticky = x.port.sticky
         /\ y.rd = CtrlStatWord(x)
<1>1. PICK z : /\ Dap(z) /\ Chain(z) /\ AtDp(z)
               /\ z.st.jtagnsw = x.st.jtagnsw /\ z.st.on = x.st.on /\ z.st.banksel = x.st.banksel
               /\ z.st.csw = x.st.csw /\ z.st.error = x.st.error
               /\ z.port.bank = x.port.bank /\ z.port.csw = x.port.csw
               /\ z.port.req = x.port.req /\ z.port.sticky = x.port.sticky
               /\ Access(x, DP, READ, CTRLSTAT, 0) = DpRead(z, CTRLSTAT)
  <2>1. ~SWRefused(x, DP, CTRLSTAT)
    BY DEF SWRefused, AP, DP
  <2> QED
    BY <2>1, DpAccessReaches DEF READ, WRITE
<1>2. PICK w : w = DpRead(z, CTRLSTAT)
  OBVIOUS
<1>3. CtrlStatWord(z) = CtrlStatWord(x)
  BY <1>1 DEF CtrlStatWord, Powered
<1>4. w = IF z.st.jtagnsw THEN [z EXCEPT !.rd = z.port.buf, !.port.buf = CtrlStatWord(z)]
          ELSE [z EXCEPT !.rd = CtrlStatWord(z)]
  BY <1>2 DEF DpRead, DPIDR, CTRLSTAT
<1>5. /\ Dap(w) /\ w.st = z.st /\ w.port.ir = z.port.ir /\ w.port.bank = z.port.bank
      /\ w.port.csw = z.port.csw /\ w.port.req = z.port.req /\ w.port.sticky = z.port.sticky
      /\ IF z.st.jtagnsw THEN w.port.buf = CtrlStatWord(z) ELSE w.rd = CtrlStatWord(z)
  BY <1>1, <1>4 DEF Dap, Parts
<1>6. Chain(w) /\ AtDp(w)
  BY <1>1, <1>5 DEF Chain, AtDp
<1>7. y = Fetch(w)
  BY <1>1, <1>2 DEF DPReadCTRLSTAT, DpReadNow
<1>8. CASE ~x.st.jtagnsw
  BY <1>1, <1>3, <1>5, <1>6, <1>7, <1>8 DEF Fetch
<1>9. CASE x.st.jtagnsw
  <2>1. y = Access(w, DP, READ, RDBUFF, 0)
    BY <1>1, <1>5, <1>7, <1>9 DEF Fetch, DPReadRDBUFF
  <2>2. ~SWRefused(w, DP, RDBUFF)
    BY <1>1, <1>5, <1>9 DEF SWRefused
  <2>3. PICK u : /\ Dap(u) /\ Chain(u) /\ AtDp(u)
                 /\ u.st.jtagnsw = w.st.jtagnsw /\ u.st.on = w.st.on
                 /\ u.st.banksel = w.st.banksel
                 /\ u.st.csw = w.st.csw /\ u.st.error = w.st.error
                 /\ u.port.bank = w.port.bank /\ u.port.csw = w.port.csw
                 /\ u.port.req = w.port.req /\ u.port.sticky = w.port.sticky
                 /\ u.port.buf = w.port.buf
                 /\ Access(w, DP, READ, RDBUFF, 0) = DpRead(u, RDBUFF)
    BY <1>5, <1>6, <2>2, DpAccessReaches DEF READ, WRITE
  <2>4. y = [u EXCEPT !.rd = u.port.buf, !.port.buf = u.port.buf]
    BY <1>1, <1>5, <1>9, <2>1, <2>3 DEF DpRead, DPIDR, CTRLSTAT, RDBUFF
  <2>5. /\ Dap(y) /\ y.st = u.st /\ y.port.ir = u.port.ir /\ y.port.bank = u.port.bank
        /\ y.port.csw = u.port.csw /\ y.port.req = u.port.req /\ y.port.sticky = u.port.sticky
        /\ y.rd = u.port.buf
    <3>1. PICK b : b = u.port.buf
      OBVIOUS
    <3>2. y = [u EXCEPT !.rd = b, !.port = [u.port EXCEPT !.buf = b]]
      BY <2>3, <2>4, <3>1 DEF Dap, Parts
    <3>3. y.st = u.st /\ y.port = [u.port EXCEPT !.buf = b] /\ y.rd = b
      BY <2>3, <3>2 DEF Dap, Parts
    <3>4. Dap(y)
      BY <2>3, <3>2, <3>3 DEF Dap, Parts
    <3> QED
      BY <2>3, <3>1, <3>3, <3>4 DEF Dap, Parts
  <2>6. Chain(y) /\ AtDp(y)
    BY <2>3, <2>5 DEF Chain, AtDp
  <2>7. /\ y.st.jtagnsw = x.st.jtagnsw /\ y.st.on = x.st.on /\ y.st.banksel = x.st.banksel
        /\ y.st.csw = x.st.csw /\ y.st.error = x.st.error
    BY <1>1, <1>5, <2>3, <2>5
  <2>8. /\ y.port.bank = x.port.bank /\ y.port.csw = x.port.csw
        /\ y.port.req = x.port.req /\ y.port.sticky = x.port.sticky
    BY <1>1, <1>5, <2>3, <2>5
  <2>9. y.rd = CtrlStatWord(x)
    BY <1>1, <1>3, <1>5, <1>9, <2>3, <2>5
  <2> QED
    BY <2>5, <2>6, <2>7, <2>8, <2>9
<1> QED
  BY <1>8, <1>9

\* A write of CTRL/STAT that does not clear the error sets the power-up request.
LEMMA CtrlStatWrite ==
  ASSUME NEW x, Dap(x), Chain(x), NEW v, ~Bit(v, STICKYERR), NEW y, y = DPWriteCTRLSTAT(x, v)
  PROVE  /\ Dap(y) /\ Chain(y) /\ AtDp(y)
         /\ y.st.jtagnsw = x.st.jtagnsw /\ y.st.on = x.st.on /\ y.st.banksel = x.st.banksel
         /\ y.st.csw = x.st.csw /\ y.st.error = x.st.error
         /\ y.port.bank = x.port.bank /\ y.port.sticky = x.port.sticky
         /\ y.port.req = Bit(v, POWERUP)
         /\ y.port.csw = IF Bit(v, POWERUP) THEN x.port.csw ELSE NoSize
<1>1. PICK z : /\ Dap(z) /\ Chain(z) /\ AtDp(z)
               /\ z.st.jtagnsw = x.st.jtagnsw /\ z.st.on = x.st.on /\ z.st.banksel = x.st.banksel
               /\ z.st.csw = x.st.csw /\ z.st.error = x.st.error
               /\ z.port.bank = x.port.bank /\ z.port.csw = x.port.csw
               /\ z.port.sticky = x.port.sticky
               /\ Access(x, DP, WRITE, CTRLSTAT, v) = DpWrite(z, CTRLSTAT, v)
  <2>1. ~SWRefused(x, DP, CTRLSTAT)
    BY DEF SWRefused, AP, DP
  <2> QED
    BY <2>1, DpAccessReaches DEF READ, WRITE
<1>2. y = [z EXCEPT !.port.req = Bit(v, POWERUP),
                    !.port.sticky = @ /\ ~(z.st.jtagnsw /\ Bit(v, STICKYERR)),
                    !.port.csw = IF Bit(v, POWERUP) THEN @ ELSE NoSize]
  BY <1>1 DEF DPWriteCTRLSTAT, DpWrite, CTRLSTAT, ABORT, SELECT
<1>3. PICK r : r = Bit(v, POWERUP)
  OBVIOUS
<1>4. PICK c : c = IF r THEN z.port.csw ELSE NoSize
  OBVIOUS
<1>5. y = [z EXCEPT !.port = [z.port EXCEPT !.req = r, !.sticky = z.port.sticky, !.csw = c]]
  <2>1. PICK s \in BOOLEAN : s = (z.port.sticky /\ ~(z.st.jtagnsw /\ Bit(v, STICKYERR)))
    OBVIOUS
  <2>2. s = z.port.sticky
    BY <1>1, <2>1 DEF Dap
  <2>3. y = [z EXCEPT !.port = [z.port EXCEPT !.req = r, !.sticky = s, !.csw = c]]
    BY <1>1, <1>2, <1>3, <1>4, <2>1 DEF Dap, Parts
  <2> QED
    BY <2>2, <2>3
<1>6. y.st = z.st /\ y.port = [z.port EXCEPT !.req = r, !.sticky = z.port.sticky, !.csw = c]
  BY <1>1, <1>5 DEF Dap, Parts
<1>7. Dap(y)
  BY <1>1, <1>5, <1>6 DEF Dap, Parts
<1>8. Chain(y) /\ AtDp(y)
  BY <1>1, <1>6 DEF Chain, AtDp, Dap, Parts
<1> QED
  BY <1>1, <1>3, <1>4, <1>6, <1>7, <1>8 DEF Dap, Parts

-----------------------------------------------------------------------------
(* Registers.                                                               *)

\* What changes neither the program's picture nor the port keeps every state
\* of them.
Alike(x, y) == Dap(y) /\ y.st = x.st /\ y.port = x.port

LEMMA AlikeKeeps ==
  ASSUME NEW x, NEW y, Alike(x, y)
  PROVE  /\ Pictured(x) => Pictured(y)
         /\ AtBank0(x) => AtBank0(y)
         /\ Scanned(x) => Scanned(y)
         /\ Resting(x) => Resting(y)
BY DEF Alike, Pictured, AtBank0, Scanned, Resting, Chain, Chained, Bad, Banks, Sizes, AtDp, Known

\* An access to the access port that does not set the size, over the bank 0.
LEMMA ApAccess ==
  ASSUME NEW x, AtBank0(x) \/ Scanned(x), NEW rnw \in {READ, WRITE}, NEW a \in {TAR, DRW}, NEW v,
         NEW y, y = Access(x, AP, rnw, a, v)
  PROVE  AtBank0(y)
<1>1. Dap(x) /\ Chained(x) /\ (Chain(x) \/ x.st.jtagapndp # AP)
      /\ (Bad(x) \/ (Banks(x) /\ Sizes(x) /\ x.port.bank = 0))
  <2>1. CASE AtBank0(x)
    BY <2>1 DEF AtBank0, Pictured, Chain, Chained
  <2>2. CASE Scanned(x)
    BY <2>2 DEF Scanned, AtDp, Chain
  <2> QED
    BY <2>1, <2>2
<1>2. ~Clears(AP, rnw, a, v) /\ ~Switches(AP, rnw, a)
  BY DEF Clears, Switches, AP, DP
<1>3. x.port.bank = 0 => ~Sizing(x, AP, rnw, a)
  BY DEF Sizing, ApRegister, AP, DP, TAR, DRW, CSW
<1>4. AP \in {AP, DP}
  OBVIOUS
<1>5. /\ Dap(y) /\ Same(x, y) /\ Chain(y)
      /\ Bad(y) \/ y.port.bank = x.port.bank
      /\ ~Sizing(x, AP, rnw, a) => Bad(y) \/ y.port.csw = x.port.csw
  BY <1>1, <1>2, <1>4, AccessApart
<1> QED
  BY <1>1, <1>3, <1>5 DEF AtBank0, Pictured, Same, Banks, Sizes

LEMMA BankSelected ==
  ASSUME NEW x, NEW banksel, NEW y, y = DPWriteBANKSEL(x, banksel)
  PROVE  /\ Pictured(x) => Pictured(y)
         /\ Pictured(x) /\ banksel = 0 => AtBank0(y)
         /\ Scanned(x) /\ banksel = 0 => Scanned(y)
<1>1. CASE x.st.banksel = banksel
  <2>1. y = x
    BY <1>1 DEF DPWriteBANKSEL
  <2> QED
    BY <1>1, <2>1 DEF Pictured, AtBank0, Banks
<1>2. ASSUME x.st.banksel # banksel, Pictured(x) \/ (Scanned(x) /\ banksel = 0)
      PROVE  /\ Pictured(x) => Pictured(y) /\ (banksel = 0 => AtBank0(y))
             /\ Scanned(x) /\ banksel = 0 => Scanned(y)
  <2>1. PICK w : w = Access(x, DP, WRITE, SELECT, banksel)
    OBVIOUS
  <2>2. y = [w EXCEPT !.st = [w.st EXCEPT !.banksel = banksel]]
    BY <1>2, <2>1 DEF DPWriteBANKSEL
  <2>3. Dap(x) /\ Chained(x)
    BY <1>2 DEF Pictured, Scanned, Chain, Chained
  <2>4. ~Clears(DP, WRITE, SELECT, banksel) /\ Switches(DP, WRITE, SELECT)
        /\ ~Sizing(x, DP, WRITE, SELECT)
    BY DEF Clears, Switches, Sizing, AP, DP, READ, WRITE, SELECT, ABORT, CTRLSTAT
  <2>5. DP \in {AP, DP} /\ WRITE \in {READ, WRITE}
    OBVIOUS
  <2>6. /\ Dap(w) /\ Same(x, w) /\ Chained(w)
        /\ w.st.jtagnsw => w.st.jtagapndp = DP
        /\ Chain(x) => Chain(w)
        /\ Bad(w) \/ w.port.csw = x.port.csw
        /\ Bad(w) \/ w.port.bank \in {x.port.bank, banksel}
        /\ Chain(x) => Bad(w) \/ w.port.bank = banksel
    BY <2>1, <2>3, <2>4, <2>5, AccessApart
  <2>7. y.st = [w.st EXCEPT !.banksel = banksel] /\ y.port = w.port
    BY <2>2, <2>6 DEF Dap, Parts
  <2>8. Dap(y)
    BY <2>2, <2>6, <2>7 DEF Dap, Parts
  <2>9. /\ y.st.jtagnsw = w.st.jtagnsw /\ y.st.jtagapndp = w.st.jtagapndp
        /\ y.st.banksel = banksel /\ y.st.csw = w.st.csw /\ y.st.error = w.st.error
    BY <2>6, <2>7 DEF Dap, Parts
  <2>10. Chained(y) /\ AtDp(y) /\ (Chain(x) => Chain(y)) /\ (Bad(x) => Bad(y))
    BY <2>6, <2>7, <2>9 DEF Chained, AtDp, Chain, Bad, AP, DP, Same
  <2>11. Bad(y) \/ (y.port.csw = x.port.csw /\ y.st.csw = x.st.csw
                      /\ y.port.bank \in {x.port.bank, banksel}
                      /\ (Chain(x) => y.port.bank = banksel))
    BY <2>6, <2>7, <2>9 DEF Bad, Same
  <2> QED
    BY <2>8, <2>9, <2>10, <2>11 DEF Pictured, AtBank0, Scanned, Banks, Sizes
<1> QED
  BY <1>1, <1>2

LEMMA SizeWritten ==
  ASSUME NEW x, Ready(x), NEW csw, NEW y, y = APWriteCSW(x, csw)
  PROVE  Ready(y)
<1>1. CASE x.st.csw = csw
  BY <1>1 DEF APWriteCSW
<1>2. CASE x.st.csw # csw
  <2>1. PICK z : z = DPWriteBANKSEL(x, 0)
    OBVIOUS
  <2>2. PICK w : w = Access(z, AP, WRITE, CSW, csw)
    OBVIOUS
  <2>3. y = [w EXCEPT !.st = [w.st EXCEPT !.csw = csw]]
    BY <1>2, <2>1, <2>2 DEF APWriteCSW
  <2>4. AtBank0(z) \/ Scanned(z)
    BY <2>1, BankSelected DEF Ready
  <2>5. Dap(z) /\ Chained(z) /\ (Chain(z) \/ z.st.jtagapndp # AP)
        /\ (Bad(z) \/ (Banks(z) /\ Sizes(z) /\ z.port.bank = 0))
    <3>1. CASE AtBank0(z)
      BY <3>1 DEF AtBank0, Pictured, Chain, Chained
    <3>2. CASE Scanned(z)
      BY <3>2 DEF Scanned, AtDp, Chain
    <3> QED
      BY <2>4, <3>1, <3>2
  <2>6. ~Clears(AP, WRITE, CSW, csw) /\ ~Switches(AP, WRITE, CSW)
    BY DEF Clears, Switches, AP, DP
  <2>7. z.port.bank = 0 => Sizing(z, AP, WRITE, CSW)
    BY DEF Sizing, ApRegister, CSW
  <2>8. AP \in {AP, DP} /\ WRITE \in {READ, WRITE}
    OBVIOUS
  <2>9. /\ Dap(w) /\ Same(z, w) /\ Chain(w)
        /\ Bad(w) \/ w.port.bank = z.port.bank
        /\ Sizing(z, AP, WRITE, CSW) => Bad(w) \/ w.port.csw = csw
    BY <2>2, <2>5, <2>6, <2>8, AccessApart
  <2>10. y.st = [w.st EXCEPT !.csw = csw] /\ y.port = w.port
    BY <2>3, <2>9 DEF Dap, Parts
  <2>11. Dap(y)
    BY <2>3, <2>9, <2>10 DEF Dap, Parts
  <2>12. /\ y.st.jtagnsw = w.st.jtagnsw /\ y.st.jtagapndp = w.st.jtagapndp
         /\ y.st.banksel = w.st.banksel /\ y.st.csw = csw /\ y.st.error = w.st.error
    BY <2>9, <2>10 DEF Dap, Parts
  <2>13. Chain(y) /\ (Bad(z) => Bad(y))
    BY <2>9, <2>10, <2>12 DEF Chain, Bad, Same
  <2>14. Bad(y) \/ (Banks(y) /\ Sizes(y))
    BY <2>5, <2>7, <2>9, <2>10, <2>12, <2>13 DEF Bad, Same, Banks, Sizes
  <2> QED
    BY <2>11, <2>13, <2>14 DEF Ready, Pictured
<1> QED
  BY <1>1, <1>2

LEMMA ApRegisters ==
  ASSUME NEW x, Ready(x), NEW v
  PROVE  AtBank0(APWriteTAR(x, v)) /\ AtBank0(APReadDRW(x)) /\ AtBank0(APWriteDRW(x, v))
<1>1. PICK z : z = DPWriteBANKSEL(x, 0)
  OBVIOUS
<1>2. AtBank0(z) \/ Scanned(z)
  BY <1>1, BankSelected DEF Ready
<1>3. AtBank0(Access(z, AP, WRITE, TAR, v)) /\ AtBank0(Access(z, AP, READ, DRW, 0))
      /\ AtBank0(Access(z, AP, WRITE, DRW, v))
  BY <1>2, ApAccess
<1> QED
  BY <1>1, <1>3 DEF APWriteTAR, APReadDRW, APWriteDRW

\* A read of the debug port.
LEMMA DpRegister ==
  ASSUME NEW x, Pictured(x), NEW a, NEW y, y = Access(x, DP, READ, a, 0)
  PROVE  /\ Pictured(y) /\ AtDp(y) /\ (AtBank0(x) => AtBank0(y))
         /\ Known(x) \/ a = RDBUFF => Known(y)
<1>1. Dap(x) /\ Chain(x) /\ Chained(x)
  BY DEF Pictured, Chain, Chained
<1>2. ~Clears(DP, READ, a, 0) /\ ~Switches(DP, READ, a) /\ ~Sizing(x, DP, READ, a)
  BY DEF Clears, Switches, Sizing, READ, WRITE, AP, DP
<1>3. DP \in {AP, DP} /\ READ \in {READ, WRITE}
  OBVIOUS
<1>4. /\ Dap(y) /\ Same(x, y) /\ Chain(y)
      /\ y.st.jtagnsw => y.st.jtagapndp = DP
      /\ Bad(y) \/ y.port.bank = x.port.bank
      /\ Bad(y) \/ y.port.csw = x.port.csw
  BY <1>1, <1>2, <1>3, AccessApart
<1>5. Pictured(y) /\ AtDp(y) /\ (AtBank0(x) => AtBank0(y))
  BY <1>4 DEF Pictured, AtBank0, AtDp, Same, Banks, Sizes, AP, DP
<1>6. ASSUME Known(x) \/ a = RDBUFF PROVE Known(y)
  <2>1. CASE SWRefused(x, DP, a)
    <3>1. y = SWFault(x) /\ x.st.error \in 0 .. MaxError
      BY <1>1, <2>1 DEF Access, Dap, Parts
    <3>2. y.st.error # 0
      <4>1. PICK c : c = CountError(x)
        OBVIOUS
      <4>2. c.st.error # 0 /\ Dap(c)
        BY <1>1, <3>1, <4>1 DEF CountError, MaxError, Dap, Parts
      <4>3. y = [c EXCEPT !.st.ack = "FAULT", !.rd = Bogus, !.port.sticky = TRUE]
        BY <3>1, <4>1 DEF SWFault
      <4>4. y.st = [c.st EXCEPT !.ack = "FAULT"]
        BY <4>2, <4>3 DEF Dap, Parts
      <4> QED
        BY <4>2, <4>4 DEF Dap
    <3> QED
      BY <3>2 DEF Known
  <2>2. CASE ~SWRefused(x, DP, a)
    <3>1. PICK z : /\ Dap(z) /\ z.st.jtagnsw = x.st.jtagnsw /\ z.st.error = x.st.error
                   /\ z.port.sticky = x.port.sticky
                   /\ y = DpRead(z, a)
      BY <1>1, <2>2, DpAccessReaches DEF READ, WRITE
    <3>2. y.st = z.st /\ y.port.sticky = z.port.sticky
      BY <3>1, DpReadApart DEF Apart
    <3>3. Known(x)
      BY <1>6, <2>2 DEF SWRefused, Known, RDBUFF, CTRLSTAT, DPIDR, AP, DP
    <3> QED
      BY <3>1, <3>2, <3>3 DEF Known
  <2> QED
    BY <2>1, <2>2
<1> QED
  BY <1>5, <1>6

LEMMA BufferRead ==
  ASSUME NEW x, Pictured(x), NEW y, y = DPReadRDBUFF(x)
  PROVE  Pictured(y) /\ AtDp(y) /\ Known(y) /\ (AtBank0(x) => Resting(y))
BY DpRegister DEF DPReadRDBUFF, Resting

-----------------------------------------------------------------------------
(* Memory and the answers of functions.                                     *)

LEMMA RestingIsReady ==
  ASSUME NEW x
  PROVE  /\ Resting(x) => AtBank0(x) /\ Ready(x)
         /\ AtBank0(x) => Ready(x) /\ Pictured(x)
         /\ Pictured(x) => Ready(x)
         /\ Scanned(x) => Ready(x)
         /\ Resting(x) \/ Pictured(x) \/ AtBank0(x) \/ Scanned(x) => Dap(x)
BY DEF Resting, AtBank0, Ready, Pictured, Scanned

LEMMA MemoryRests ==
  ASSUME NEW x, Ready(x), NEW csw, NEW address, NEW data
  PROVE  Resting(ReadSized(x, csw, address)) /\ Resting(WriteSized(x, csw, address, data))
<1>1. PICK z : z = APWriteTAR(APWriteCSW(x, csw), address)
  OBVIOUS
<1>2. AtBank0(z)
  BY <1>1, SizeWritten, ApRegisters
<1>3. AtBank0(APReadDRW(z)) /\ AtBank0(APWriteDRW(z, data))
  BY <1>2, ApRegisters, RestingIsReady
<1>4. Resting(DPReadRDBUFF(APReadDRW(z))) /\ Resting(DPReadRDBUFF(APWriteDRW(z, data)))
  BY <1>3, BufferRead, RestingIsReady
<1> QED
  BY <1>1, <1>4 DEF ReadSized, WriteSized

LEMMA RegionRests ==
  ASSUME NEW x, Ready(x), NEW i, NEW data
  PROVE  Resting(ReadCommRegion(x, i)) /\ Resting(WriteCommRegion(x, i, data))
<1>1. Resting(WriteCommRegion(x, i, data))
  BY MemoryRests DEF WriteCommRegion, WriteMem
<1>2. PICK y : y = ReadMem(x, x.mcu.stacktop + 4 * i)
  OBVIOUS
<1>3. Resting(y) /\ Dap(y)
  BY <1>2, MemoryRests, RestingIsReady DEF ReadMem
<1>4. PICK w : w = SwapEndian(y.rd)
  OBVIOUS
<1>5. ReadCommRegion(x, i) = [y EXCEPT !.rd = w]
  BY <1>2, <1>4 DEF ReadCommRegion
<1>6. Alike(y, [y EXCEPT !.rd = w])
  BY <1>3 DEF Alike, Dap, Parts
<1> QED
  BY <1>1, <1>3, <1>5, <1>6, AlikeKeeps

LEMMA RegionFound ==
  ASSUME NEW x, Resting(x)
  PROVE  Resting(InitCommRegion(x))
<1>1. CASE x.mcu.stacktop # 0
  BY <1>1 DEF InitCommRegion
<1>2. CASE ~(x.mcu.stacktop # 0)
  <2>1. PICK y : y = ReadMem(x, 0)
    OBVIOUS
  <2>2. Resting(y) /\ Dap(y)
    BY <2>1, MemoryRests, RestingIsReady DEF ReadMem
  <2>3. PICK w : w = SwapEndian(y.rd)
    OBVIOUS
  <2>4. InitCommRegion(x) = [y EXCEPT !.mcu.stacktop = w]
    BY <1>2, <2>1, <2>3 DEF InitCommRegion, SetStackTop
  <2>5. Alike(y, [y EXCEPT !.mcu.stacktop = w])
    BY <2>2 DEF Alike, Dap, Parts
  <2> QED
    BY <2>2, <2>4, <2>5, AlikeKeeps
<1> QED
  BY <1>1, <1>2

LEMMA ReturnRests ==
  ASSUME NEW x, NEW v
  PROVE  /\ Resting(x) => Resting(Return(x, v))
         /\ Dap(x) => Return(x, v).rd = v /\ Return(x, v).st = x.st /\ Return(x, v).port = x.port
<1>1. Dap(x) => Alike(x, [x EXCEPT !.rd = v]) /\ [x EXCEPT !.rd = v].rd = v
  BY DEF Alike, Dap, Parts
<1> QED
  BY <1>1, AlikeKeeps, RestingIsReady DEF Return, Alike

\* The check at the end of a function finds every error.
LEMMA CheckRests ==
  ASSUME NEW x, Resting(x), NEW y, y = CheckDAPSTATUS(x)
  PROVE  Resting(y) /\ (y.rd = TEST_PASS => ~Bad(y))
<1>1. \A z, w : Resting(z) /\ w = Verdict(z) =>
          Resting(w) /\ w.st = z.st /\ w.port = z.port /\ (w.rd = TEST_PASS => z.st.error = 0)
  <2> SUFFICES ASSUME NEW z, NEW w, Resting(z), w = Verdict(z)
               PROVE  Resting(w) /\ w.st = z.st /\ w.port = z.port
                      /\ (w.rd = TEST_PASS => z.st.error = 0)
    OBVIOUS
  <2>1. PICK v : v = IF z.st.error # 0 THEN TEST_FAIL ELSE TEST_PASS
    OBVIOUS
  <2>2. w = Return(z, v)
    BY <2>1 DEF Verdict, Return
  <2> QED
    BY <2>1, <2>2, ReturnRests, RestingIsReady DEF TEST_PASS, TEST_FAIL
<1>2. CASE ~x.st.jtagnsw
  <2>1. y = Verdict(x)
    BY <1>2 DEF CheckDAPSTATUS
  <2>2. Resting(y) /\ y.st = x.st /\ y.port = x.port /\ (y.rd = TEST_PASS => x.st.error = 0)
    BY <1>1, <2>1
  <2> QED
    BY <1>2, <2>2 DEF Resting, Known, Bad
<1>3. CASE x.st.jtagnsw
  <2>1. PICK r : r = DPReadCTRLSTAT(x)
    OBVIOUS
  <2>2. Dap(x) /\ Chain(x)
    BY DEF Resting, AtBank0, Pictured
  <2>3. /\ Dap(r) /\ Chain(r) /\ AtDp(r)
        /\ r.st.jtagnsw = x.st.jtagnsw /\ r.st.on = x.st.on /\ r.st.banksel = x.st.banksel
        /\ r.st.csw = x.st.csw /\ r.st.error = x.st.error
        /\ r.port.bank = x.port.bank /\ r.port.csw = x.port.csw
        /\ r.port.req = x.port.req /\ r.port.sticky = x.port.sticky
        /\ r.rd = CtrlStatWord(x)
    BY <2>1, <2>2, CtrlStatRead
  <2>4. Resting(r)
    BY <1>3, <2>3 DEF Resting, AtBank0, Pictured, Known, Bad, Banks, Sizes
  <2>5. Bit(r.rd, STICKYERR) <=> x.port.sticky
    <3>1. x.port.sticky \in BOOLEAN
      BY <2>2 DEF Dap, Parts
    <3> QED
      BY <2>3, <3>1 DEF CtrlStatWord, Bit, STICKYERR, POWERUP
  <2>6. PICK c : c = CountSticky(r)
    OBVIOUS
  <2>7. CASE ~x.port.sticky
    <3>1. c = r
      BY <2>5, <2>6, <2>7 DEF CountSticky
    <3>2. y = Verdict(r)
      BY <1>3, <2>1, <2>6, <3>1 DEF CheckDAPSTATUS
    <3> QED
      BY <1>1, <2>3, <2>4, <2>7, <3>2 DEF Bad
  <2>8. CASE x.port.sticky
    <3>1. PICK e : e = (IF r.st.error < MaxError THEN r.st.error + 1 ELSE r.st.error)
      OBVIOUS
    <3>2. e \in 0 .. MaxError /\ e # 0
      BY <2>3, <3>1 DEF Dap, Parts, MaxError
    <3>3. c = [r EXCEPT !.st = [r.st EXCEPT !.error = e]]
      BY <2>3, <2>5, <2>6, <2>8, <3>1 DEF CountSticky, CountError, Dap, Parts
    <3>4. c.st = [r.st EXCEPT !.error = e] /\ c.port = r.port
      BY <2>3, <3>3 DEF Dap, Parts
    <3>5. Dap(c)
      BY <2>3, <3>2, <3>3, <3>4 DEF Dap, Parts
    <3>6. /\ c.st.jtagnsw = r.st.jtagnsw /\ c.st.jtagapndp = r.st.jtagapndp
          /\ c.st.error = e
      BY <2>3, <3>4 DEF Dap, Parts
    <3>7. Resting(c)
      BY <2>3, <3>2, <3>4, <3>5, <3>6
         DEF Resting, AtBank0, Pictured, Chain, AtDp, Known, Bad
    <3>8. y = Verdict(c)
      BY <1>3, <2>1, <2>6 DEF CheckDAPSTATUS
    <3> QED
      BY <1>1, <3>2, <3>6, <3>7, <3>8
  <2> QED
    BY <2>7, <2>8
<1> QED
  BY <1>2, <1>3

LEMMA AnswerRests ==
  ASSUME NEW x, Ready(x), NEW y, y = Answer(x)
  PROVE  Resting(y) /\ (y.rd = TEST_PASS => ~Bad(y))
<1>1. Resting(WriteCommRegion(x, 0, x.rd))
  BY RegionRests
<1> QED
  BY <1>1, CheckRests DEF Answer

LEMMA FetchKeeps ==
  ASSUME NEW x, Pictured(x), NEW a
  PROVE  /\ Pictured(DpReadNow(x, a))
         /\ AtBank0(x) => AtBank0(DpReadNow(x, a))
<1>1. PICK w : w = Access(x, DP, READ, a, 0)
  OBVIOUS
<1>2. Pictured(w) /\ (AtBank0(x) => AtBank0(w))
  BY <1>1, DpRegister
<1>3. Pictured(DPReadRDBUFF(w)) /\ (AtBank0(w) => AtBank0(DPReadRDBUFF(w)))
  BY <1>2, BufferRead DEF Resting
<1> QED
  BY <1>1, <1>2, <1>3 DEF DpReadNow, Fetch

\* A read of the access port under any bank.
LEMMA ApReadKeeps ==
  ASSUME NEW x, Pictured(x), NEW a
  PROVE  Pictured(ApReadNow(x, a))
<1>1. PICK b : b = a % 16
  OBVIOUS
<1>2. PICK w : w = Access(x, AP, READ, b, 0)
  OBVIOUS
<1>3. Dap(x) /\ Chain(x) /\ Chained(x)
  BY DEF Pictured, Chain, Chained
<1>4. ~Clears(AP, READ, b, 0) /\ ~Switches(AP, READ, b) /\ ~Sizing(x, AP, READ, b)
  BY DEF Clears, Switches, Sizing, READ, WRITE, AP, DP
<1>5. AP \in {AP, DP} /\ READ \in {READ, WRITE}
  OBVIOUS
<1>6. /\ Dap(w) /\ Same(x, w) /\ Chain(w)
      /\ Bad(w) \/ w.port.bank = x.port.bank
      /\ Bad(w) \/ w.port.csw = x.port.csw
  BY <1>2, <1>3, <1>4, <1>5, AccessApart
<1>7. Pictured(w)
  BY <1>6 DEF Pictured, Same, Banks, Sizes
<1> QED
  BY <1>1, <1>2, <1>7, BufferRead DEF ApReadNow

-----------------------------------------------------------------------------
(* Blocks.  The records after the first words of one form a sequence.       *)

LEMMA NatSetInduction ==
  ASSUME NEW T, 0 \in T, \A n \in Nat : n \in T => n + 1 \in T
  PROVE  \A n \in Nat : n \in T
<1> DEFINE R == {ss \in Nat \X Nat : ss[1] < ss[2]}
<1>1. R = OpToRel(<, Nat)
  BY Zenon DEF OpToRel
<1>2. IsWellFoundedOn(R, Nat)
  BY <1>1, NatLessThanWellFounded
<1>3. SUFFICES ASSUME Nat \ T # {} PROVE FALSE
  OBVIOUS
<1>4. PICK x \in Nat \ T : \A y \in Nat \ T : <<y, x>> \notin R
  <2> HIDE DEF R
  <2> QED
    BY <1>2, <1>3, WFMin
<1>5. x # 0 /\ x - 1 \in Nat
  BY <1>4
<1>6. <<x - 1, x>> \in R
  BY <1>5
<1>7. x - 1 \in T
  BY <1>4, <1>5, <1>6
<1> QED
  BY <1>4, <1>5, <1>7

BlockNext(x, write, address, data, i) ==
    IF write THEN WriteNext(x, address, data, i) ELSE ReadNext(x, address, i)
IsBlock(f, x, write, address, data, n) ==
    f = [i \in 0 .. n |-> IF i = 0 THEN x ELSE BlockNext(f[i - 1], write, address, data, i - 1)]

LEMMA BlockExists ==
  ASSUME NEW x, NEW write, NEW address, NEW data, NEW n \in Nat
  PROVE  \E f : IsBlock(f, x, write, address, data, n)
<1> DEFINE T == {m \in Nat : \E f : IsBlock(f, x, write, address, data, m)}
<1>1. 0 \in T
  <2>1. IsBlock([i \in 0 .. 0 |-> x], x, write, address, data, 0)
    BY DEF IsBlock
  <2> QED
    BY <2>1
<1>2. ASSUME NEW m \in Nat, m \in T PROVE m + 1 \in T
  <2>1. PICK f : IsBlock(f, x, write, address, data, m)
    BY <1>2
  <2> DEFINE g == [i \in 0 .. (m + 1) |-> IF i <= m THEN f[i]
                                          ELSE BlockNext(f[m], write, address, data, m)]
  <2>2. ASSUME NEW i \in 0 .. (m + 1)
        PROVE  g[i] = IF i = 0 THEN x ELSE BlockNext(g[i - 1], write, address, data, i - 1)
    <3>1. CASE i = 0
      BY <2>1, <3>1 DEF IsBlock
    <3>2. CASE i \in 1 .. m
      BY <2>1, <3>2 DEF IsBlock
    <3>3. CASE i = m + 1
      BY <3>3
    <3> QED
      BY <3>1, <3>2, <3>3
  <2>3. IsBlock(g, x, write, address, data, m + 1)
    <3>1. g = [i \in 0 .. (m + 1) |-> g[i]]
      OBVIOUS
    <3> HIDE DEF g
    <3>2. [i \in 0 .. (m + 1) |-> g[i]]
             = [i \in 0 .. (m + 1) |->
                   IF i = 0 THEN x ELSE BlockNext(g[i - 1], write, address, data, i - 1)]
      BY <2>2
    <3> QED
      BY <3>1, <3>2, Zenon DEF IsBlock
  <2> QED
    BY <2>3
<1>3. n \in T
  <2> HIDE DEF T
  <2> QED
    BY <1>1, <1>2, NatSetInduction
<1> QED
  BY <1>3

LEMMA KeepAlike ==
  ASSUME NEW x, Dap(x)
  PROVE  Alike(x, Keep(x))
<1>1. PICK b : b = Append(x.block, x.rd)
  OBVIOUS
<1>2. Keep(x) = [x EXCEPT !.block = b]
  BY <1>1 DEF Keep
<1> QED
  BY <1>2 DEF Alike, Dap, Parts

LEMMA BlockNextKeeps ==
  ASSUME NEW x, AtBank0(x), NEW write, NEW address, NEW data, NEW i
  PROVE  AtBank0(BlockNext(x, write, address, data, i))
<1>1. PICK z : z = AtWord(x, address + 4 * i)
  OBVIOUS
<1>2. PICK u : u = AtWord(x, address)
  OBVIOUS
<1>3. Ready(z) /\ Ready(u)
  BY <1>1, <1>2, ApRegisters, RestingIsReady DEF AtWord
<1>4. AtBank0(APReadDRW(u)) /\ AtBank0(APReadDRW(z)) /\ AtBank0(APWriteDRW(z, data[i + 1]))
  BY <1>3, ApRegisters
<1>5. AtBank0(Keep(APReadDRW(z)))
  BY <1>4, KeepAlike, AlikeKeeps, RestingIsReady
<1> QED
  BY <1>1, <1>2, <1>4, <1>5 DEF BlockNext, ReadNext, WriteNext

LEMMA BlockKeeps ==
  ASSUME NEW x, AtBank0(x), NEW write, NEW address, NEW data, NEW n \in Nat,
         NEW f, IsBlock(f, x, write, address, data, n)
  PROVE  AtBank0(f[n])
<1> DEFINE T == {m \in Nat : m <= n => AtBank0(f[m])}
<1>1. \A i \in 0 .. n :
          f[i] = IF i = 0 THEN x ELSE BlockNext(f[i - 1], write, address, data, i - 1)
  BY DEF IsBlock
<1>2. 0 \in T
  BY <1>1
<1>3. ASSUME NEW m \in Nat, m \in T PROVE m + 1 \in T
  <2>1. SUFFICES ASSUME m + 1 <= n PROVE AtBank0(f[m + 1])
    OBVIOUS
  <2>2. f[m + 1] = BlockNext(f[m], write, address, data, m)
    BY <1>1, <2>1
  <2>3. AtBank0(f[m])
    BY <1>3, <2>1
  <2> QED
    BY <2>2, <2>3, BlockNextKeeps
<1>4. n \in T
  <2> HIDE DEF T
  <2> QED
    BY <1>2, <1>3, NatSetInduction
<1> QED
  BY <1>4

\* A block access ends with the last of them.
Emptied(x) == [x EXCEPT !.block = <<>>]

LEMMA ReadBlockRuns ==
  ASSUME NEW x, NEW address, NEW n \in Nat,
         NEW s, s = APWriteTAR(APWriteCSW(Emptied(x), WORDS), address)
  PROVE  \E f : /\ IsBlock(f, s, FALSE, address, <<>>, n)
                /\ ReadMemBlock(x, address, n) = Keep(DPReadRDBUFF(f[n]))
<1> DEFINE f == CHOOSE f : f = [i \in 0 .. n |->
                   IF i = 0 THEN s ELSE ReadNext(f[i - 1], address, i - 1)]
<1>1. ReadMemBlock(x, address, n) = Keep(DPReadRDBUFF(f[n]))
  BY Zenon DEF ReadMemBlock, Emptied
<1>2. \E g : g = [i \in 0 .. n |-> IF i = 0 THEN s ELSE ReadNext(g[i - 1], address, i - 1)]
  <2>1. PICK g : IsBlock(g, s, FALSE, address, <<>>, n)
    BY BlockExists
  <2> QED
    BY <2>1, Zenon DEF IsBlock, BlockNext
<1>3. f = [i \in 0 .. n |-> IF i = 0 THEN s ELSE ReadNext(f[i - 1], address, i - 1)]
  BY <1>2, Zenon
<1> HIDE DEF f
<1>4. IsBlock(f, s, FALSE, address, <<>>, n)
  BY <1>3, Zenon DEF IsBlock, BlockNext
<1> QED
  BY <1>1, <1>4

LEMMA WriteBlockRuns ==
  ASSUME NEW x, NEW address, NEW data, Len(data) \in Nat
  PROVE  \E f : /\ IsBlock(f, APWriteTAR(APWriteCSW(x, WORDS), address), TRUE, address, data,
                           Len(data))
                /\ WriteMemBlock(x, address, data) = DPReadRDBUFF(f[Len(data)])
<1>1. PICK n \in Nat : n = Len(data)
  OBVIOUS
<1>2. PICK s : s = APWriteTAR(APWriteCSW(x, WORDS), address)
  OBVIOUS
<1> DEFINE f == CHOOSE f : f = [i \in 0 .. n |->
                   IF i = 0 THEN s ELSE WriteNext(f[i - 1], address, data, i - 1)]
<1>3. WriteMemBlock(x, address, data) = DPReadRDBUFF(f[n])
  BY <1>1, <1>2, Zenon DEF WriteMemBlock
<1>4. \E g : g = [i \in 0 .. n |-> IF i = 0 THEN s ELSE WriteNext(g[i - 1], address, data, i - 1)]
  <2>1. PICK g : IsBlock(g, s, TRUE, address, data, n)
    BY BlockExists
  <2> QED
    BY <2>1, Zenon DEF IsBlock, BlockNext
<1>5. f = [i \in 0 .. n |-> IF i = 0 THEN s ELSE WriteNext(f[i - 1], address, data, i - 1)]
  BY <1>4, Zenon
<1> HIDE DEF f
<1>6. IsBlock(f, s, TRUE, address, data, n)
  BY <1>5, Zenon DEF IsBlock, BlockNext
<1> QED
  BY <1>1, <1>2, <1>3, <1>6

LEMMA BlocksRest ==
  ASSUME NEW x, Ready(x), NEW address, NEW data, NEW n \in Nat
  PROVE  /\ Resting(ReadMemBlock(x, address, n))
         /\ Len(data) \in Nat => Resting(WriteMemBlock(x, address, data))
<1>1. Resting(ReadMemBlock(x, address, n))
  <2>1. PICK e : e = Emptied(x)
    OBVIOUS
  <2>2. Ready(e)
    <3>1. Dap(x)
      BY RestingIsReady DEF Ready
    <3>2. Alike(x, e)
      BY <2>1, <3>1 DEF Alike, Dap, Parts, Emptied
    <3> QED
      BY <3>2, AlikeKeeps DEF Ready
  <2>3. PICK s : s = APWriteTAR(APWriteCSW(e, WORDS), address)
    OBVIOUS
  <2>4. AtBank0(s)
    BY <2>2, <2>3, SizeWritten, ApRegisters
  <2>5. PICK f : /\ IsBlock(f, s, FALSE, address, <<>>, n)
                 /\ ReadMemBlock(x, address, n) = Keep(DPReadRDBUFF(f[n]))
    BY <2>1, <2>3, ReadBlockRuns
  <2>6. AtBank0(f[n])
    BY <2>4, <2>5, BlockKeeps
  <2>7. Resting(DPReadRDBUFF(f[n]))
    BY <2>6, BufferRead, RestingIsReady
  <2> QED
    BY <2>5, <2>7, KeepAlike, AlikeKeeps, RestingIsReady
<1>2. ASSUME Len(data) \in Nat PROVE Resting(WriteMemBlock(x, address, data))
  <2>1. PICK m \in Nat : m = Len(data)
    BY <1>2
  <2>2. PICK s : s = APWriteTAR(APWriteCSW(x, WORDS), address)
    OBVIOUS
  <2>3. AtBank0(s)
    BY <2>2, SizeWritten, ApRegisters
  <2>4. PICK f : /\ IsBlock(f, s, TRUE, address, data, m)
                 /\ WriteMemBlock(x, address, data) = DPReadRDBUFF(f[m])
    BY <1>2, <2>1, <2>2, WriteBlockRuns
  <2>5. AtBank0(f[m])
    BY <2>3, <2>4, BlockKeeps
  <2> QED
    BY <2>4, <2>5, BufferRead, RestingIsReady
<1> QED
  BY <1>1, <1>2

-----------------------------------------------------------------------------
(* The functions of the table.                                              *)

\* What a function leaves: a port at rest, or a loop that nothing ends; and a
\* pass only without errors.
Stopped(x) == /\ Parts(x) /\ Coherent(x) /\ x.hung \in BOOLEAN
              /\ x.hung = FALSE => Resting(x)
Left(x) == Stopped(x) /\ (x.hung = FALSE /\ x.rd = TEST_PASS => ~Bad(x))

LEMMA RestingLeft ==
  ASSUME NEW x, Resting(x), x.rd = TEST_PASS => ~Bad(x)
  PROVE  Left(x)
BY DEF Left, Stopped, Resting, AtBank0, Pictured, Coherent, Dap

LEMMA FailLeft ==
  ASSUME NEW x, Resting(x)
  PROVE  Left(Return(x, TEST_FAIL))
<1>1. Resting(Return(x, TEST_FAIL)) /\ Return(x, TEST_FAIL).rd = TEST_FAIL
  BY ReturnRests, RestingIsReady
<1> QED
  BY <1>1, RestingLeft DEF TEST_PASS, TEST_FAIL

LEMMA CheckLeft ==
  ASSUME NEW x, Resting(x)
  PROVE  Left(CheckDAPSTATUS(x))
BY CheckRests, RestingLeft

LEMMA WaitLeft ==
  ASSUME NEW x, Resting(x), NEW c, NEW y, y = WaitFor(x, c)
  PROVE  Stopped(y)
<1>1. CASE c
  BY <1>1 DEF WaitFor, Stopped, Resting, AtBank0, Pictured, Coherent, Dap
<1>2. CASE ~c
  <2>1. Dap(x) /\ Coherent(x)
    BY DEF Resting, AtBank0, Pictured, Coherent
  <2>2. y = [x EXCEPT !.hung = TRUE]
    BY <1>2 DEF WaitFor
  <2>3. Parts(y) /\ y.st = x.st /\ y.port = x.port /\ y.hung = TRUE
    BY <2>1, <2>2 DEF Dap, Parts
  <2>4. Coherent(y)
    BY <2>1, <2>3 DEF Coherent, Chain, Bad, Banks, Sizes
  <2> QED
    BY <2>3, <2>4 DEF Stopped
<1> QED
  BY <1>1, <1>2

LEMMA AnswerLeft ==
  ASSUME NEW x, Ready(x)
  PROVE  Left(Answer(x))
BY AnswerRests, RestingLeft

LEMMA ArgumentRests ==
  ASSUME NEW x, Resting(x)
  PROVE  Resting(Argument(x))
BY RegionFound, RegionRests, RestingIsReady DEF Argument

LEMMA WhenOnLeft ==
  ASSUME NEW x, Resting(x), NEW y, Left(y)
  PROVE  Left(WhenOn(x, y))
BY FailLeft DEF WhenOn

LEMMA InterfaceLeft ==
  ASSUME NEW x, Resting(x)
  PROVE  /\ x.st.jtagapndp = 2 /\ ~Bad(x) => Left(SetInterfaceJTAG(x))
         /\ ~Bad(x) => Left(SetInterfaceSW(x))
<1>1. CASE x.st.on
  BY <1>1, FailLeft DEF SetInterfaceJTAG, SetInterfaceSW
<1>2. ASSUME ~x.st.on, x.st.jtagapndp = 2, ~Bad(x) PROVE Left(SetInterfaceJTAG(x))
  <2>1. PICK y : y = [[x EXCEPT !.port.ir = "IDCODE"] EXCEPT !.st.jtagnsw = TRUE]
    OBVIOUS
  <2>2. SetInterfaceJTAG(x) = Return(y, TEST_PASS)
    BY <1>2, <2>1 DEF SetInterfaceJTAG, JTAGScanIR
  <2>3. Dap(x)
    BY RestingIsReady
  <2>4. y = [x EXCEPT !.port = [x.port EXCEPT !.ir = "IDCODE"],
                      !.st = [x.st EXCEPT !.jtagnsw = TRUE]]
    BY <2>1, <2>3 DEF Dap, Parts
  <2>5. y.st = [x.st EXCEPT !.jtagnsw = TRUE] /\ y.port = [x.port EXCEPT !.ir = "IDCODE"]
    BY <2>3, <2>4 DEF Dap, Parts
  <2>6. Dap(y)
    BY <2>3, <2>4, <2>5 DEF Dap, Parts
  <2>7. /\ y.st.jtagapndp = 2 /\ y.st.banksel = x.st.banksel /\ y.st.csw = x.st.csw
        /\ y.st.jtagnsw = TRUE /\ y.st.error = x.st.error /\ y.port.sticky = x.port.sticky
        /\ y.port.bank = x.port.bank /\ y.port.csw = x.port.csw
    BY <1>2, <2>3, <2>5 DEF Dap
  <2>8. Resting(y) /\ ~Bad(y)
    BY <1>2, <2>6, <2>7
       DEF Resting, AtBank0, Pictured, Chain, AtDp, Known, Bad, Banks, Sizes, AP
  <2>9. Resting(Return(y, TEST_PASS)) /\ ~Bad(Return(y, TEST_PASS))
    BY <2>6, <2>8, ReturnRests DEF Bad
  <2> QED
    BY <2>2, <2>9, RestingLeft
<1>3. ASSUME ~x.st.on, ~Bad(x) PROVE Left(SetInterfaceSW(x))
  <2>1. PICK y : y = [x EXCEPT !.st = [x.st EXCEPT !.jtagnsw = FALSE]]
    OBVIOUS
  <2>2. SetInterfaceSW(x) = SWConnect(y)
    BY <1>3, <2>1 DEF SetInterfaceSW
  <2>3. Dap(x)
    BY RestingIsReady
  <2>4. y.st = [x.st EXCEPT !.jtagnsw = FALSE] /\ y.port = x.port
    BY <2>1, <2>3 DEF Dap, Parts
  <2>5. Dap(y)
    BY <2>1, <2>3, <2>4 DEF Dap, Parts
  <2>6. /\ y.st.banksel = x.st.banksel /\ y.st.csw = x.st.csw
        /\ y.st.jtagnsw = FALSE /\ y.st.error = x.st.error
    BY <2>3, <2>4 DEF Dap
  <2>7. Resting(y)
    BY <1>3, <2>4, <2>5, <2>6
       DEF Resting, AtBank0, Pictured, Chain, AtDp, Known, Bad, Banks, Sizes
  <2>8. Resting(Access(y, DP, READ, DPIDR, 0))
    BY <2>7, DpRegister DEF Resting, AtBank0
  <2> QED
    BY <2>2, <2>8, CheckLeft DEF SWConnect
<1> QED
  BY <1>1, <1>2, <1>3

LEMMA PowerUpLeft ==
  ASSUME NEW x, Resting(x)
  PROVE  Left(DAPPowerUp(x))
<1>1. CASE x.st.on
  BY <1>1, FailLeft DEF DAPPowerUp
<1>2. CASE ~x.st.on
  <2>1. PICK y : y = DPWriteCTRLSTAT(x, POWERUP)
    OBVIOUS
  <2>2. Bit(POWERUP, POWERUP) /\ ~Bit(POWERUP, STICKYERR)
    BY DEF Bit, POWERUP, STICKYERR
  <2>3. Dap(x) /\ Chain(x)
    BY DEF Resting, AtBank0, Pictured
  <2>4. /\ Dap(y) /\ Chain(y) /\ AtDp(y)
        /\ y.st.jtagnsw = x.st.jtagnsw /\ y.st.on = x.st.on /\ y.st.banksel = x.st.banksel
        /\ y.st.csw = x.st.csw /\ y.st.error = x.st.error
        /\ y.port.bank = x.port.bank /\ y.port.sticky = x.port.sticky
        /\ y.port.csw = x.port.csw
    BY <2>1, <2>2, <2>3, CtrlStatWrite
  <2>5. Resting(y)
    BY <2>4 DEF Resting, AtBank0, Pictured, Known, Bad, Banks, Sizes
  <2>6. PICK r : r = DPReadCTRLSTAT(y)
    OBVIOUS
  <2>7. /\ Dap(r) /\ Chain(r) /\ AtDp(r)
        /\ r.st.jtagnsw = y.st.jtagnsw /\ r.st.on = y.st.on /\ r.st.banksel = y.st.banksel
        /\ r.st.csw = y.st.csw /\ r.st.error = y.st.error
        /\ r.port.bank = y.port.bank /\ r.port.csw = y.port.csw
        /\ r.port.sticky = y.port.sticky
    BY <2>4, <2>6, CtrlStatRead
  <2>8. Resting(r)
    BY <2>5, <2>7 DEF Resting, AtBank0, Pictured, Known, Bad, Banks, Sizes
  <2>9. PICK w : w = WaitPower(r, TRUE)
    OBVIOUS
  <2>10. Stopped(w)
    BY <2>8, <2>9, WaitLeft DEF WaitPower
  <2>11. DAPPowerUp(x) = On(w)
    BY <1>2, <2>1, <2>6, <2>9 DEF DAPPowerUp
  <2>12. CASE w.hung # FALSE
    BY <2>10, <2>11, <2>12 DEF On, Left, Stopped
  <2>13. CASE w.hung = FALSE
    <3>1. PICK u : u = [w EXCEPT !.st = [w.st EXCEPT !.on = TRUE]]
      OBVIOUS
    <3>2. Resting(w) /\ Dap(w)
      BY <2>10, <2>13, RestingIsReady DEF Stopped
    <3>3. u.st = [w.st EXCEPT !.on = TRUE] /\ u.port = w.port
      BY <3>1, <3>2 DEF Dap, Parts
    <3>4. Dap(u)
      BY <3>1, <3>2, <3>3 DEF Dap, Parts
    <3>5. /\ u.st.jtagnsw = w.st.jtagnsw /\ u.st.jtagapndp = w.st.jtagapndp
          /\ u.st.banksel = w.st.banksel /\ u.st.csw = w.st.csw /\ u.st.error = w.st.error
      BY <3>2, <3>3 DEF Dap
    <3>6. Resting(u)
      BY <3>2, <3>3, <3>4, <3>5
         DEF Resting, AtBank0, Pictured, Chain, AtDp, Known, Bad, Banks, Sizes
    <3> QED
      BY <2>11, <2>13, <3>1, <3>6, CheckLeft DEF On
  <2> QED
    BY <2>12, <2>13
<1> QED
  BY <1>1, <1>2

\* Without power the port forgets the size, and the program all it knew.
LEMMA PowerDownLeft ==
  ASSUME NEW x, Resting(x)
  PROVE  Left(DAPPowerDown(x))
<1>1. PICK y : y = DPWriteCTRLSTAT(x, 0)
  OBVIOUS
<1>2. Bit(0, POWERUP) = FALSE /\ ~Bit(0, STICKYERR)
  BY DEF Bit, POWERUP, STICKYERR
<1>3. Dap(x) /\ Chain(x)
  BY DEF Resting, AtBank0, Pictured
<1>4. /\ Dap(y) /\ Chain(y) /\ AtDp(y)
      /\ y.st.jtagnsw = x.st.jtagnsw /\ y.st.error = x.st.error
      /\ y.port.bank = x.port.bank /\ y.port.sticky = x.port.sticky /\ y.port.req = FALSE
  BY <1>1, <1>2, <1>3, CtrlStatWrite
<1>5. PICK r : r = DPReadCTRLSTAT(y)
  OBVIOUS
<1>6. /\ Dap(r) /\ Chain(r)
      /\ r.st.jtagnsw = y.st.jtagnsw /\ r.st.error = y.st.error
      /\ r.port.bank = y.port.bank /\ r.port.sticky = y.port.sticky
      /\ r.rd = CtrlStatWord(y)
  BY <1>4, <1>5, CtrlStatRead
<1>7. ~Bit(r.rd, POWERUP)
  BY <1>4, <1>6 DEF CtrlStatWord, Powered, Bit, POWERUP, STICKYERR
<1>8. WaitPower(r, FALSE) = r
  BY <1>7 DEF WaitPower, WaitFor, Bit
<1>9. PICK u : u = [r EXCEPT !.st = [InitDAPSTATUS EXCEPT
                       !.jtagnsw = r.st.jtagnsw, !.error = r.st.error]]
  OBVIOUS
<1>10. Off(WaitPower(r, FALSE)) = CheckDAPSTATUS(u)
  BY <1>6, <1>8, <1>9 DEF Off, Dap
<1>11. u.port = r.port
       /\ u.st = [InitDAPSTATUS EXCEPT !.jtagnsw = r.st.jtagnsw, !.error = r.st.error]
  BY <1>6, <1>9 DEF Dap, Parts
<1>12. /\ u.st.jtagnsw = r.st.jtagnsw /\ u.st.error = r.st.error /\ u.st.jtagapndp = 2
       /\ u.st.banksel = 255 /\ u.st.csw = InitDAPSTATUS.csw
  BY <1>11 DEF InitDAPSTATUS
<1>13. Dap(u)
  <2>1. Parts(u) /\ u.hung = FALSE /\ u.mcu = r.mcu
    BY <1>6, <1>9 DEF Dap, Parts
  <2>2. u.st = [jtagnsw |-> u.st.jtagnsw, jtagapndp |-> u.st.jtagapndp, on |-> u.st.on,
                banksel |-> u.st.banksel, csw |-> u.st.csw, error |-> u.st.error,
                ack |-> u.st.ack, stkerrclr |-> u.st.stkerrclr]
        /\ u.st.on = FALSE
    <3>1. PICK c : c = [size |-> 255, incr |-> FALSE]
      OBVIOUS
    <3>2. InitDAPSTATUS = [jtagnsw |-> FALSE, jtagapndp |-> 2, on |-> FALSE, banksel |-> 255,
                           csw |-> c, error |-> 0, ack |-> "none", stkerrclr |-> FALSE]
      BY <3>1 DEF InitDAPSTATUS
    <3>3. PICK j, e : j = r.st.jtagnsw /\ e = r.st.error
      OBVIOUS
    <3>4. PICK d : d = [[jtagnsw |-> FALSE, jtagapndp |-> 2, on |-> FALSE, banksel |-> 255,
                         csw |-> c, error |-> 0, ack |-> "none", stkerrclr |-> FALSE]
                           EXCEPT !.jtagnsw = j, !.error = e]
      OBVIOUS
    <3>5. d = [jtagnsw |-> j, jtagapndp |-> 2, on |-> FALSE, banksel |-> 255,
               csw |-> c, error |-> e, ack |-> "none", stkerrclr |-> FALSE]
      BY <3>4
    <3>6. d = u.st
      BY <1>11, <3>2, <3>3, <3>4, Zenon
    <3> QED
      BY <3>5, <3>6
  <2> QED
    BY <1>6, <1>11, <1>12, <2>1, <2>2 DEF Dap
<1>14. Resting(u)
  BY <1>4, <1>6, <1>11, <1>12, <1>13
     DEF Resting, AtBank0, Pictured, Chain, AtDp, Known, Bad, Banks, Sizes, AP
<1> QED
  BY <1>1, <1>5, <1>10, <1>14, CheckLeft, WhenOnLeft DEF DAPPowerDown

LEMMA RegisterFunctionsLeft ==
  ASSUME NEW x, Resting(x)
  PROVE  /\ Left(GetTAPID(x)) /\ Left(GetDPReg(x)) /\ Left(GetAPReg(x)) /\ Left(GetAPMem(x))
         /\ Left(SetAPMem(x)) /\ Left(EnableHaltingDebug(x))
<1>1. Left(GetTAPID(x))
  <2>1. PICK y : y = InitCommRegion(x)
    OBVIOUS
  <2>2. Resting(y)
    BY <2>1, RegionFound
  <2>3. CASE ~x.st.jtagnsw
    BY <2>1, <2>2, <2>3, FailLeft DEF GetTAPID
  <2>4. CASE x.st.jtagnsw
    <3>1. PICK z : z = [y EXCEPT !.port = [y.port EXCEPT !.ir = "IDCODE"], !.rd = IdCode]
      OBVIOUS
    <3>2. Dap(y)
      BY <2>2, RestingIsReady
    <3>3. JTAGScanIDCODE(y) = z
      BY <3>1, <3>2 DEF JTAGScanIDCODE, JTAGScanIR, Dap, Parts
    <3>4. z.st = y.st /\ z.port = [y.port EXCEPT !.ir = "IDCODE"]
      BY <3>1, <3>2 DEF Dap, Parts
    <3>5. Dap(z)
      BY <3>1, <3>2, <3>4 DEF Dap, Parts
    <3>6. z.port.ir = "IDCODE" /\ z.port.bank = y.port.bank /\ z.port.csw = y.port.csw
          /\ z.port.sticky = y.port.sticky
      BY <3>2, <3>4 DEF Dap
    <3>7. Scanned(z)
      BY <2>2, <3>4, <3>5, <3>6
         DEF Scanned, Chained, Resting, AtBank0, Pictured, AtDp, Bad, Banks, Sizes
    <3>8. GetTAPID(x) = Answer(z)
      BY <2>1, <2>4, <3>3 DEF GetTAPID
    <3> QED
      BY <3>7, <3>8, AnswerLeft, RestingIsReady
  <2> QED
    BY <2>3, <2>4
<1>2. PICK y : y = Argument(x)
  OBVIOUS
<1>3. Resting(y) /\ Pictured(y) /\ AtBank0(y)
  BY <1>2, ArgumentRests, RestingIsReady
<1>4. Left(GetDPReg(x))
  <2>1. Ready(DpReadNow(y, y.rd))
    BY <1>3, FetchKeeps, RestingIsReady
  <2> QED
    BY <1>2, <2>1, AnswerLeft, WhenOnLeft DEF GetDPReg
<1>5. Left(GetAPReg(x))
  <2>1. PICK b : b = y.rd \div 16
    OBVIOUS
  <2>2. Pictured(DPWriteBANKSEL(y, b))
    BY <1>3, BankSelected
  <2>3. Ready(ApReadNow(DPWriteBANKSEL(y, b), y.rd))
    BY <2>2, ApReadKeeps, RestingIsReady
  <2>4. Left(Answer(ApReadNow(DPWriteBANKSEL(y, b), y.rd)))
    BY <2>3, AnswerLeft
  <2> QED
    BY <1>2, <2>1, <2>4, WhenOnLeft DEF GetAPReg
<1>6. Left(GetAPMem(x))
  <2>1. Ready(ReadMem(y, y.rd))
    BY <1>3, MemoryRests, RestingIsReady DEF ReadMem
  <2>2. Left(Answer(ReadMem(y, y.rd)))
    BY <2>1, AnswerLeft
  <2> QED
    BY <1>2, <2>2, WhenOnLeft DEF GetAPMem
<1>7. Left(SetAPMem(x))
  <2>1. Resting(ReadCommRegion(y, 1))
    BY <1>3, RegionRests, RestingIsReady
  <2> QED
    BY <1>2, <2>1, FailLeft, WhenOnLeft DEF SetAPMem
<1>8. Left(EnableHaltingDebug(x))
  <2>1. Resting(WriteMem(x, DHCSR_ADDR, C_DEBUGEN))
    BY MemoryRests, RestingIsReady DEF WriteMem
  <2> QED
    BY <2>1, CheckLeft, WhenOnLeft DEF EnableHaltingDebug
<1> QED
  BY <1>1, <1>4, <1>5, <1>6, <1>7, <1>8

LEMMA ComponentLeft ==
  ASSUME NEW x, Resting(x)
  PROVE  Left(GetAPMemCSIDs(x))
<1>1. PICK y : y = Argument(x)
  OBVIOUS
<1>2. Resting(y)
  BY <1>1, ArgumentRests
<1>3. PICK b : b = ReadMemBlock(y, y.rd + PID4_OFFSET, 12)
  OBVIOUS
<1>4. Resting(b)
  BY <1>2, <1>3, BlocksRest, RestingIsReady
<1>5. PICK p : p = WriteCommRegion(WriteCommRegion(WriteCommRegion(b,
                       0, LowBytes(b.block, 9)), 1, LowBytes(b.block, 5)), 2, LowBytes(b.block, 1))
  OBVIOUS
<1>6. Resting(p)
  <2>1. Resting(WriteCommRegion(b, 0, LowBytes(b.block, 9)))
    BY <1>4, RegionRests, RestingIsReady
  <2>2. Resting(WriteCommRegion(WriteCommRegion(b, 0, LowBytes(b.block, 9)),
                                1, LowBytes(b.block, 5)))
    BY <2>1, RegionRests, RestingIsReady
  <2> QED
    BY <1>5, <2>2, RegionRests, RestingIsReady
<1>7. Resting([p EXCEPT !.block = <<>>])
  <2>1. Alike(p, [p EXCEPT !.block = <<>>])
    <3>1. Dap(p)
      BY <1>6, RestingIsReady
    <3> QED
      BY <3>1 DEF Alike, Dap, Parts
  <2> QED
    BY <1>6, <2>1, AlikeKeeps
<1>8. Left(CheckDAPSTATUS([p EXCEPT !.block = <<>>]))
  BY <1>7, CheckLeft
<1>9. GetAPMemCSIDs(x) = WhenOn(x, CheckDAPSTATUS([p EXCEPT !.block = <<>>]))
  BY <1>1, <1>3, <1>5 DEF GetAPMemCSIDs
<1> QED
  BY <1>8, <1>9, WhenOnLeft

LEMMA AccessFunctionLeft ==
  ASSUME NEW x, Resting(x)
  PROVE  Left(DAPAccess(x))
<1> DEFINE Zero(y) == WriteMem(y, y.mcu.stacktop, 0)
           Half(y) == WriteMemH(y, y.mcu.stacktop + 2, 14)
           Byte(y) == WriteMemB(y, y.mcu.stacktop + 1, 1)
           Expect(y, word, bit) == [y EXCEPT !.acc = @ + IF y.rd = word THEN bit ELSE 0]
           Top(y) == ReadMem(y, y.mcu.stacktop)
           Start(y) == [InitCommRegion(y) EXCEPT !.acc = 0]
           Tally(y) == [WriteCommRegion(y, 0, y.acc) EXCEPT !.acc = 0]
<1>1. ASSUME NEW y, Resting(y), NEW n PROVE Resting([y EXCEPT !.acc = n])
  <2>1. Alike(y, [y EXCEPT !.acc = n])
    <3>1. Dap(y)
      BY <1>1, RestingIsReady
    <3> QED
      BY <3>1 DEF Alike, Dap, Parts
  <2> QED
    BY <1>1, <2>1, AlikeKeeps
<1>2. ASSUME NEW y, Resting(y)
      PROVE  Resting(Zero(y)) /\ Resting(Half(y)) /\ Resting(Byte(y)) /\ Resting(Top(y))
  BY <1>2, MemoryRests, RestingIsReady DEF WriteMem, WriteMemH, WriteMemB, ReadMem
<1>3. ASSUME NEW y, Resting(y), NEW word, NEW bit PROVE Resting(Expect(y, word, bit))
  <2>1. PICK n : n = y.acc + IF y.rd = word THEN bit ELSE 0
    OBVIOUS
  <2>2. Expect(y, word, bit) = [y EXCEPT !.acc = n]
    BY <2>1
  <2> QED
    BY <1>1, <1>3, <2>2
<1>4. ASSUME NEW y, Resting(y) PROVE Resting(Start(y)) /\ Resting(Tally(y))
  <2>1. Resting(InitCommRegion(y)) /\ Resting(WriteCommRegion(y, 0, y.acc))
    BY <1>4, RegionFound, RegionRests, RestingIsReady
  <2> QED
    BY <1>1, <2>1
<1>5. DAPAccess(x) = WhenOn(x, CheckDAPSTATUS(Tally(
                      Expect(Top(Byte(
                      Expect(Top(Half(
                      Expect(Top(Zero(Start(x))), 0, 1))), 14 * 16, 2))), (14 * 16) + 4, 4))))
  BY DEF DAPAccess
<1> HIDE DEF Zero, Half, Byte, Expect, Top, Start, Tally
<1>6. PICK a : a = Expect(Top(Zero(Start(x))), 0, 1)
  OBVIOUS
<1>7. Resting(a)
  BY <1>2, <1>3, <1>4, <1>6
<1>8. PICK b : b = Expect(Top(Half(a)), 14 * 16, 2)
  OBVIOUS
<1>9. Resting(b)
  BY <1>2, <1>3, <1>7, <1>8
<1>10. PICK c : c = Tally(Expect(Top(Byte(b)), (14 * 16) + 4, 4))
  OBVIOUS
<1>11. Resting(c)
  BY <1>2, <1>3, <1>4, <1>9, <1>10
<1>12. DAPAccess(x) = WhenOn(x, CheckDAPSTATUS(c))
  BY <1>5, <1>6, <1>8, <1>10
<1> QED
  BY <1>11, <1>12, CheckLeft, WhenOnLeft

LEMMA TraceFunctionsLeft ==
  ASSUME NEW x, Resting(x)
  PROVE  /\ Left(ConfigTrace(x))
         /\ \A captured, errors : Resting(CheckTrace(x, captured, errors))
<1>1. ASSUME NEW y, Resting(y), NEW t PROVE Resting([y EXCEPT !.mcu.traceconfigured = t])
  <2>1. Alike(y, [y EXCEPT !.mcu.traceconfigured = t])
    <3>1. Dap(y)
      BY <1>1, RestingIsReady
    <3> QED
      BY <3>1 DEF Alike, Dap, Parts
  <2> QED
    BY <1>1, <2>1, AlikeKeeps
<1>2. PICK y : y = InitCommRegion(x)
  OBVIOUS
<1>3. Resting(y)
  BY <1>2, RegionFound
<1>4. Left(ConfigTrace(x))
  <2>1. Resting([ReadCommRegion(y, 0) EXCEPT !.mcu.traceconfigured = TRUE])
    BY <1>1, <1>3, RegionRests, RestingIsReady
  <2> QED
    BY <1>2, <2>1, CheckLeft, WhenOnLeft DEF ConfigTrace
<1>5. ASSUME NEW captured, NEW errors PROVE Resting(CheckTrace(x, captured, errors))
  <2>1. PICK z : z = [y EXCEPT !.mcu.traceconfigured = FALSE]
    OBVIOUS
  <2>2. Resting(z)
    BY <1>1, <1>3, <2>1
  <2>3. PICK a : a = WriteCommRegion(WriteCommRegion(z, 0, 0), 1, 0)
    OBVIOUS
  <2>4. Resting(a)
    BY <2>2, <2>3, RegionRests, RestingIsReady
  <2>5. PICK b : b = WriteCommRegion(WriteCommRegion(a, 2, 0), 3, 0)
    OBVIOUS
  <2>6. Resting(b)
    BY <2>4, <2>5, RegionRests, RestingIsReady
  <2>7. CheckTrace(x, captured, errors) =
            IF ~x.st.on \/ ~x.mcu.traceconfigured THEN Return(x, TEST_FAIL)
            ELSE IF captured # "frames" THEN Return(z, TEST_FAIL) ELSE Return(b, errors)
    BY <1>2, <2>1, <2>3, <2>5 DEF CheckTrace, WhenOn
  <2> QED
    BY <2>2, <2>6, <2>7, ReturnRests
<1> QED
  BY <1>4, <1>5

LEMMA CorePartsLeft ==
  ASSUME NEW x, Resting(x)
  PROVE  /\ Resting(SampleCore(x)) /\ Left(Unhalt(x))
         /\ Stopped(HaltCore(x)) /\ Stopped(WriteFlag(x)) /\ Stopped(ReplaceFault(x))
         /\ Stopped(SetReturnAddress(x))
<1>1. \A y, a, v : Resting(y) => Resting(ReadMem(y, a)) /\ Resting(WriteMem(y, a, v))
  BY MemoryRests, RestingIsReady DEF ReadMem, WriteMem
<1>2. \A y : Resting(y) => Stopped(y)
  BY DEF Stopped, Resting, AtBank0, Pictured, Coherent, Dap
<1>3. Resting(SampleCore(x))
  BY <1>1, RegionFound DEF SampleCore
<1>4. Left(Unhalt(x))
  BY <1>1, CheckLeft DEF Unhalt
<1>5. Stopped(HaltCore(x))
  BY <1>1, WaitLeft DEF HaltCore, WaitHalted
<1>6. Stopped(WriteFlag(x)) /\ Stopped(ReplaceFault(x))
  BY <1>2, RegionRests, RestingIsReady DEF WriteFlag, ReplaceFault, CopyTo3
<1>7. \A y, v : Resting(y) => Stopped(AskCore(y, v))
  BY <1>1, WaitLeft DEF AskCore, WaitRegister
<1>8. Stopped(SetReturnAddress(x))
  <2>1. PICK y : y = AskCore(x, 0)
    OBVIOUS
  <2>2. Stopped(y)
    BY <1>7, <2>1
  <2>3. PICK n : n = y.mcu.stacktop + 12
    OBVIOUS
  <2>4. PICK w : w = AskCore(WriteMem(ReadMem(y, DCRDR_ADDR), DCRDR_ADDR,
                                      ReadMem(y, DCRDR_ADDR).mcu.stacktop + 12), REGWnR)
    OBVIOUS
  <2>5. Resting(y) => Stopped(w)
    BY <1>1, <1>7, <2>4
  <2>6. SetReturnAddress(x) = IF y.hung THEN y ELSE w
    BY <2>1, <2>4 DEF SetReturnAddress
  <2> QED
    BY <2>2, <2>5, <2>6 DEF Stopped
<1> QED
  BY <1>3, <1>4, <1>5, <1>6, <1>8

LEMMA LibraryCallReady ==
  ASSUME NEW x, Resting(x), NEW f \in LibraryCalls \ {"ReadMemSpecial"}
  PROVE  Ready(LibraryCall(f, x))
<1>1. Ready(ReadMemH(x, StackTop)) /\ Ready(ReadMemB(x, StackTop))
  BY MemoryRests, RestingIsReady DEF ReadMemH, ReadMemB
<1>2. Ready(WriteMemBlock(x, 2 * StackTop, [i \in 1 .. 3 |-> 100 + i]))
  <2>1. Len([i \in 1 .. 3 |-> 100 + i]) \in Nat
    <3>1. [i \in 1 .. 3 |-> 100 + i] \in Seq(Nat)
      OBVIOUS
    <3> QED
      BY <3>1
  <2> QED
    BY <2>1, BlocksRest, RestingIsReady
<1>3. \A n, a : Ready(ApReadNow(DPWriteBANKSEL(x, n), a))
  BY BankSelected, ApReadKeeps, RestingIsReady
<1>4. Ready(DPReadIDR(x))
  BY FetchKeeps, RestingIsReady DEF DPReadIDR
<1>5. Ready(DPReadHALTEV(x))
  <2>1. Pictured(DPWriteBANKSEL(x, 4))
    BY BankSelected, RestingIsReady
  <2>2. Pictured(DpReadNow(DPWriteBANKSEL(x, 4), HALTEV))
    BY <2>1, FetchKeeps
  <2> QED
    BY <2>2, BankSelected, RestingIsReady DEF DPReadHALTEV
<1>6. Ready(APReadCSW(x)) /\ Ready(APReadIDR(x)) /\ Ready(APReadBASE(x))
  BY <1>3 DEF APReadCSW, APReadIDR, APReadBASE
<1> QED
  BY <1>1, <1>2, <1>4, <1>5, <1>6 DEF LibraryCalls, LibraryCall

LEMMA RunLeft ==
  ASSUME "ReadMemSpecial" \notin Spare, NEW x, Resting(x), NEW f \in Func,
         ~ActsOnCore(f), f # "CheckTrace",
         f \in {"SetInterfaceJTAG", "SetInterfaceSW"} => x.st.jtagapndp = 2 /\ ~Bad(x)
  PROVE  Left(Run(f, x))
<1> DEFINE Table == {"SetInterfaceJTAG", "SetInterfaceSW", "DAPPowerUp", "DAPPowerDown",
                     "GetTAPID", "GetDPReg", "GetAPReg", "GetAPMem", "SetAPMem",
                     "GetAPMemCSIDs", "EnableHaltingDebug", "DAPAccess", "ConfigTrace",
                     "EmptyFunction"}
<1>1. CASE f \in Table
  <2>1. CASE f = "SetInterfaceJTAG"
    BY <2>1, InterfaceLeft DEF Run
  <2>2. CASE f = "SetInterfaceSW"
    BY <2>2, InterfaceLeft DEF Run
  <2>3. CASE f = "DAPPowerUp"
    BY <2>3, PowerUpLeft DEF Run
  <2>4. CASE f = "DAPPowerDown"
    BY <2>4, PowerDownLeft DEF Run
  <2>5. CASE f \in {"GetTAPID", "GetDPReg", "GetAPReg", "GetAPMem", "SetAPMem",
                    "EnableHaltingDebug"}
    BY <2>5, RegisterFunctionsLeft DEF Run
  <2>6. CASE f = "GetAPMemCSIDs"
    BY <2>6, ComponentLeft DEF Run
  <2>7. CASE f = "DAPAccess"
    BY <2>7, AccessFunctionLeft DEF Run
  <2>8. CASE f = "ConfigTrace"
    BY <2>8, TraceFunctionsLeft DEF Run
  <2>9. CASE f = "EmptyFunction"
    BY <2>9, FailLeft DEF Run
  <2> QED
    BY <1>1, <2>1, <2>2, <2>3, <2>4, <2>5, <2>6, <2>7, <2>8, <2>9
<1>2. CASE f \notin Table
  <2>1. f \in LibraryCalls \ {"ReadMemSpecial"}
    BY <1>2, TableAssumption DEF Func, ActsOnCore
  <2>2. PICK y : y = InitCommRegion(x)
    OBVIOUS
  <2>3. Left(Answer(LibraryCall(f, y)))
    BY <2>1, <2>2, RegionFound, LibraryCallReady, AnswerLeft
  <2>4. Run(f, x) = WhenOn(x, Answer(LibraryCall(f, y)))
    BY <1>2, <2>2 DEF Run
  <2> QED
    BY <2>3, <2>4, WhenOnLeft
<1> QED
  BY <1>1, <1>2

-----------------------------------------------------------------------------
(* The record of any tester has the value last returned: whatever the table *)
(* holds and however often the interface is selected.                       *)

HasRd(x) == "rd" \in DOMAIN x

LEMMA PortHasRd ==
  ASSUME NEW x, HasRd(x), NEW chain, NEW rnw, NEW a, NEW v
  PROVE  HasRd(Transfer(x, chain, rnw, a, v))
<1>1. HasRd(MemWrite(x, x.port.tar, v))
  BY DEF HasRd, MemWrite
<1>2. HasRd(ApWrite(x, a, v))
  <2>1. PICK z : z = MemWrite(x, x.port.tar, v)
    OBVIOUS
  <2>2. PICK n : n = NextTar(x.port)
    OBVIOUS
  <2>3. HasRd([z EXCEPT !.port.tar = n])
    BY <1>1, <2>1 DEF HasRd
  <2>4. CASE Faults(x, a)
    BY <2>4 DEF ApWrite, HasRd
  <2>5. CASE ~Faults(x, a) /\ ApRegister(x, a) = DRW
    BY <2>1, <2>2, <2>3, <2>5 DEF ApWrite, DRW, CSW, TAR
  <2>6. CASE ~Faults(x, a) /\ ApRegister(x, a) # DRW
    BY <2>6 DEF ApWrite, DRW, CSW, TAR, HasRd
  <2> QED
    BY <2>4, <2>5, <2>6
<1>3. HasRd(ApRead(x, a)) /\ HasRd(DpRead(x, a))
  BY DEF HasRd, ApRead, DpRead
<1>4. HasRd(DpWrite(x, a, v))
  BY DEF HasRd, DpWrite, CTRLSTAT, ABORT, SELECT
<1>5. HasRd([x EXCEPT !.rd = IdCode])
  BY DEF HasRd
<1>6. CASE chain = "APACC" /\ rnw = READ
  BY <1>3, <1>6 DEF Transfer, READ, WRITE
<1>7. CASE chain = "APACC" /\ rnw = WRITE
  BY <1>2, <1>7 DEF Transfer, READ, WRITE
<1>8. CASE chain = "DPACC" /\ rnw = READ
  BY <1>3, <1>8 DEF Transfer, READ, WRITE
<1>9. CASE chain = "DPACC" /\ rnw = WRITE
  BY <1>4, <1>9 DEF Transfer, READ, WRITE
<1> QED
  BY <1>5, <1>6, <1>7, <1>8, <1>9 DEF Transfer

LEMMA AccessHasRd ==
  ASSUME NEW x, HasRd(x), NEW apndp, NEW rnw, NEW a, NEW v
  PROVE  HasRd(Access(x, apndp, rnw, a, v))
<1>1. PICK s : s = SwitchTo(x, apndp)
  OBVIOUS
<1>2. HasRd(s)
  BY <1>1 DEF HasRd, SwitchTo, JtagAPnDP, JTAGScanIR
<1>3. HasRd([s EXCEPT !.st.ack = "OK"])
  BY <1>2 DEF HasRd
<1>4. HasRd(Transfer([s EXCEPT !.st.ack = "OK"], Reached(s, apndp), rnw, a, v))
  BY <1>3, PortHasRd
<1>5. HasRd(SWFault(x))
  BY DEF HasRd, SWFault, CountError
<1> QED
  BY <1>1, <1>4, <1>5 DEF Access, OnChain

LEMMA RegistersHaveRd ==
  ASSUME NEW x, HasRd(x), NEW v
  PROVE  /\ HasRd(DPReadRDBUFF(x)) /\ HasRd(DpReadNow(x, v)) /\ HasRd(ApReadNow(x, v))
         /\ HasRd(DPWriteBANKSEL(x, v)) /\ HasRd(DPWriteCTRLSTAT(x, v)) /\ HasRd(DPReadCTRLSTAT(x))
         /\ HasRd(DPClearSTICKYERR(x))
<1>1. \A y, a : HasRd(y) => HasRd(DpReadNow(y, a))
  BY AccessHasRd DEF DpReadNow, Fetch, DPReadRDBUFF
<1>2. HasRd(DPWriteBANKSEL(x, v))
  <2>1. PICK w : w = Access(x, DP, WRITE, SELECT, v)
    OBVIOUS
  <2>2. HasRd([w EXCEPT !.st.banksel = v])
    BY <2>1, AccessHasRd DEF HasRd
  <2> QED
    BY <2>1, <2>2 DEF DPWriteBANKSEL
<1> QED
  BY <1>1, <1>2, AccessHasRd
     DEF DPReadRDBUFF, ApReadNow, DPWriteCTRLSTAT, DPReadCTRLSTAT, DPClearSTICKYERR

LEMMA ApRegistersHaveRd ==
  ASSUME NEW x, HasRd(x), NEW v
  PROVE  /\ HasRd(APWriteCSW(x, v)) /\ HasRd(APWriteTAR(x, v))
         /\ HasRd(APReadDRW(x)) /\ HasRd(APWriteDRW(x, v))
<1>1. PICK z : z = DPWriteBANKSEL(x, 0)
  OBVIOUS
<1>2. HasRd(z)
  BY <1>1, RegistersHaveRd
<1>3. PICK w : w = Access(z, AP, WRITE, CSW, v)
  OBVIOUS
<1>4. HasRd(w)
  BY <1>2, <1>3, AccessHasRd
<1>5. HasRd([w EXCEPT !.st.csw = v])
  BY <1>4 DEF HasRd
<1>6. HasRd(APWriteCSW(x, v))
  BY <1>1, <1>3, <1>5 DEF APWriteCSW
<1> QED
  BY <1>1, <1>2, <1>6, AccessHasRd DEF APWriteTAR, APReadDRW, APWriteDRW

LEMMA MemoryHasRd ==
  ASSUME NEW x, HasRd(x), NEW csw, NEW address, NEW data
  PROVE  HasRd(ReadSized(x, csw, address)) /\ HasRd(WriteSized(x, csw, address, data))
<1>1. PICK z : z = APWriteTAR(APWriteCSW(x, csw), address)
  OBVIOUS
<1>2. HasRd(z)
  BY <1>1, ApRegistersHaveRd
<1>3. HasRd(APReadDRW(z)) /\ HasRd(APWriteDRW(z, data))
  BY <1>2, ApRegistersHaveRd
<1> QED
  BY <1>1, <1>3, RegistersHaveRd DEF ReadSized, WriteSized

LEMMA RegionHasRd ==
  ASSUME NEW x, HasRd(x), NEW i, NEW data
  PROVE  /\ HasRd(ReadCommRegion(x, i)) /\ HasRd(WriteCommRegion(x, i, data))
         /\ HasRd(InitCommRegion(x))
<1>1. HasRd(WriteCommRegion(x, i, data))
  BY MemoryHasRd DEF WriteCommRegion, WriteMem
<1>2. PICK y : y = ReadMem(x, x.mcu.stacktop + 4 * i)
  OBVIOUS
<1>3. HasRd(y)
  BY <1>2, MemoryHasRd DEF ReadMem
<1>4. HasRd([y EXCEPT !.rd = SwapEndian(@)])
  BY <1>3 DEF HasRd
<1>5. PICK z : z = ReadMem(x, 0)
  OBVIOUS
<1>6. HasRd(z)
  BY <1>5, MemoryHasRd DEF ReadMem
<1>7. PICK t : t = SwapEndian(z.rd)
  OBVIOUS
<1>8. HasRd([z EXCEPT !.mcu.stacktop = t])
  BY <1>6 DEF HasRd
<1> QED
  BY <1>1, <1>2, <1>4, <1>5, <1>7, <1>8 DEF ReadCommRegion, InitCommRegion, SetStackTop

LEMMA CheckHasRd ==
  ASSUME NEW x, HasRd(x), NEW v
  PROVE  /\ HasRd(CheckDAPSTATUS(x)) /\ HasRd(Return(x, v)) /\ HasRd(WaitFor(x, v))
         /\ HasRd(CountSticky(x)) /\ HasRd(Answer(x))
<1>1. \A y : HasRd(y) => HasRd(Verdict(y)) /\ HasRd(CountSticky(y))
  BY DEF HasRd, Verdict, CountSticky, CountError
<1>2. \A y : HasRd(y) => HasRd(CheckDAPSTATUS(y))
  BY <1>1, RegistersHaveRd DEF CheckDAPSTATUS
<1>3. HasRd(Return(x, v)) /\ HasRd(WaitFor(x, v))
  BY DEF HasRd, Return, WaitFor
<1> QED
  BY <1>1, <1>2, <1>3, RegionHasRd DEF Answer

LEMMA BlockHasRd ==
  ASSUME NEW x, HasRd(x), NEW write, NEW address, NEW data, NEW n \in Nat,
         NEW f, IsBlock(f, x, write, address, data, n)
  PROVE  HasRd(f[n])
<1> DEFINE T == {m \in Nat : m <= n => HasRd(f[m])}
<1>1. \A i \in 0 .. n :
          f[i] = IF i = 0 THEN x ELSE BlockNext(f[i - 1], write, address, data, i - 1)
  BY DEF IsBlock
<1>2. ASSUME NEW y, HasRd(y), NEW i PROVE HasRd(BlockNext(y, write, address, data, i))
  <2>1. \A z, a : HasRd(z) => HasRd(AtWord(z, a))
    BY ApRegistersHaveRd DEF AtWord
  <2>2. \A z : HasRd(z) => HasRd(Keep(z))
    BY DEF HasRd, Keep
  <2> QED
    BY <1>2, <2>1, <2>2, ApRegistersHaveRd DEF BlockNext, ReadNext, WriteNext
<1>3. 0 \in T
  BY <1>1
<1>4. ASSUME NEW m \in Nat, m \in T PROVE m + 1 \in T
  <2>1. SUFFICES ASSUME m + 1 <= n PROVE HasRd(f[m + 1])
    OBVIOUS
  <2>2. f[m + 1] = BlockNext(f[m], write, address, data, m)
    BY <1>1, <2>1
  <2>3. HasRd(f[m])
    BY <1>4, <2>1
  <2> QED
    BY <1>2, <2>2, <2>3
<1>5. n \in T
  <2> HIDE DEF T
  <2> QED
    BY <1>3, <1>4, NatSetInduction
<1> QED
  BY <1>5

LEMMA BlocksHaveRd ==
  ASSUME NEW x, HasRd(x), NEW address, NEW data, NEW n \in Nat
  PROVE  /\ HasRd(ReadMemBlock(x, address, n))
         /\ n = Len(data) => HasRd(WriteMemBlock(x, address, data))
<1>1. HasRd(ReadMemBlock(x, address, n))
  <2>1. PICK e : e = Emptied(x)
    OBVIOUS
  <2>2. HasRd(e)
    BY <2>1 DEF HasRd, Emptied
  <2>3. PICK s : s = APWriteTAR(APWriteCSW(e, WORDS), address)
    OBVIOUS
  <2>4. HasRd(s)
    BY <2>2, <2>3, ApRegistersHaveRd
  <2>5. PICK f : /\ IsBlock(f, s, FALSE, address, <<>>, n)
                 /\ ReadMemBlock(x, address, n) = Keep(DPReadRDBUFF(f[n]))
    BY <2>1, <2>3, ReadBlockRuns
  <2>6. HasRd(DPReadRDBUFF(f[n]))
    BY <2>4, <2>5, BlockHasRd, RegistersHaveRd
  <2> QED
    BY <2>5, <2>6 DEF HasRd, Keep
<1>2. ASSUME n = Len(data) PROVE HasRd(WriteMemBlock(x, address, data))
  <2>1. PICK s : s = APWriteTAR(APWriteCSW(x, WORDS), address)
    OBVIOUS
  <2>2. HasRd(s)
    BY <2>1, ApRegistersHaveRd
  <2>3. PICK f : /\ IsBlock(f, s, TRUE, address, data, n)
                 /\ WriteMemBlock(x, address, data) = DPReadRDBUFF(f[n])
    BY <1>2, <2>1, WriteBlockRuns
  <2> QED
    BY <2>2, <2>3, BlockHasRd, RegistersHaveRd
<1> QED
  BY <1>1, <1>2

LEMMA SpecialHasRd ==
  ASSUME NEW x, HasRd(x), NEW csw, NEW address
  PROVE  HasRd(ReadMemSpecial(x, csw, address))
<1>1. \A y : HasRd(y) => HasRd(ClearError(y))
  BY RegistersHaveRd DEF HasRd, ClearError
<1>2. \A y : HasRd(y) => HasRd(ClearIfSticky(DPReadCTRLSTAT(y)))
  BY <1>1, RegistersHaveRd DEF ClearIfSticky
<1>3. \A y : HasRd(y) => HasRd(ForgetOne(y))
  BY <1>1, <1>2 DEF HasRd, ForgetOne
<1>4. \A y, v : HasRd(y) => HasRd(SpecialChecks(y, v))
  <2>1. \A y : HasRd(y) => HasRd(CountSticky(DPReadCTRLSTAT(y)))
    BY CheckHasRd, RegistersHaveRd
  <2> QED
    BY <1>3, <2>1 DEF HasRd, SpecialChecks
<1> QED
  BY <1>4, MemoryHasRd DEF ReadMemSpecial, ReadAndCheck

LEMMA InterfaceHasRd ==
  ASSUME NEW x, HasRd(x)
  PROVE  /\ HasRd(SetInterfaceJTAG(x)) /\ HasRd(SetInterfaceSW(x))
         /\ HasRd(DAPPowerUp(x)) /\ HasRd(DAPPowerDown(x))
<1>1. HasRd(SetInterfaceJTAG(x))
  BY DEF HasRd, SetInterfaceJTAG, JTAGScanIR, Return
<1>2. HasRd(SetInterfaceSW(x))
  <2>1. HasRd([x EXCEPT !.st.jtagnsw = FALSE])
    BY DEF HasRd
  <2> QED
    BY <2>1, AccessHasRd, CheckHasRd DEF SetInterfaceSW, SWConnect
<1>3. \A y : HasRd(y) => HasRd(On(y)) /\ HasRd(Off(y))
  <2> SUFFICES ASSUME NEW y, HasRd(y) PROVE HasRd(On(y)) /\ HasRd(Off(y))
    OBVIOUS
  <2>1. HasRd([y EXCEPT !.st.on = TRUE])
        /\ HasRd([y EXCEPT !.st = [InitDAPSTATUS EXCEPT
                     !.jtagnsw = y.st.jtagnsw, !.error = y.st.error]])
    BY DEF HasRd
  <2> QED
    BY <2>1, CheckHasRd DEF On, Off
<1>4. \A y, v, up : HasRd(y) => HasRd(WaitPower(DPReadCTRLSTAT(DPWriteCTRLSTAT(y, v)), up))
  BY RegistersHaveRd, CheckHasRd DEF WaitPower
<1> QED
  BY <1>1, <1>2, <1>3, <1>4, CheckHasRd DEF DAPPowerUp, DAPPowerDown, WhenOn

LEMMA TableHasRd ==
  ASSUME NEW x, HasRd(x)
  PROVE  /\ HasRd(GetTAPID(x)) /\ HasRd(GetDPReg(x)) /\ HasRd(GetAPReg(x)) /\ HasRd(GetAPMem(x))
         /\ HasRd(SetAPMem(x)) /\ HasRd(GetAPMemCSIDs(x)) /\ HasRd(EnableHaltingDebug(x))
         /\ HasRd(DAPAccess(x)) /\ HasRd(ConfigTrace(x))
         /\ \A captured, errors : HasRd(CheckTrace(x, captured, errors))
<1>1. \A y : HasRd(y) => HasRd(Answer(y)) /\ HasRd(CheckDAPSTATUS(y))
                         /\ (\A v : HasRd(Return(y, v)))
  BY CheckHasRd
<1>2. \A y : HasRd(y) => HasRd(WhenOn(x, y))
  BY CheckHasRd DEF WhenOn
<1>3. PICK i : i = InitCommRegion(x)
  OBVIOUS
<1>4. HasRd(i)
  BY <1>3, RegionHasRd
<1>5. PICK y : y = Argument(x)
  OBVIOUS
<1>6. HasRd(y)
  BY <1>3, <1>4, <1>5, RegionHasRd DEF Argument
<1>7. HasRd(GetTAPID(x))
  <2>1. HasRd(JTAGScanIDCODE(i))
    BY <1>4 DEF HasRd, JTAGScanIDCODE, JTAGScanIR
  <2> QED
    BY <1>1, <1>3, <1>4, <2>1 DEF GetTAPID
<1>8. HasRd(GetDPReg(x))
  <2>1. HasRd(DpReadNow(y, y.rd))
    BY <1>6, RegistersHaveRd
  <2> QED
    BY <1>1, <1>2, <1>5, <2>1 DEF GetDPReg
<1>9. HasRd(GetAPReg(x))
  <2>1. \A b, a : HasRd(ApReadNow(DPWriteBANKSEL(y, b), a))
    BY <1>6, RegistersHaveRd
  <2>2. HasRd(Answer(ApReadNow(DPWriteBANKSEL(y, y.rd \div 16), y.rd)))
    BY <1>1, <2>1
  <2> QED
    BY <1>2, <1>5, <2>2 DEF GetAPReg
<1>10. HasRd(GetAPMem(x))
  <2>1. HasRd(ReadMem(y, y.rd))
    BY <1>6, MemoryHasRd DEF ReadMem
  <2>2. HasRd(Answer(ReadMem(y, y.rd)))
    BY <1>1, <2>1
  <2> QED
    BY <1>2, <1>5, <2>2 DEF GetAPMem
<1>11. HasRd(SetAPMem(x)) /\ HasRd(EnableHaltingDebug(x))
  <2>1. HasRd(ReadCommRegion(y, 1)) /\ HasRd(WriteMem(x, DHCSR_ADDR, C_DEBUGEN))
    BY <1>6, RegionHasRd, MemoryHasRd DEF WriteMem
  <2> QED
    BY <1>1, <1>2, <1>5, <2>1 DEF SetAPMem, EnableHaltingDebug
<1>12. HasRd(GetAPMemCSIDs(x))
  <2>1. PICK b : b = ReadMemBlock(y, y.rd + PID4_OFFSET, 12)
    OBVIOUS
  <2>2. HasRd(b)
    BY <1>6, <2>1, BlocksHaveRd
  <2>3. PICK p : p = WriteCommRegion(WriteCommRegion(WriteCommRegion(b,
                         0, LowBytes(b.block, 9)), 1, LowBytes(b.block, 5)),
                         2, LowBytes(b.block, 1))
    OBVIOUS
  <2>4. HasRd(p)
    BY <2>2, <2>3, RegionHasRd
  <2>5. HasRd(CheckDAPSTATUS([p EXCEPT !.block = <<>>]))
    <3>1. HasRd([p EXCEPT !.block = <<>>])
      BY <2>4 DEF HasRd
    <3> QED
      BY <1>1, <3>1
  <2>6. GetAPMemCSIDs(x) = WhenOn(x, CheckDAPSTATUS([p EXCEPT !.block = <<>>]))
    BY <1>5, <2>1, <2>3 DEF GetAPMemCSIDs
  <2> QED
    BY <1>2, <2>5, <2>6
<1>13. HasRd(DAPAccess(x))
  <2> DEFINE Zero(z) == WriteMem(z, z.mcu.stacktop, 0)
             Half(z) == WriteMemH(z, z.mcu.stacktop + 2, 14)
             Byte(z) == WriteMemB(z, z.mcu.stacktop + 1, 1)
             Expect(z, word, bit) == [z EXCEPT !.acc = @ + IF z.rd = word THEN bit ELSE 0]
             Top(z) == ReadMem(z, z.mcu.stacktop)
             Start(z) == [InitCommRegion(z) EXCEPT !.acc = 0]
             Tally(z) == [WriteCommRegion(z, 0, z.acc) EXCEPT !.acc = 0]
  <2>1. ASSUME NEW z, HasRd(z)
        PROVE  HasRd(Zero(z)) /\ HasRd(Half(z)) /\ HasRd(Byte(z)) /\ HasRd(Top(z))
    BY <2>1, MemoryHasRd DEF WriteMem, WriteMemH, WriteMemB, ReadMem
  <2>2. ASSUME NEW z, HasRd(z), NEW word, NEW bit PROVE HasRd(Expect(z, word, bit))
    BY <2>2 DEF HasRd
  <2>3. ASSUME NEW z, HasRd(z) PROVE HasRd(Start(z)) /\ HasRd(Tally(z))
    <3>1. HasRd(InitCommRegion(z)) /\ HasRd(WriteCommRegion(z, 0, z.acc))
      BY <2>3, RegionHasRd
    <3> QED
      BY <3>1 DEF HasRd
  <2>4. DAPAccess(x) = WhenOn(x, CheckDAPSTATUS(Tally(
                        Expect(Top(Byte(
                        Expect(Top(Half(
                        Expect(Top(Zero(Start(x))), 0, 1))), 14 * 16, 2))), (14 * 16) + 4, 4))))
    BY DEF DAPAccess
  <2> HIDE DEF Zero, Half, Byte, Expect, Top, Start, Tally
  <2>5. PICK a : a = Expect(Top(Zero(Start(x))), 0, 1)
    OBVIOUS
  <2>6. PICK b : b = Expect(Top(Half(a)), 14 * 16, 2)
    OBVIOUS
  <2>7. PICK c : c = Tally(Expect(Top(Byte(b)), (14 * 16) + 4, 4))
    OBVIOUS
  <2>8. HasRd(a)
    BY <2>1, <2>2, <2>3, <2>5
  <2>9. HasRd(b)
    BY <2>1, <2>2, <2>6, <2>8
  <2>10. HasRd(c)
    BY <2>1, <2>2, <2>3, <2>7, <2>9
  <2>11. DAPAccess(x) = WhenOn(x, CheckDAPSTATUS(c))
    BY <2>4, <2>5, <2>6, <2>7
  <2> QED
    BY <1>1, <1>2, <2>10, <2>11
<1>14. HasRd(ConfigTrace(x))
  <2>1. PICK r : r = ReadCommRegion(i, 0)
    OBVIOUS
  <2>2. HasRd([r EXCEPT !.mcu.traceconfigured = TRUE])
    BY <1>4, <2>1, RegionHasRd DEF HasRd
  <2>3. HasRd(CheckDAPSTATUS([r EXCEPT !.mcu.traceconfigured = TRUE]))
    BY <1>1, <2>2
  <2> QED
    BY <1>2, <1>3, <2>1, <2>3 DEF ConfigTrace
<1>15. ASSUME NEW captured, NEW errors PROVE HasRd(CheckTrace(x, captured, errors))
  <2>1. PICK z : z = [i EXCEPT !.mcu.traceconfigured = FALSE]
    OBVIOUS
  <2>2. HasRd(z)
    BY <1>4, <2>1 DEF HasRd
  <2>3. PICK a : a = WriteCommRegion(WriteCommRegion(z, 0, 0), 1, 0)
    OBVIOUS
  <2>4. PICK b : b = WriteCommRegion(WriteCommRegion(a, 2, 0), 3, 0)
    OBVIOUS
  <2>5. HasRd(b)
    BY <2>2, <2>3, <2>4, RegionHasRd
  <2>6. CheckTrace(x, captured, errors) =
            IF ~x.st.on \/ ~x.mcu.traceconfigured THEN Return(x, TEST_FAIL)
            ELSE IF captured # "frames" THEN Return(z, TEST_FAIL) ELSE Return(b, errors)
    BY <1>3, <2>1, <2>3, <2>4 DEF CheckTrace, WhenOn
  <2> QED
    BY <1>1, <2>2, <2>5, <2>6
<1> QED
  BY <1>7, <1>8, <1>9, <1>10, <1>11, <1>12, <1>13, <1>14, <1>15

LEMMA LibraryHasRd ==
  ASSUME NEW x, HasRd(x), NEW f \in LibraryCalls
  PROVE  HasRd(LibraryCall(f, x))
<1>1. HasRd(ReadMemH(x, StackTop)) /\ HasRd(ReadMemB(x, StackTop))
  BY MemoryHasRd DEF ReadMemH, ReadMemB
<1>2. HasRd(ReadMemSpecial(x, WORD, Unmapped))
  BY SpecialHasRd
<1>3. HasRd(WriteMemBlock(x, 2 * StackTop, [i \in 1 .. 3 |-> 100 + i]))
  <2>1. Len([i \in 1 .. 3 |-> 100 + i]) \in Nat
    <3>1. [i \in 1 .. 3 |-> 100 + i] \in Seq(Nat)
      OBVIOUS
    <3> QED
      BY <3>1
  <2> QED
    BY <2>1, BlocksHaveRd
<1>4. \A n, a : HasRd(ApReadNow(DPWriteBANKSEL(x, n), a))
  BY RegistersHaveRd
<1>5. HasRd(DPReadIDR(x)) /\ HasRd(DPReadHALTEV(x))
  BY RegistersHaveRd DEF DPReadIDR, DPReadHALTEV
<1>6. HasRd(APReadCSW(x)) /\ HasRd(APReadIDR(x)) /\ HasRd(APReadBASE(x))
  BY <1>4 DEF APReadCSW, APReadIDR, APReadBASE
<1> QED
  BY <1>1, <1>2, <1>3, <1>5, <1>6 DEF LibraryCalls, LibraryCall

LEMMA RunHasRd ==
  ASSUME NEW x, HasRd(x), NEW f \in Func, ~ActsOnCore(f), f # "CheckTrace"
  PROVE  HasRd(Run(f, x))
<1> DEFINE Table == {"SetInterfaceJTAG", "SetInterfaceSW", "DAPPowerUp", "DAPPowerDown",
                     "GetTAPID", "GetDPReg", "GetAPReg", "GetAPMem", "SetAPMem",
                     "GetAPMemCSIDs", "EnableHaltingDebug", "DAPAccess", "ConfigTrace",
                     "EmptyFunction"}
<1>1. CASE f \in Table
  <2>1. CASE f \in {"SetInterfaceJTAG", "SetInterfaceSW", "DAPPowerUp", "DAPPowerDown"}
    BY <2>1, InterfaceHasRd DEF Run
  <2>2. CASE f \in {"GetTAPID", "GetDPReg", "GetAPReg", "GetAPMem", "SetAPMem"}
    BY <2>2, TableHasRd DEF Run
  <2>3. CASE f \in {"EnableHaltingDebug", "GetAPMemCSIDs", "DAPAccess", "ConfigTrace"}
    BY <2>3, TableHasRd DEF Run
  <2>4. CASE f = "EmptyFunction"
    BY <2>4, CheckHasRd DEF Run
  <2> QED
    BY <1>1, <2>1, <2>2, <2>3, <2>4
<1>2. CASE f \notin Table
  <2>1. f \in LibraryCalls
    BY <1>2, TableAssumption DEF Func, ActsOnCore
  <2>2. PICK y : y = InitCommRegion(x)
    OBVIOUS
  <2>3. HasRd(Answer(LibraryCall(f, y)))
    BY <2>1, <2>2, RegionHasRd, LibraryHasRd, CheckHasRd
  <2>4. Run(f, x) = WhenOn(x, Answer(LibraryCall(f, y)))
    BY <1>2, <2>2 DEF Run
  <2> QED
    BY <2>3, <2>4, CheckHasRd DEF WhenOn
<1> QED
  BY <1>1, <1>2

LEMMA CoreHasRd ==
  ASSUME NEW x, HasRd(x), NEW part \in DOMAIN CoreParts
  PROVE  HasRd(CorePart(part, x)) /\ HasRd(SampleCore(x))
<1>1. \A y, a, v : HasRd(y) => HasRd(ReadMem(y, a)) /\ HasRd(WriteMem(y, a, v))
  BY MemoryHasRd DEF ReadMem, WriteMem
<1>2. HasRd(SampleCore(x))
  BY <1>1, RegionHasRd DEF SampleCore
<1>3. HasRd(HaltCore(x)) /\ HasRd(Unhalt(x))
  BY <1>1, CheckHasRd DEF HaltCore, WaitHalted, Unhalt
<1>4. HasRd(WriteFlag(x)) /\ HasRd(ReplaceFault(x))
  BY RegionHasRd DEF WriteFlag, ReplaceFault, CopyTo3
<1>5. \A y, v : HasRd(y) => HasRd(AskCore(y, v))
  BY <1>1, CheckHasRd DEF AskCore, WaitRegister
<1>6. HasRd(SetReturnAddress(x))
  BY <1>1, <1>5 DEF SetReturnAddress
<1> QED
  BY <1>2, <1>3, <1>4, <1>6 DEF CorePart, CoreParts

-----------------------------------------------------------------------------
(* The handshake.  ERROR is clear from the moment the tester reads the call *)
(* until it has the result, and then tells the result until the test        *)
(* program has read it: meanwhile nobody changes the value returned.        *)

Settled == io.error <=> dbg.rd # TEST_PASS
Lines ==
    /\ tester \in TesterPoints
    /\ io = [running |-> io.running, error |-> io.error, strobe |-> io.strobe,
             funcsel |-> io.funcsel]
    /\ io.running \in BOOLEAN /\ io.error \in BOOLEAN /\ io.strobe \in BOOLEAN
    /\ mcu = [pc |-> mcu.pc, fn |-> mcu.fn, arg |-> mcu.arg, verdict |-> mcu.verdict,
              selected |-> mcu.selected]
    /\ mcu.selected \in BOOLEAN
    /\ mcu.pc \in {"idle", "started", "wait flag", "fault", "check", "verdict"}
Waiting == mcu.pc \in {"wait flag", "fault", "check"}
Handshake ==
    /\ mcu.pc = "idle" => tester = "poll" /\ ~io.strobe /\ ~io.running
    /\ mcu.pc # "idle" => io.funcsel = mcu.fn /\ mcu.fn \in Func
    /\ mcu.pc = "started" =>
           /\ io.strobe /\ tester \in {"poll", "select", "wait strobe"}
           /\ io.running <=> tester = "wait strobe"
           /\ tester # "poll" => ~io.error
    /\ Waiting =>
           /\ ~io.strobe /\ tester # "select"
           /\ io.running <=> tester # "poll"
           /\ IF tester \in {"finished", "poll"} THEN Settled ELSE ~io.error
    /\ mcu.pc = "verdict" => tester = "poll" /\ ~io.strobe /\ ~io.running /\ Settled
CoreCalls == tester \in DOMAIN CoreParts => io.funcsel \in DOMAIN CoreParts[tester]
Orderly == Lines /\ Handshake /\ CoreCalls /\ HasRd(dbg)

LEMMA Points ==
  /\ DOMAIN CoreParts = {"halt", "flag", "replace", "return", "unhalt"}
  /\ TesterPoints = {"poll", "select", "wait strobe", "run", "result", "finished", "hung",
                     "halt", "flag", "replace", "return", "unhalt"}
BY DEF CoreParts, TesterPoints

LEMMA Route ==
  ASSUME NEW part \in DOMAIN CoreParts, NEW f \in DOMAIN CoreParts[part],
         NEW n, n = CoreParts[part][f]
  PROVE  /\ n \in {"flag", "replace", "return", "unhalt", "result"}
         /\ n \in DOMAIN CoreParts => f \in DOMAIN CoreParts[n]
         /\ n = "result" => part = "unhalt"
BY DEF CoreParts

LEMMA HaltRoute ==
  ASSUME NEW f, ActsOnCore(f)
  PROVE  f \in DOMAIN CoreParts["halt"]
BY DEF ActsOnCore, CoreParts

LEMMA InitOrderly ==
  ASSUME Init
  PROVE  Orderly
<1>1. HasRd(dbg)
  BY DEF Init, HasRd
<1>2. tester = "poll" /\ mcu.pc = "idle" /\ ~io.strobe /\ ~io.running
  BY DEF Init
<1>3. Lines
  BY Points DEF Init, Lines
<1>4. Handshake /\ CoreCalls
  BY <1>2, Points DEF Handshake, Waiting, CoreCalls
<1> QED
  BY <1>1, <1>3, <1>4 DEF Orderly

LEMMA CallerOrderly ==
  ASSUME Orderly, (\E f \in Func : \E arg \in Args(f) : StartDebugTester(f, arg)) \/ Mcu
  PROVE  Orderly'
<1> USE DEF Orderly
<1>1. ASSUME NEW f \in Func, NEW arg \in Args(f), StartDebugTester(f, arg) PROVE Orderly'
  <2>1. /\ mcu.pc = "idle" /\ tester = "poll" /\ tester' = tester
        /\ io' = [io EXCEPT !.strobe = TRUE, !.funcsel = f]
        /\ mcu' = [mcu EXCEPT !.pc = "started", !.fn = f, !.arg = arg,
                              !.selected = @ \/ f \in {"SetInterfaceJTAG", "SetInterfaceSW"}]
    BY <1>1 DEF StartDebugTester, Handshake
  <2>2. HasRd(dbg')
    <3>1. \E m : dbg' = [dbg EXCEPT !.mem = m]
      BY <1>1 DEF StartDebugTester
    <3> QED
      BY <3>1 DEF HasRd
  <2>3. Lines'
    BY <2>1 DEF Lines
  <2>4. Handshake' /\ CoreCalls'
    BY <2>1, Points DEF Lines, Handshake, Waiting, CoreCalls
  <2> QED
    BY <2>2, <2>3, <2>4
<1>2. CASE ClearStrobe
  <2>1. mcu.pc = "started" /\ tester = "wait strobe" /\ io.running /\ ~io.error
    BY <1>2 DEF ClearStrobe, Handshake, Lines
  <2>2. Lines' /\ HasRd(dbg')
    BY <1>2 DEF ClearStrobe, Lines
  <2>3. Handshake' /\ CoreCalls'
    BY <1>2, <2>1, Points DEF ClearStrobe, Lines, Handshake, Waiting, CoreCalls
  <2> QED
    BY <2>2, <2>3
<1>3. CASE WaitFlag \/ Fault
  <2>1. Waiting /\ io' = io /\ tester' = tester
    BY <1>3 DEF WaitFlag, Fault, Waiting
  <2>2. HasRd(dbg') /\ dbg'.rd = dbg.rd
    BY <1>3 DEF WaitFlag, Fault, HasRd
  <2>3. mcu' = mcu \/ mcu' = [mcu EXCEPT !.pc = "check"]
    BY <1>3 DEF WaitFlag, Fault
  <2>4. Lines' /\ Handshake'
    BY <2>1, <2>2, <2>3 DEF Lines, Handshake, Waiting, Settled
  <2> QED
    BY <2>1, <2>2, <2>4 DEF CoreCalls
<1>4. CASE CheckDebugTester
  <2>1. Waiting /\ tester = "poll" /\ Settled
    BY <1>4 DEF CheckDebugTester, Waiting, Handshake
  <2> QED
    BY <1>4, <2>1, Points DEF CheckDebugTester, Lines, Handshake, Waiting, Settled, CoreCalls
<1>5. CASE ReadError
  <2>1. HasRd(dbg')
    BY <1>5 DEF ReadError, HasRd
  <2>2. \E v : mcu' = [mcu EXCEPT !.pc = "idle", !.arg = 0, !.verdict = v]
    BY <1>5 DEF ReadError
  <2>3. mcu.pc = "verdict" /\ io' = io /\ tester' = tester
    BY <1>5 DEF ReadError
  <2>4. Lines'
    BY <2>2, <2>3 DEF Lines
  <2>5. Handshake' /\ CoreCalls'
    BY <2>2, <2>3, Points DEF Lines, Handshake, Waiting, CoreCalls
  <2> QED
    BY <2>1, <2>4, <2>5
<1> QED
  BY <1>1, <1>2, <1>3, <1>4, <1>5 DEF Mcu

LEMMA TesterOrderly ==
  ASSUME Orderly, Tester
  PROVE  Orderly'
<1> USE DEF Orderly
<1>1. ASSUME tester \notin {"poll", "select", "wait strobe", "finished", "result"}, mcu' = mcu,
             io' = io, HasRd(dbg'),
             tester' \in {"hung", "result", "halt", "flag", "replace", "return", "unhalt"},
             CoreCalls'
      PROVE  Orderly'
  <2>1. Waiting
    BY <1>1 DEF Lines, Handshake, Waiting
  <2> QED
    BY <1>1, <2>1, Points DEF Lines, Handshake, Waiting
<1>2. CASE Poll
  BY <1>2, Points DEF Poll, Goto, Lines, Handshake, Waiting, CoreCalls, HasRd
<1>3. CASE Select
  BY <1>3, Points DEF Select, Goto, Lines, Handshake, Waiting, CoreCalls, HasRd
<1>4. CASE StrobeGone
  BY <1>4, Points DEF StrobeGone, Goto, Lines, Handshake, Waiting, CoreCalls, HasRd
<1>5. CASE RunFunction
  <2>1. tester = "run" /\ io.funcsel \in Func /\ ~ActsOnCore(io.funcsel)
        /\ io.funcsel # "CheckTrace"
    BY <1>5 DEF RunFunction, Lines, Handshake
  <2>2. HasRd(dbg')
    BY <1>5, <2>1, RunHasRd DEF RunFunction
  <2>3. tester' \in {"hung", "result"} /\ mcu' = mcu /\ io' = io
    BY <1>5 DEF RunFunction, Goto
  <2> QED
    BY <1>1, <2>1, <2>2, <2>3, Points DEF CoreCalls
<1>6. CASE RunCheckTrace
  <2>1. HasRd(dbg')
    BY <1>6, TableHasRd DEF RunCheckTrace
  <2>2. tester = "run" /\ tester' = "result" /\ mcu' = mcu /\ io' = io
    BY <1>6 DEF RunCheckTrace
  <2> QED
    BY <1>1, <2>1, <2>2, Points DEF CoreCalls
<1>7. CASE RunSampleCore
  <2>1. HasRd(SampleCore(dbg))
    BY CoreHasRd, Points
  <2>2. HasRd(dbg')
    BY <1>7, <2>1, CheckHasRd DEF RunSampleCore, WhenOn, Found
  <2>3. tester = "run" /\ tester' \in {"result", "halt"} /\ mcu' = mcu /\ io' = io
    BY <1>7 DEF RunSampleCore, Goto
  <2>4. CoreCalls'
    BY <1>7, <2>3, Points, HaltRoute DEF CoreCalls, RunSampleCore
  <2> QED
    BY <1>1, <2>2, <2>3, <2>4
<1>8. CASE RunCorePart
  <2>1. HasRd(dbg')
    BY <1>8, CoreHasRd DEF RunCorePart
  <2>2. tester \in DOMAIN CoreParts /\ io.funcsel \in DOMAIN CoreParts[tester]
    BY <1>8 DEF RunCorePart, CoreCalls
  <2>3. mcu' = mcu /\ io' = io
        /\ (tester' = "hung" \/ tester' = CoreParts[tester][io.funcsel])
    BY <1>8 DEF RunCorePart, Goto
  <2>4. /\ tester' \in {"hung", "flag", "replace", "return", "unhalt", "result"}
        /\ tester' \in DOMAIN CoreParts => io.funcsel \in DOMAIN CoreParts[tester']
    BY <2>2, <2>3, Route, Points
  <2>5. CoreCalls'
    BY <2>3, <2>4 DEF CoreCalls
  <2>6. tester \notin {"poll", "select", "wait strobe", "finished", "result"}
    BY <2>2, Points
  <2> QED
    BY <1>1, <2>1, <2>3, <2>4, <2>5, <2>6
<1>9. CASE FlagError
  <2>1. tester = "result" /\ tester' = "finished" /\ mcu' = mcu /\ dbg' = dbg
        /\ io' = [io EXCEPT !.error = @ \/ dbg.rd # TEST_PASS]
    BY <1>9 DEF FlagError, Goto
  <2>2. Waiting /\ ~io.error
    BY <2>1 DEF Lines, Handshake, Waiting
  <2>3. PICK e \in BOOLEAN : e <=> dbg.rd # TEST_PASS
    OBVIOUS
  <2>4. io' = [io EXCEPT !.error = e]
    BY <2>1, <2>2, <2>3 DEF Lines
  <2> QED
    BY <2>1, <2>2, <2>3, <2>4, Points DEF Lines, Handshake, Waiting, Settled, CoreCalls, HasRd
<1>10. CASE Finish
  BY <1>10, Points DEF Finish, Goto, Lines, Handshake, Waiting, Settled, CoreCalls, HasRd
<1> QED
  BY <1>2, <1>3, <1>4, <1>5, <1>6, <1>7, <1>8, <1>9, <1>10 DEF Tester

\* The test program's verdict is the result of its own call, whatever the table
\* holds, whichever way its port is built and however often it selects it.
THEOREM VerdictOfCall == Spec => []VerdictIsResult
<1>1. Orderly /\ [Next]_vars => Orderly'
  <2> SUFFICES ASSUME Orderly, [Next]_vars PROVE Orderly'
    OBVIOUS
  <2>1. CASE UNCHANGED vars
    BY <2>1 DEF vars, Orderly, Lines, Handshake, Waiting, Settled, CoreCalls, HasRd
  <2> QED
    BY <2>1, CallerOrderly, TesterOrderly DEF Next
<1>2. Orderly => VerdictIsResult
  BY DEF Orderly, Handshake, Settled, VerdictIsResult
<1> QED
  BY <1>1, <1>2, InitOrderly, PTL DEF Spec

-----------------------------------------------------------------------------
(* The picture of the port, for a program that selects the interface once   *)
(* and a table whose entries never forget an error.                         *)

Rested == Parts(dbg) /\ Coherent(dbg) /\ (tester # "hung" => Resting(dbg))
Clean == tester = "result" /\ io.funcsel # "CheckTrace" /\ dbg.rd = TEST_PASS => ~Bad(dbg)
SetsInterface(f) == f \in {"SetInterfaceJTAG", "SetInterfaceSW"}
Untouched == dbg.st.jtagapndp = 2 /\ ~Bad(dbg)
Unselected ==
    /\ ~mcu.selected => mcu.pc = "idle" /\ Untouched
    /\ SetsInterface(mcu.fn) /\ (mcu.pc = "started" \/ (Waiting /\ tester \in {"wait strobe", "run"}))
          => Untouched
Safe == Orderly /\ Rested /\ Clean /\ Unselected

LEMMA InitSafe ==
  ASSUME Init
  PROVE  Safe
<1>1. Orderly
  BY InitOrderly
<1>2. /\ tester = "poll" /\ mcu.pc = "idle" /\ dbg.st = InitDAPSTATUS
      /\ dbg.port.sticky = FALSE /\ dbg.port.bank = 0
  BY DEF Init
<1>3. Dap(dbg)
  <2>1. PICK port : /\ port = [jtag |-> port.jtag, ir |-> port.ir, bank |-> port.bank,
                               tar |-> port.tar, csw |-> port.csw, req |-> port.req,
                               sticky |-> port.sticky, buf |-> port.buf]
                    /\ port.sticky = FALSE /\ dbg.port = port
    BY DEF Init
  <2>2. Parts(dbg) /\ dbg.hung = FALSE
        /\ dbg.mcu = [stacktop |-> dbg.mcu.stacktop, traceconfigured |-> dbg.mcu.traceconfigured]
    BY DEF Init, Parts
  <2>3. /\ dbg.st.jtagnsw = FALSE /\ dbg.st.on = FALSE /\ dbg.st.jtagapndp = 2
        /\ dbg.st.error = 0
        /\ dbg.st = [jtagnsw |-> dbg.st.jtagnsw, jtagapndp |-> dbg.st.jtagapndp,
                     on |-> dbg.st.on, banksel |-> dbg.st.banksel, csw |-> dbg.st.csw,
                     error |-> dbg.st.error, ack |-> dbg.st.ack,
                     stkerrclr |-> dbg.st.stkerrclr]
    BY <1>2 DEF InitDAPSTATUS
  <2> QED
    <3>1. dbg.st.jtagnsw \in BOOLEAN /\ dbg.st.on \in BOOLEAN /\ dbg.port.sticky \in BOOLEAN
      BY <2>1, <2>3
    <3>2. dbg.st.jtagapndp \in {AP, DP, 2} /\ dbg.st.error \in 0 .. MaxError
      BY <2>3 DEF MaxError
    <3> QED
      BY <2>1, <2>2, <2>3, <3>1, <3>2, Zenon DEF Dap
<1>4. ~Bad(dbg) /\ dbg.st.jtagapndp = 2
  BY <1>2 DEF Bad, InitDAPSTATUS
<1>5. Resting(dbg) /\ Coherent(dbg)
  BY <1>2, <1>3, <1>4 DEF Resting, AtBank0, Pictured, Coherent, Chain, AtDp, Known, Banks, Sizes,
                          InitDAPSTATUS, AP
<1> QED
  BY <1>1, <1>2, <1>3, <1>4, <1>5 DEF Safe, Rested, Clean, Unselected, Untouched, Waiting, Dap

\* The core and its memory are no part of the picture.
LEMMA CoreApart ==
  ASSUME NEW x, Parts(x), NEW m, NEW y, y = [x EXCEPT !.mem = m] \/ y = [x EXCEPT !.core = m]
  PROVE  /\ Parts(y) /\ y.st = x.st /\ y.port = x.port /\ y.rd = x.rd /\ y.hung = x.hung
         /\ Dap(x) => Alike(x, y)
<1>1. Parts(y) /\ y.st = x.st /\ y.port = x.port /\ y.rd = x.rd /\ y.hung = x.hung
      /\ y.mcu = x.mcu
  BY DEF Parts
<1> QED
  BY <1>1 DEF Dap, Alike

LEMMA CallerSafe ==
  ASSUME Reselect = FALSE, Safe,
         (\E f \in Func : \E arg \in Args(f) : StartDebugTester(f, arg)) \/ Mcu
  PROVE  Safe'
<1>1. Orderly'
  BY CallerOrderly DEF Safe
<1>2. tester' = tester
  BY DEF Mcu, StartDebugTester, ClearStrobe, WaitFlag, Fault, CheckDebugTester, ReadError
<1>3. dbg' = dbg \/ \E m : dbg' = [dbg EXCEPT !.mem = m] \/ dbg' = [dbg EXCEPT !.core = m]
  <2>1. CASE WaitFlag \/ Fault
    <3>1. dbg' = dbg \/ \E v : dbg' = [dbg EXCEPT !.core.mode = v]
      BY <2>1 DEF WaitFlag, Fault
    <3> QED
      BY <3>1
  <2>2. CASE (\E f \in Func : \E arg \in Args(f) : StartDebugTester(f, arg)) \/ ReadError
    BY <2>2 DEF StartDebugTester, ReadError
  <2>3. CASE ClearStrobe \/ CheckDebugTester
    BY <2>3 DEF ClearStrobe, CheckDebugTester
  <2> QED
    BY <2>1, <2>2, <2>3 DEF Mcu
<1>4. /\ Parts(dbg') /\ dbg'.st = dbg.st /\ dbg'.port = dbg.port /\ dbg'.rd = dbg.rd
      /\ Dap(dbg) => Alike(dbg, dbg')
  <2>1. Parts(dbg)
    BY DEF Safe, Rested
  <2>2. CASE dbg' = dbg
    BY <2>1, <2>2 DEF Alike
  <2>3. CASE \E m : dbg' = [dbg EXCEPT !.mem = m] \/ dbg' = [dbg EXCEPT !.core = m]
    <3>1. PICK m : dbg' = [dbg EXCEPT !.mem = m] \/ dbg' = [dbg EXCEPT !.core = m]
      BY <2>3
    <3> QED
      BY <2>1, <3>1, CoreApart
  <2> QED
    BY <1>3, <2>2, <2>3
<1>5. Rested'
  <2>1. Coherent(dbg')
    BY <1>4 DEF Safe, Rested, Coherent, Chain, Bad, Banks, Sizes
  <2>2. tester # "hung" => Resting(dbg')
    BY <1>4, AlikeKeeps, RestingIsReady DEF Safe, Rested
  <2> QED
    BY <1>2, <1>4, <2>1, <2>2 DEF Rested
<1>6. Untouched => Untouched'
  BY <1>4 DEF Untouched, Bad
<1>7. ASSUME NEW f \in Func, NEW arg \in Args(f), StartDebugTester(f, arg)
      PROVE  Clean' /\ Unselected'
  <2>1. /\ mcu.pc = "idle" /\ tester = "poll" /\ Permitted(f)
        /\ mcu' = [mcu EXCEPT !.pc = "started", !.fn = f, !.arg = arg,
                              !.selected = @ \/ f \in {"SetInterfaceJTAG", "SetInterfaceSW"}]
    BY <1>7 DEF StartDebugTester, Safe, Orderly, Handshake
  <2>2. SetsInterface(f) => ~mcu.selected
    BY <2>1 DEF Permitted, SetsInterface
  <2>3. ~SetsInterface(f) => mcu.selected
    BY <2>1 DEF Permitted, SetsInterface
  <2>4. mcu'.pc = "started" /\ mcu'.fn = f /\ (mcu'.selected <=> mcu.selected \/ SetsInterface(f))
    BY <2>1 DEF SetsInterface, Safe, Orderly, Lines
  <2> QED
    BY <1>2, <1>6, <2>1, <2>2, <2>3, <2>4 DEF Clean, Unselected, Waiting, Safe
<1>8. ASSUME Mcu PROVE Clean' /\ Unselected'
  <2>1. mcu.pc # "idle"
    BY <1>8 DEF Mcu, ClearStrobe, WaitFlag, Fault, CheckDebugTester, ReadError
  <2>2. mcu'.fn = mcu.fn /\ mcu'.selected = mcu.selected /\ io'.funcsel = io.funcsel
    BY <1>8 DEF Mcu, ClearStrobe, WaitFlag, Fault, CheckDebugTester, ReadError,
                Safe, Orderly, Lines
  <2>3. mcu'.pc # "started"
    BY <1>8 DEF Mcu, ClearStrobe, WaitFlag, Fault, CheckDebugTester, ReadError,
                Safe, Orderly, Lines
  <2>4. Waiting' => mcu.pc = "started" \/ Waiting
    BY <1>8 DEF Mcu, ClearStrobe, WaitFlag, Fault, CheckDebugTester, ReadError,
                Safe, Orderly, Lines, Waiting
  <2>5. Clean'
    BY <1>2, <1>4, <2>2 DEF Clean, Safe, Bad
  <2>6. mcu.selected
    BY <2>1 DEF Safe, Unselected
  <2> QED
    BY <1>2, <1>6, <2>2, <2>3, <2>4, <2>5, <2>6 DEF Unselected, Safe
<1> QED
  BY <1>1, <1>5, <1>7, <1>8 DEF Safe

LEMMA TesterSafe ==
  ASSUME "ReadMemSpecial" \notin Spare, Safe, Tester
  PROVE  Safe'
<1>1. Orderly'
  BY TesterOrderly DEF Safe
<1>2. mcu' = mcu /\ io'.funcsel = io.funcsel
  BY DEF Safe, Orderly, Lines, Tester, Poll, Select, StrobeGone, RunFunction, RunCheckTrace,
         RunSampleCore, RunCorePart, FlagError, Finish, Goto
<1>3. ASSUME tester \in {"poll", "select", "wait strobe", "result", "finished"}, dbg' = dbg,
             tester' \notin {"hung", "result"},
             tester' \in {"wait strobe", "run"} => tester \in {"select", "wait strobe"}
      PROVE  Safe'
  <2>1. Rested' /\ Clean'
    BY <1>3 DEF Safe, Rested, Clean
  <2>2. tester' \in {"wait strobe", "run"} /\ Waiting => tester = "wait strobe"
    BY <1>3 DEF Safe, Orderly, Handshake, Waiting
  <2>3. Unselected'
    BY <1>2, <1>3, <2>2 DEF Safe, Unselected, Untouched, Waiting
  <2> QED
    BY <1>1, <2>1, <2>3 DEF Safe
<1>4. ASSUME tester \in {"run"} \cup DOMAIN CoreParts, tester' \notin {"wait strobe", "run"},
             Rested', Clean'
      PROVE  Safe'
  <2>1. Waiting
    BY <1>4, Points DEF Safe, Orderly, Lines, Handshake, Waiting
  <2>2. Unselected'
    BY <1>2, <1>4, <2>1 DEF Safe, Unselected, Waiting
  <2> QED
    BY <1>1, <1>4, <2>2 DEF Safe
<1>5. CASE Poll \/ Select \/ StrobeGone \/ FlagError \/ Finish
  BY <1>3, <1>5 DEF Poll, Select, StrobeGone, FlagError, Finish, Goto
<1>6. CASE RunFunction
  <2>1. tester = "run" /\ io.funcsel \in Func /\ ~ActsOnCore(io.funcsel)
        /\ io.funcsel # "CheckTrace" /\ io.funcsel = mcu.fn /\ Waiting
    BY <1>6 DEF RunFunction, Safe, Orderly, Lines, Handshake, Waiting
  <2>2. Resting(dbg)
    BY <2>1 DEF Safe, Rested
  <2>3. io.funcsel \in {"SetInterfaceJTAG", "SetInterfaceSW"} => Untouched
    BY <2>1 DEF Safe, Unselected, SetsInterface
  <2>4. Left(dbg')
    BY <1>6, <2>1, <2>2, <2>3, RunLeft DEF RunFunction, Untouched
  <2>5. tester' = IF dbg'.hung THEN "hung" ELSE "result"
    BY <1>6 DEF RunFunction, Goto
  <2>6. Rested' /\ Clean'
    BY <2>4, <2>5 DEF Left, Stopped, Rested, Clean
  <2> QED
    BY <1>4, <2>1, <2>5, <2>6
<1>7. CASE RunCheckTrace
  <2>1. tester = "run" /\ tester' = "result" /\ io.funcsel = "CheckTrace"
    BY <1>7 DEF RunCheckTrace
  <2>2. Resting(dbg')
    BY <1>7, <2>1, TraceFunctionsLeft DEF RunCheckTrace, Safe, Rested
  <2>3. Rested' /\ Clean'
    BY <1>2, <2>1, <2>2 DEF Rested, Clean, Resting, AtBank0, Pictured, Coherent, Dap
  <2> QED
    BY <1>4, <2>1, <2>3
<1>8. CASE RunSampleCore
  <2>1. tester = "run" /\ tester' = IF dbg'.rd = TEST_FAIL THEN "result" ELSE "halt"
    BY <1>8 DEF RunSampleCore, Goto
  <2>2. Resting(SampleCore(dbg)) /\ Resting(dbg)
    BY <2>1, CorePartsLeft DEF Safe, Rested
  <2>3. Resting(dbg')
    <3>1. PICK v : v = IF Bit(SampleCore(dbg).rd, Wanted(io.funcsel)) THEN TEST_PASS ELSE TEST_FAIL
      OBVIOUS
    <3>2. dbg' = IF dbg.st.on THEN Return(SampleCore(dbg), v) ELSE Return(dbg, TEST_FAIL)
      BY <1>8, <3>1 DEF RunSampleCore, WhenOn, Found
    <3> QED
      BY <2>2, <3>2, ReturnRests
  <2>4. Rested' /\ Clean'
    BY <2>1, <2>3
       DEF Rested, Clean, Resting, AtBank0, Pictured, Coherent, Dap, TEST_PASS, TEST_FAIL
  <2> QED
    BY <1>4, <2>1, <2>4
<1>9. CASE RunCorePart
  <2>1. /\ tester \in DOMAIN CoreParts /\ io.funcsel \in DOMAIN CoreParts[tester]
        /\ dbg' = CorePart(tester, dbg)
        /\ tester' = IF dbg'.hung THEN "hung" ELSE CoreParts[tester][io.funcsel]
    BY <1>9 DEF RunCorePart, Goto, Safe, Orderly, CoreCalls
  <2>2. Resting(dbg)
    BY <2>1, Points DEF Safe, Rested
  <2>3. Stopped(dbg') /\ (tester = "unhalt" => Left(dbg'))
    BY <2>1, <2>2, CorePartsLeft, Points DEF CorePart, Left
  <2>4. /\ CoreParts[tester][io.funcsel] \in {"flag", "replace", "return", "unhalt", "result"}
        /\ CoreParts[tester][io.funcsel] = "result" => tester = "unhalt"
    BY <2>1, Route
  <2>5. Rested' /\ Clean'
    BY <2>1, <2>3, <2>4 DEF Left, Stopped, Rested, Clean
  <2> QED
    BY <1>4, <2>1, <2>4, <2>5
<1> QED
  BY <1>5, <1>6, <1>7, <1>8, <1>9 DEF Tester

LEMMA SafeAlways ==
  ASSUME Reselect = FALSE, "ReadMemSpecial" \notin Spare
  PROVE  Spec => []Safe
<1>1. Safe /\ [Next]_vars => Safe'
  <2> SUFFICES ASSUME Safe, [Next]_vars PROVE Safe'
    OBVIOUS
  <2>1. CASE UNCHANGED vars
    <3>1. Orderly'
      BY <2>1 DEF Safe, vars, Orderly, Lines, Handshake, Waiting, Settled, CoreCalls, HasRd
    <3>2. Rested' /\ Clean' /\ Unselected'
      BY <2>1 DEF Safe, vars, Rested, Clean, Unselected, Untouched, Waiting
    <3> QED
      BY <3>1, <3>2 DEF Safe
  <2> QED
    BY <2>1, CallerSafe, TesterSafe DEF Next
<1>2. Init => Safe
  BY InitSafe
<1> QED
  BY <1>1, <1>2, PTL DEF Spec

\* The program's picture of the port is true while no access has failed: for
\* both protocols, byte orders and builds, for every table of calls that leave
\* errors counted, and for a test program that selects the interface once.
THEOREM PictureIsTrue ==
  ASSUME Reselect = FALSE, "ReadMemSpecial" \notin Spare
  PROVE  Spec => []CacheCoherent
<1>1. Safe => CacheCoherent
  BY DEF Safe, Rested, Coherent, Chain, Bad, Banks, Sizes, Right, CacheCoherent
<1> QED
  BY <1>1, SafeAlways, PTL

\* Under the same hypotheses a function that passes left no error behind.
THEOREM PassWithoutFault ==
  ASSUME Reselect = FALSE, "ReadMemSpecial" \notin Spare
  PROVE  Spec => []PassMeansNoFault
<1>1. Safe => PassMeansNoFault
  BY DEF Safe, Rested, Clean, Bad, Passed, PassMeansNoFault
<1> QED
  BY <1>1, SafeAlways, PTL
=============================================================================
