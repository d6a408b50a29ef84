------------------------ MODULE SampleProvenanceProofs ------------------------
(***************************************************************************)
(* Proofs about the sampling path, for every FIFO depth, ratio of the two  *)
(* clocks, width, length of a calibration and set of accesses.  About      *)
(* SensingWrapper: no sample is lost between the pre-check and the push,   *)
(* every pop finds its sample, a status read never shows a sample that is  *)
(* not there, and a write holds the last result of the converter.  About   *)
(* SampleProvenance, which adds history variables: the sample pushed for a *)
(* trigger comes from a conversion that ended after it, and it is pushed   *)
(* within a bounded time.                                                  *)
(***************************************************************************)
EXTENDS SampleProvenance, TLAPS

-------------------------------------------------------------------------------
(* The handshake of SensingWrapper.                                        *)

\* The part of the state the properties depend on keeps its types.
Typed == /\ fsm_state \in Fsm!States
         /\ count \in 0 .. Depth
         /\ apb \in AllAccesses \cup {NoAccess}
         /\ quiet \in 0 .. MinQuiet
         /\ fifo_rd_en \in BOOLEAN
         /\ fifo_clear \in BOOLEAN

\* A pop or a flush reaches the FIFO in the SETUP cycle of the next access at
\* the latest, never together with an access.
PulseBetweenAccesses == /\ apb # NoAccess => quiet = 0 /\ ~fifo_rd_en /\ ~fifo_clear
                        /\ fifo_rd_en \/ fifo_clear => quiet = 1

Inv == Typed /\ PulseBetweenAccesses /\ NoOverrun /\ PopHasSample

LEMMA Constants == /\ Depth \in Nat /\ Depth > 1
                   /\ MinQuiet \in Nat /\ MinQuiet > 0
                   /\ Accesses \subseteq AllAccesses
                   /\ NoAccess \notin AllAccesses
  BY WrapperAssumption DEF AllAccesses, NoAccess

\* What one clock does to the count: it stays in range, only a write raises it,
\* and only a pop or a flush lowers it.
LEMMA FifoClkCount ==
  ASSUME count \in 0 .. Depth,
         NEW wr \in BOOLEAN, NEW d, NEW rd \in BOOLEAN, NEW clr \in BOOLEAN,
         Fifo!Clk(wr, d, rd, clr)
  PROVE  /\ count' \in 0 .. Depth
         /\ ~wr => count' <= count
         /\ ~rd /\ ~clr => count' >= count
<1> USE Constants
<1>1. CASE clr
  BY <1>1 DEF Fifo!Clk, Fifo!Clear
<1>2. CASE ~clr
  <2>1. Fifo!CounterLogic(wr, rd)
    BY <1>2 DEF Fifo!Clk
  <2>2. QED
    BY <1>2, <2>1 DEF Fifo!CounterLogic, Fifo!do_wr, Fifo!do_rd, Fifo!fifo_full,
       Fifo!fifo_empty, Fifo!Inc, Fifo!Dec
<1>3. QED
  BY <1>1, <1>2

\* What one clock does to the FSM: it stays in its states, it commits to a
\* conversion only from S_CHECK_FIFO and only if the FIFO is not full, and it
\* is idle after S_WRITE.
LEMMA FsmClkCommit ==
  ASSUME NEW trig \in BOOLEAN, NEW full \in BOOLEAN, NEW valid \in BOOLEAN,
         Fsm!Clk(trig, full, valid)
  PROVE  /\ fsm_state' \in Fsm!States
         /\ fsm_state' \in Committed =>
               \/ fsm_state \in Committed \ {"S_WRITE"}
               \/ fsm_state = "S_CHECK_FIFO" /\ ~full
  BY DEF Fsm!Clk, Fsm!Idle, Fsm!CheckFifo, Fsm!Enable, Fsm!WaitStart,
     Fsm!WaitDone, Fsm!Write, Fsm!ErrFull, Fsm!Goto, Fsm!States, Committed

LEMMA PosEdgePreservesInv == Inv /\ PosEdge => Inv'
<1> SUFFICES ASSUME Inv, PosEdge PROVE Inv'
  OBVIOUS
<1> USE Constants
<1> DEFINE wr == fsm_state = "S_WRITE"
<1>1. /\ count' \in 0 .. Depth
      /\ ~wr => count' <= count
      /\ ~fifo_rd_en /\ ~fifo_clear => count' >= count
  BY FifoClkCount DEF Inv, Typed, PosEdge, Fsm!fifo_write_en
<1>2. /\ fsm_state' \in Fsm!States
      /\ fsm_state' \in Committed =>
            \/ fsm_state \in Committed \ {"S_WRITE"}
            \/ fsm_state = "S_CHECK_FIFO" /\ count # Depth
  BY FsmClkCommit DEF PosEdge, Fifo!fifo_full, Fsm!Clk, Fsm!Idle,
     Fsm!CheckFifo, Fsm!Enable, Fsm!WaitStart, Fsm!WaitDone, Fsm!Write,
     Fsm!ErrFull, Fsm!Goto, Fsm!States, Committed
<1>3. /\ fifo_rd_en' = (apb = "measurement_lo_rd" /\ count # 0)
      /\ fifo_clear' = (apb = "fifo_clear_wr")
  BY DEF PosEdge, ApbRegs, Pop, Fifo!fifo_empty
<1>4. /\ apb' # NoAccess => apb = NoAccess /\ apb' \in Accesses
      /\ quiet' = IF apb' # NoAccess THEN 0
                  ELSE IF quiet < MinQuiet THEN quiet + 1 ELSE quiet
  BY DEF PosEdge, Environment
<1> HIDE DEF wr
<1>5. Typed'
  BY <1>1, <1>2, <1>3, <1>4 DEF Inv, Typed
<1>6. PulseBetweenAccesses'
  <2>1. ASSUME apb' # NoAccess
        PROVE  quiet' = 0 /\ ~fifo_rd_en' /\ ~fifo_clear'
    BY <1>3, <1>4, <2>1 DEF NoAccess
  <2>2. ASSUME fifo_rd_en' \/ fifo_clear'
        PROVE  quiet' = 1
    <3>1. apb # NoAccess
      BY <1>3, <2>2 DEF NoAccess
    <3>2. quiet = 0 /\ apb' = NoAccess
      BY <1>4, <3>1 DEF Inv, PulseBetweenAccesses
    <3>3. QED
      BY <1>4, <3>2
  <2>3. QED
    BY <2>1, <2>2 DEF PulseBetweenAccesses
<1>7. NoOverrun'
  <2>1. SUFFICES ASSUME fsm_state' \in Committed PROVE count' < Depth
    BY DEF NoOverrun
  <2>2. ~wr
    BY <1>2, <2>1 DEF wr, Committed
  <2>3. count < Depth
    BY <1>2, <2>1 DEF Inv, NoOverrun, Typed
  <2>4. QED
    BY <1>1, <2>2, <2>3 DEF Inv, Typed
<1>8. PopHasSample'
  <2>1. SUFFICES ASSUME fifo_rd_en' PROVE count' > 0
    BY DEF PopHasSample
  <2>2. /\ apb # NoAccess
        /\ count > 0
    <3>1. apb = "measurement_lo_rd" /\ count # 0
      BY <1>3, <2>1
    <3>2. count > 0
      BY <3>1 DEF Inv, Typed
    <3>3. QED
      BY <3>1, <3>2 DEF NoAccess
  <2>3. ~fifo_rd_en /\ ~fifo_clear
    BY <2>2 DEF Inv, PulseBetweenAccesses
  <2>4. QED
    BY <1>1, <2>2, <2>3 DEF Inv, Typed
<1>9. QED
  BY <1>5, <1>6, <1>7, <1>8 DEF Inv

\* The falling edge moves only the divider and the ADC.
LEMMA NegEdgeFrame ==
  NegEdge => UNCHANGED << fsmVars, fifoVars, capVars, apbVars, envVars >>
  BY DEF NegEdge

LEMMA InvInductive == Inv /\ [Next]_vars => Inv'
<1> SUFFICES ASSUME Inv, [Next]_vars PROVE Inv'
  OBVIOUS
<1> USE DEF Inv, Typed, PulseBetweenAccesses, NoOverrun, PopHasSample
<1>1. CASE PosEdge
  BY <1>1, PosEdgePreservesInv
<1>2. CASE NegEdge
  BY <1>2, NegEdgeFrame DEF fsmVars, fifoVars, apbVars, envVars
<1>3. CASE Reset
  <2>1. /\ fsm_state' = "S_IDLE"
        /\ count' = 0
        /\ apb' = NoAccess
        /\ quiet' = 0
        /\ fifo_rd_en' = FALSE
        /\ fifo_clear' = FALSE
    BY <1>3 DEF Reset, Fsm!Reset, Fifo!Clear
  <2>2. fsm_state' \in Fsm!States /\ fsm_state' \notin Committed
    BY <2>1 DEF Fsm!States, Committed
  <2>3. Typed'
    <3>1. count' \in 0 .. Depth /\ quiet' \in 0 .. MinQuiet
      BY <2>1, Constants
    <3>2. fifo_rd_en' \in BOOLEAN /\ fifo_clear' \in BOOLEAN
      BY <2>1
    <3>3. QED
      BY <2>1, <2>2, <3>1, <3>2
  <2>4. (PulseBetweenAccesses /\ NoOverrun /\ PopHasSample)'
    BY <2>1, <2>2
  <2>5. QED
    BY <2>3, <2>4
<1>4. CASE UNCHANGED vars
  BY <1>4 DEF vars, fsmVars, fifoVars, apbVars, envVars
<1>5. QED
  BY <1>1, <1>2, <1>3, <1>4 DEF Next

LEMMA InvInit == Init => Inv
<1> SUFFICES ASSUME Init PROVE Inv
  OBVIOUS
<1>1. /\ fsm_state = "S_IDLE"
      /\ count = 0
      /\ apb = NoAccess
      /\ quiet = 0
      /\ fifo_rd_en = FALSE
      /\ fifo_clear = FALSE
  BY DEF Init, Fsm!Init, Fifo!Init
<1>2. fsm_state \in Fsm!States /\ fsm_state \notin Committed
  BY <1>1 DEF Fsm!States, Committed
<1>3. Typed
  <2>1. count \in 0 .. Depth /\ quiet \in 0 .. MinQuiet
    BY <1>1, Constants
  <2>2. fifo_rd_en \in BOOLEAN /\ fifo_clear \in BOOLEAN
    BY <1>1
  <2>3. QED
    BY <1>1, <1>2, <2>1, <2>2 DEF Typed
<1>4. PulseBetweenAccesses /\ NoOverrun /\ PopHasSample
  BY <1>1, <1>2 DEF PulseBetweenAccesses, NoOverrun, PopHasSample
<1>5. QED
  BY <1>3, <1>4 DEF Inv

\* No sample is lost between the pre-check of the FIFO and the push.
THEOREM WrapperNoOverrun == Spec => []NoOverrun
  BY InvInit, InvInductive, PTL DEF Spec, Inv

\* The delayed pop of a measurement read always finds the sample that was read.
THEOREM WrapperPopHasSample == Spec => []PopHasSample
  BY InvInit, InvInductive, PTL DEF Spec, Inv
-------------------------------------------------------------------------------
(* The status register, when two cycles or more separate two accesses.     *)

\* A status that claims a sample the FIFO has not is seen only between accesses.
PhantomBetweenAccesses ==
  status_reg.fifo # "empty" /\ count = 0 => apb = NoAccess

LEMMA PhantomInductive ==
  ASSUME MinQuiet >= 2, Inv, PhantomBetweenAccesses, [Next]_vars
  PROVE  PhantomBetweenAccesses'
<1> USE Constants DEF PhantomBetweenAccesses
<1>1. CASE PosEdge
  <2>1. SUFFICES ASSUME status_reg'.fifo # "empty", count' = 0
                 PROVE  apb' = NoAccess
    OBVIOUS
  <2>2. count # 0
    BY <1>1, <2>1 DEF PosEdge, ApbRegs, Status, Fifo!fifo_empty
  <2>3. fifo_rd_en \/ fifo_clear
    <3>1. Fifo!Clk(fsm_state = "S_WRITE", adc_sample, fifo_rd_en, fifo_clear)
      BY <1>1 DEF PosEdge, Fsm!fifo_write_en
    <3>2. ~fifo_rd_en /\ ~fifo_clear => count' >= count
      BY <3>1, FifoClkCount DEF Inv, Typed
    <3>3. count > 0
      BY <2>2 DEF Inv, Typed
    <3>4. QED
      BY <2>1, <3>2, <3>3 DEF Inv, Typed
  <2>4. quiet = 1
    BY <2>3 DEF Inv, PulseBetweenAccesses
  <2>5. QED
    BY <1>1, <2>4 DEF PosEdge, Environment
<1>2. CASE NegEdge
  BY <1>2, NegEdgeFrame DEF fifoVars, apbVars, envVars
<1>3. CASE Reset
  BY <1>3 DEF Reset
<1>4. CASE UNCHANGED vars
  BY <1>4 DEF vars, fifoVars, apbVars, envVars
<1>5. QED
  BY <1>1, <1>2, <1>3, <1>4 DEF Next

\* With two quiet cycles between accesses, which the AHB bridge gives, a driver
\* that finds the FIFO non-empty in the status register can read a sample.
THEOREM WrapperStatusNotPhantom ==
  ASSUME MinQuiet >= 2
  PROVE  Spec => []StatusNotPhantom
<1>1. Init => PhantomBetweenAccesses
  BY DEF Init, PhantomBetweenAccesses
<1>2. PhantomBetweenAccesses /\ Inv => StatusNotPhantom
  BY Constants DEF PhantomBetweenAccesses, StatusNotPhantom, Inv, Typed, NoAccess
<1>3. Inv /\ PhantomBetweenAccesses /\ [Next]_vars => PhantomBetweenAccesses'
  BY PhantomInductive
<1>4. QED
  BY <1>1, <1>2, <1>3, InvInit, InvInductive, PTL DEF Spec
-------------------------------------------------------------------------------
(* The result on its way from sar_clk to PCLK.                             *)

\* The signals of the handshake are levels.
Levels == {res_valid, adc_valid_s1, adc_valid_s2, adc_valid_s3, sar_clk, div_ph}
            \subseteq BOOLEAN

\* A result stands only until the next conversion has sampled.
ValidStands == res_valid => sar_state \in {"sWait", "sSample"}

\* The first flop is behind res_valid only in the half cycle after an edge of
\* sar_clk, and as sar_clk stays high for a cycle at least, a rise stands until
\* the second flop has it.
Synchronised ==
  /\ pclk = 1 => adc_valid_s1 = res_valid
  /\ pclk = 0 /\ adc_valid_s1 # res_valid => sar_clk
  /\ adc_valid_s1 /\ ~adc_valid_s2 => res_valid /\ (pclk = 1 => sar_clk)

\* sarlogic is not about to publish a result: it has just published one and has
\* not sampled the next, or its last edge was the one that sampled it.
NoResultDue == \/ sar_state \in {"sWait", "sSample"}
               \/ sar_state \in {"sConv", "sCal"} /\ sar_clk

\* The FSM writes in the cycle after the capture: it waits for a rise, and the
\* rise that ends the wait is captured by the same edge.
Fetching ==
  /\ fsm_state = "S_WAIT_DONE" => ~adc_valid_s3
  /\ pclk = 1 /\ adc_valid_rise => res_valid
  /\ pclk = 0 /\ adc_valid_rise => NoResultDue
  /\ pclk = 1 /\ fsm_state = "S_WRITE" => NoResultDue

CaptureInv == Levels /\ ValidStands /\ Synchronised /\ Fetching /\ WriteHoldsLastResult

\* An edge of sar_clk changes the result only in sDone, which sets res_valid;
\* nothing else sets it, and only the edge that samples starts a conversion.
LEMMA SarEdgeResult ==
  ASSUME NEW en \in BOOLEAN, NEW cal, NEW v,
         Levels, ValidStands, Adc!AdcClk(en, cal, v)
  PROVE  /\ res_valid' \in BOOLEAN
         /\ ValidStands'
         /\ sar_state # "sDone" => result_q' = result_q /\ (res_valid' => res_valid)
         /\ res_valid /\ ~res_valid' => sar_state' \in {"sSample", "sConv", "sCal"}
         /\ res_valid' => sar_state' \in {"sWait", "sSample"}
<1> USE DEF ValidStands
<1>0. res_valid \in BOOLEAN
  BY DEF Levels
<1>1. Adc!Sar!Clk(en, Adc!Comparator(v), cal)
  BY DEF Adc!AdcClk
<1>2. CASE Adc!Sar!InitTrim
  BY <1>0, <1>2 DEF Adc!Sar!InitTrim
<1>3. CASE Adc!Sar!Wait(en, cal)
  <2>1. /\ result_q' = result_q
        /\ \/ sar_state' = "sSample" /\ res_valid' = FALSE
           \/ sar_state' = "sWait" /\ res_valid' = res_valid
    BY <1>3 DEF Adc!Sar!Wait, Adc!Sar!start_conv, Adc!Sar!vars
  <2>2. sar_state = "sWait"
    BY <1>3 DEF Adc!Sar!Wait
  <2>3. CASE sar_state' = "sSample" /\ res_valid' = FALSE
    BY <2>1, <2>2, <2>3
  <2>4. CASE sar_state' = "sWait" /\ res_valid' = res_valid
    BY <1>0, <2>1, <2>2, <2>4
  <2> QED
    BY <2>1, <2>3, <2>4
<1>4. CASE Adc!Sar!Sample
  BY <1>0, <1>4 DEF Adc!Sar!Sample
<1>5. CASE Adc!Sar!Conv(Adc!Comparator(v))
  BY <1>0, <1>5 DEF Adc!Sar!Conv
<1>6. CASE Adc!Sar!Cal(Adc!Comparator(v))
  BY <1>0, <1>6 DEF Adc!Sar!Cal
<1>7. CASE Adc!Sar!Done(en, cal)
  BY <1>0, <1>7 DEF Adc!Sar!Done, Adc!Sar!start_conv
<1> QED
  BY <1>1, <1>2, <1>3, <1>4, <1>5, <1>6, <1>7 DEF Adc!Sar!Clk

LEMMA PosEdgePreservesCapture == CaptureInv /\ PosEdge => CaptureInv'
<1> SUFFICES ASSUME CaptureInv, PosEdge PROVE CaptureInv'
  OBVIOUS
<1> USE DEF CaptureInv
<1>1. /\ pclk = 0 /\ pclk' = 1
      /\ adc_valid_s1' = res_valid
      /\ adc_valid_s2' = adc_valid_s1
      /\ adc_valid_s3' = adc_valid_s2
      /\ adc_sample' = IF adc_valid_rise THEN result_q ELSE adc_sample
      /\ res_valid' = res_valid /\ result_q' = result_q /\ sar_state' = sar_state
      /\ sar_clk' = sar_clk /\ div_ph' = div_ph
  BY DEF PosEdge, Capture, adcVars, divVars
<1>2. /\ fsm_state' = "S_WAIT_DONE" =>
            ~adc_valid_s2 /\ fsm_state \in {"S_WAIT_START", "S_WAIT_DONE"}
      /\ fsm_state' = "S_WRITE" => adc_valid_s2 /\ fsm_state = "S_WAIT_DONE"
  BY DEF PosEdge, adc_valid_sync, Fsm!Clk, Fsm!Idle, Fsm!CheckFifo,
     Fsm!Enable, Fsm!WaitStart, Fsm!WaitDone, Fsm!Write, Fsm!ErrFull, Fsm!Goto
<1>3. Levels'
  BY <1>1 DEF Levels
<1>4. ValidStands'
  BY <1>1 DEF ValidStands
<1>5. Synchronised'
  <2>1. adc_valid_s1' /\ ~adc_valid_s2' => res_valid' /\ sar_clk'
    BY <1>1 DEF Synchronised
  <2> QED
    BY <1>1, <2>1 DEF Synchronised
<1>6. fsm_state' = "S_WRITE" => adc_valid_rise
  BY <1>2 DEF Fetching, adc_valid_rise
<1>7. Fetching'
  <2>1. fsm_state' = "S_WAIT_DONE" => ~adc_valid_s3'
    BY <1>1, <1>2
  <2>2. adc_valid_rise' => res_valid'
    BY <1>1 DEF adc_valid_rise, Synchronised
  <2>3. fsm_state' = "S_WRITE" => NoResultDue'
    BY <1>1, <1>6 DEF Fetching, NoResultDue
  <2> QED
    BY <1>1, <2>1, <2>2, <2>3 DEF Fetching
<1>8. WriteHoldsLastResult'
  BY <1>1, <1>6 DEF WriteHoldsLastResult
<1> QED
  BY <1>3, <1>4, <1>5, <1>7, <1>8

\* The falling edge of PCLK changes the result only with a rise of sar_clk.
LEMMA NegEdgeResult ==
  ASSUME Levels, ValidStands, NegEdge
  PROVE  /\ Levels' /\ ValidStands'
         /\ \/ UNCHANGED << res_valid, result_q, sar_state >>
            \/ ~sar_clk /\ sar_clk'
         /\ sar_state # "sDone" => result_q' = result_q /\ (res_valid' => res_valid)
         /\ res_valid /\ ~res_valid' => sar_state' \in {"sSample", "sConv", "sCal"}
<1>1. sar_clk' = div_ph /\ div_ph' \in BOOLEAN /\ div_ph \in BOOLEAN
  <2>1. Divide /\ div_ph \in BOOLEAN
    BY DEF NegEdge, Levels
  <2> QED
    BY <2>1 DEF Divide
<1>2. UNCHANGED << adc_valid_s1, adc_valid_s2, adc_valid_s3 >>
  BY NegEdgeFrame DEF capVars
<1>3. CASE ~sar_clk /\ div_ph /\ \E v \in Inputs : Adc!AdcClk(Fsm!adc_en, cal_reg, v)
  <2>1. PICK v \in Inputs : Adc!AdcClk(Fsm!adc_en, cal_reg, v)
    BY <1>3
  <2>2. Fsm!adc_en \in BOOLEAN
    BY DEF Fsm!adc_en
  <2>3. /\ res_valid' \in BOOLEAN
        /\ ValidStands'
        /\ sar_state # "sDone" => result_q' = result_q /\ (res_valid' => res_valid)
        /\ res_valid /\ ~res_valid' => sar_state' \in {"sSample", "sConv", "sCal"}
    BY <2>1, <2>2, SarEdgeResult
  <2>4. Levels'
    BY <1>1, <1>2, <2>3 DEF Levels
  <2> QED
    BY <1>1, <1>3, <2>3, <2>4
<1>4. CASE UNCHANGED adcVars
  <2>1. UNCHANGED << res_valid, result_q, sar_state >>
    BY <1>4 DEF adcVars
  <2>2. Levels'
    BY <1>1, <1>2, <2>1 DEF Levels
  <2> QED
    BY <2>1, <2>2 DEF ValidStands
<1> QED
  BY <1>3, <1>4 DEF NegEdge

LEMMA NegEdgePreservesCapture == CaptureInv /\ NegEdge => CaptureInv'
<1> SUFFICES ASSUME CaptureInv, NegEdge PROVE CaptureInv'
  OBVIOUS
<1> USE DEF CaptureInv
<1>1. /\ pclk = 1 /\ pclk' = 0
      /\ UNCHANGED << fsm_state, adc_valid_s1, adc_valid_s2, adc_valid_s3, adc_sample >>
  BY NegEdgeFrame DEF NegEdge, fsmVars, capVars
<1>2. /\ Levels' /\ ValidStands'
      /\ \/ UNCHANGED << res_valid, result_q, sar_state >>
         \/ ~sar_clk /\ sar_clk'
      /\ sar_state # "sDone" => result_q' = result_q /\ (res_valid' => res_valid)
      /\ res_valid /\ ~res_valid' => sar_state' \in {"sSample", "sConv", "sCal"}
  BY NegEdgeResult
<1>3. Synchronised'
  <2>1. adc_valid_s1' # res_valid' => sar_clk'
    BY <1>1, <1>2 DEF Synchronised
  <2>2. adc_valid_s1' /\ ~adc_valid_s2' => res_valid'
    BY <1>1, <1>2 DEF Synchronised
  <2> QED
    BY <1>1, <2>1, <2>2 DEF Synchronised
<1>4. Fetching'
  <2>1. adc_valid_rise' => NoResultDue'
    <3>1. SUFFICES ASSUME adc_valid_rise' PROVE NoResultDue'
      OBVIOUS
    <3>2. res_valid /\ sar_state \in {"sWait", "sSample"}
      BY <1>1, <3>1 DEF Fetching, adc_valid_rise, ValidStands
    <3>3. CASE res_valid'
      BY <1>2, <3>3 DEF ValidStands, NoResultDue
    <3>4. CASE ~res_valid'
      BY <1>2, <3>2, <3>4 DEF NoResultDue
    <3> QED
      BY <3>3, <3>4
  <2> QED
    BY <1>1, <2>1 DEF Fetching
<1>5. WriteHoldsLastResult'
  <2>1. SUFFICES ASSUME fsm_state' = "S_WRITE" PROVE adc_sample' = result_q'
    BY DEF WriteHoldsLastResult
  <2>2. NoResultDue
    BY <1>1, <2>1 DEF Fetching
  <2>3. result_q' = result_q
    BY <1>2, <2>2 DEF NoResultDue
  <2> QED
    BY <1>1, <2>1, <2>3 DEF WriteHoldsLastResult
<1> QED
  BY <1>2, <1>3, <1>4, <1>5

LEMMA CaptureAfterReset ==
  ASSUME fsm_state = "S_IDLE", res_valid = FALSE, sar_clk = FALSE, div_ph = FALSE,
         adc_valid_s1 = FALSE, adc_valid_s2 = FALSE, adc_valid_s3 = FALSE
  PROVE  CaptureInv
BY DEF CaptureInv, Levels, ValidStands, Synchronised, Fetching, adc_valid_rise,
       WriteHoldsLastResult

LEMMA CaptureInductive == CaptureInv /\ [Next]_vars => CaptureInv'
<1> SUFFICES ASSUME CaptureInv, [Next]_vars PROVE CaptureInv'
  OBVIOUS
<1>1. CASE PosEdge
  BY <1>1, PosEdgePreservesCapture
<1>2. CASE NegEdge
  BY <1>2, NegEdgePreservesCapture
<1>3. CASE Reset
  <2>1. /\ fsm_state' = "S_IDLE" /\ res_valid' = FALSE
        /\ sar_clk' = FALSE /\ div_ph' = FALSE
        /\ adc_valid_s1' = FALSE /\ adc_valid_s2' = FALSE /\ adc_valid_s3' = FALSE
    BY <1>3 DEF Reset, Fsm!Reset, Adc!Reset, Adc!Sar!Reset
  <2> QED
    BY <2>1 DEF CaptureInv, Levels, ValidStands, Synchronised, Fetching,
       adc_valid_rise, WriteHoldsLastResult
<1>4. CASE UNCHANGED vars
  BY <1>4 DEF vars, fsmVars, adcVars, divVars, capVars, CaptureInv, Levels,
     ValidStands, Synchronised, Fetching, NoResultDue, adc_valid_rise,
     WriteHoldsLastResult
<1> QED
  BY <1>1, <1>2, <1>3, <1>4 DEF Next

LEMMA CaptureInit == Init => CaptureInv
  BY CaptureAfterReset DEF Init, Fsm!Init, Adc!AdcInit, Adc!Sar!Init

\* A write holds the result of the last complete conversion, for every ratio of
\* the two clocks, every width and every length of a conversion.
THEOREM WrapperWriteHoldsLastResult == Spec => []WriteHoldsLastResult
  BY CaptureInit, CaptureInductive, PTL DEF Spec, CaptureInv

-------------------------------------------------------------------------------
(* Every behaviour with the history variables is one of SensingWrapper.    *)

LEMMA HistoryRefines ==
  /\ HInit => Init
  /\ [HNext]_allVars => [Next]_vars
BY DEF HInit, HNext, Next, allVars

-------------------------------------------------------------------------------
(* The result a trigger waits for.                                         *)

Serving == {"S_CHECK_FIFO", "S_ENABLE", "S_WAIT_START", "S_WAIT_DONE"}

\* The history variables have their types.
HistTyped == /\ heldFresh \in BOOLEAN
             /\ result \in [fresh : BOOLEAN, ended : BOOLEAN]
             /\ sample \in [fresh : BOOLEAN, ended : BOOLEAN]

\* Until a conversion has ended after the trigger, what is left of an earlier
\* valid can only go out of the synchroniser: it is never seen to rise, so the
\* FSM that has seen valid low does not see it high.
LeftOver ==
  fsm_state \in Serving /\ ~result.ended =>
    /\ res_valid => adc_valid_s1
    /\ fsm_state # "S_CHECK_FIFO" /\ adc_valid_s1 => adc_valid_s2
    /\ fsm_state = "S_WAIT_DONE" => ~adc_valid_s2

EndInv == HistTyped /\ LeftOver /\ EndedAfterTrigger

LEMMA PosEdgePreservesEnd ==
  ASSUME CaptureInv, EndInv, PosEdge, HistPosEdge
  PROVE  EndInv'
<1> USE DEF EndInv
<1>1. /\ pclk = 0
      /\ adc_valid_s1' = res_valid
      /\ adc_valid_s2' = adc_valid_s1
      /\ res_valid' = res_valid
  BY DEF PosEdge, Capture, adcVars
<1>2. /\ heldFresh' = (heldFresh /\ ~Accept)
      /\ result' = Age(result)
      /\ sample' = Age(IF adc_valid_rise THEN result ELSE sample)
  BY DEF HistPosEdge
<1>3. /\ fsm_state' = "S_CHECK_FIFO" => Accept
      /\ fsm_state' = "S_ENABLE" => fsm_state = "S_CHECK_FIFO"
      /\ fsm_state' = "S_WAIT_START" => fsm_state \in {"S_ENABLE", "S_WAIT_START"}
      /\ fsm_state' = "S_WAIT_DONE" =>
            ~adc_valid_s2 /\ fsm_state \in {"S_WAIT_START", "S_WAIT_DONE"}
      /\ fsm_state' = "S_WRITE" => adc_valid_s2 /\ fsm_state = "S_WAIT_DONE"
  BY DEF PosEdge, Accept, adc_valid_sync, Fsm!Clk, Fsm!Idle, Fsm!CheckFifo,
     Fsm!Enable, Fsm!WaitStart, Fsm!WaitDone, Fsm!Write, Fsm!ErrFull, Fsm!Goto
<1>4. HistTyped'
  <2>1. Nothing \in [fresh : BOOLEAN, ended : BOOLEAN]
    BY DEF Nothing
  <2> QED
    BY <1>2, <2>1 DEF HistTyped, Age
<1>5. fsm_state # "S_IDLE" => ~Accept /\ result' = result
  BY <1>2 DEF Accept, Age
<1>6. LeftOver'
  <2>1. SUFFICES ASSUME fsm_state' \in Serving, ~result.ended'
                 PROVE  /\ res_valid' => adc_valid_s1'
                        /\ fsm_state' # "S_CHECK_FIFO" /\ adc_valid_s1' => adc_valid_s2'
                        /\ fsm_state' = "S_WAIT_DONE" => ~adc_valid_s2'
    BY DEF LeftOver
  <2>2. CASE fsm_state' = "S_CHECK_FIFO"
    BY <1>1, <2>2
  <2>3. CASE fsm_state' # "S_CHECK_FIFO"
    <3>1. fsm_state \in Serving /\ ~result.ended
      BY <1>3, <1>5, <2>1, <2>3 DEF Serving
    <3>2. res_valid => adc_valid_s1
      BY <3>1 DEF LeftOver
    <3>3. fsm_state' = "S_WAIT_DONE" => ~adc_valid_s1
      BY <1>3, <3>1 DEF LeftOver
    <3> QED
      BY <1>1, <3>2, <3>3
  <2> QED
    BY <2>2, <2>3
<1>7. EndedAfterTrigger'
  <2>1. SUFFICES ASSUME fsm_state' = "S_WRITE" PROVE sample.ended'
    BY DEF EndedAfterTrigger, Writing
  <2>2. fsm_state = "S_WAIT_DONE" /\ adc_valid_s2
    BY <1>3, <2>1
  <2>3. adc_valid_rise
    BY <2>2 DEF CaptureInv, Fetching, adc_valid_rise
  <2>4. result.ended
    BY <2>2 DEF LeftOver, Serving
  <2> QED
    BY <1>2, <1>5, <2>2, <2>3, <2>4 DEF Age
<1> QED
  BY <1>4, <1>6, <1>7

LEMMA NegEdgePreservesEnd ==
  ASSUME CaptureInv, EndInv, NegEdge, HistNegEdge
  PROVE  EndInv'
<1> USE DEF EndInv
<1>1. UNCHANGED << fsm_state, adc_valid_s1, adc_valid_s2, adc_valid_s3 >>
  BY NegEdgeFrame DEF fsmVars, capVars
<1>2. /\ heldFresh' = (heldFresh \/ (SarEdge /\ Adc!Sar!SampleFalls))
      /\ result' = IF SarEdge /\ sar_state = "sDone" THEN Newest ELSE result
      /\ sample' = sample
  BY DEF HistNegEdge
<1>3. HistTyped'
  <2>1. heldFresh' \in BOOLEAN
    BY <1>2
  <2>2. Newest \in [fresh : BOOLEAN, ended : BOOLEAN]
    BY DEF HistTyped, Newest
  <2> QED
    BY <1>2, <2>1, <2>2 DEF HistTyped
<1>4. result.ended' \/ (result' = result /\ (res_valid' => res_valid))
  <2>1. CASE SarEdge /\ sar_state = "sDone"
    BY <1>2, <2>1 DEF Newest
  <2>2. CASE ~SarEdge
    BY <1>2, <2>2 DEF NegEdge, SarEdge, adcVars
  <2>3. CASE sar_state # "sDone"
    BY <1>2, <2>3, NegEdgeResult DEF CaptureInv
  <2> QED
    BY <2>1, <2>2, <2>3
<1>5. LeftOver'
  BY <1>1, <1>4 DEF LeftOver
<1>6. EndedAfterTrigger'
  BY <1>1, <1>2 DEF EndedAfterTrigger, Writing
<1> QED
  BY <1>3, <1>5, <1>6

LEMMA EndInductive ==
  CaptureInv /\ EndInv /\ [HNext]_allVars => EndInv'
<1> SUFFICES ASSUME CaptureInv, EndInv, [HNext]_allVars PROVE EndInv'
  OBVIOUS
<1>1. CASE PosEdge /\ HistPosEdge
  BY <1>1, PosEdgePreservesEnd
<1>2. CASE NegEdge /\ HistNegEdge
  BY <1>2, NegEdgePreservesEnd
<1>3. CASE Reset /\ HistReset
  <2>1. fsm_state' = "S_IDLE"
    BY <1>3 DEF Reset, Fsm!Reset
  <2>2. heldFresh' = FALSE /\ result' = Nothing /\ sample' = Nothing
    BY <1>3 DEF HistReset
  <2> QED
    BY <2>1, <2>2 DEF EndInv, HistTyped, LeftOver, Serving, EndedAfterTrigger,
       Writing, Nothing
<1>4. CASE UNCHANGED allVars
  BY <1>4 DEF allVars, vars, histVars, fsmVars, adcVars, capVars, EndInv,
     HistTyped, LeftOver, EndedAfterTrigger, Writing
<1> QED
  BY <1>1, <1>2, <1>3, <1>4 DEF HNext

LEMMA EndInit == HInit => EndInv
<1> SUFFICES ASSUME HInit PROVE EndInv
  OBVIOUS
<1>1. fsm_state = "S_IDLE" /\ heldFresh = FALSE /\ result = Nothing /\ sample = Nothing
  BY DEF HInit, Init, Fsm!Init
<1> QED
  BY <1>1 DEF EndInv, HistTyped, LeftOver, Serving, EndedAfterTrigger, Writing,
     Nothing

\* The sample pushed for a trigger comes from a conversion that ended after the
\* trigger was accepted, so no conversion is pushed twice.
THEOREM SampleEndedAfterTrigger == HSpec => []EndedAfterTrigger
<1>1. HInit => CaptureInv /\ EndInv
  BY HistoryRefines, CaptureInit, EndInit
<1>2. CaptureInv /\ EndInv /\ [HNext]_allVars => CaptureInv' /\ EndInv'
  BY HistoryRefines, CaptureInductive, EndInductive
<1>3. CaptureInv /\ EndInv => EndedAfterTrigger
  BY DEF EndInv
<1> QED
  BY <1>1, <1>2, <1>3, PTL DEF HSpec
-------------------------------------------------------------------------------
(* How long a run of the converter takes, in edges of sar_clk.             *)

LEMMA Widths == /\ {NBits, TrimBits, CalItts, ClkDiv} \subseteq Nat \ {0}
                /\ LongestRun \in Nat
                /\ LongestRun >= NBits + 3
                /\ LongestRun >= TrimBits * (CalItts + 1) + 3
<1>1. {NBits, TrimBits, CalItts, ClkDiv} \subseteq Nat \ {0}
  BY WrapperAssumption, RunAssumption
<1>2. TrimBits * (CalItts + 1) \in Nat
  BY <1>1
<1> QED
  BY <1>1, <1>2 DEF LongestRun

\* Halving a power of two leaves the next lower one, or nothing of the last bit.
LEMMA HalfPower ==
  ASSUME NEW n \in Nat, n <= NBits + TrimBits, NEW k \in 0 .. n - 1
  PROVE  IF k = 0 THEN (2 ^ k) % 2 = 1
         ELSE /\ k - 1 \in 0 .. n - 1
              /\ (2 ^ k) % 2 = 0
              /\ (2 ^ k) \div 2 = 2 ^ (k - 1)
<1>1. CASE k = 0
  <2>1. 2 ^ 0 = 1
    BY SMT
  <2> QED
    BY <1>1, <2>1
<1>2. CASE k # 0
  <2>1. k - 1 \in 0 .. n - 1 /\ k - 1 \in 0 .. NBits + TrimBits /\ (k - 1) + 1 = k
    BY <1>2, Widths
  <2>2. 2 ^ (k - 1) \in Nat /\ 2 ^ k = 2 * 2 ^ (k - 1)
    BY <2>1, PowersOfTwo
  <2>3. ASSUME NEW q \in Nat PROVE (2 * q) % 2 = 0 /\ (2 * q) \div 2 = q
    BY SMT
  <2> QED
    BY <1>2, <2>1, <2>2, <2>3
<1> QED
  BY <1>1, <1>2

\* Comparisons a calibration still makes with trim bit k on trial.
Comparisons(k) == k * (CalItts + 1) + CalItts - cal_itt + 1

\* With en high the converter publishes a result within e edges of sar_clk.
EndsBy(e) ==
  \/ sar_state = "sDone" /\ 1 <= e
  \/ /\ sar_state = "sConv"
     /\ \E k \in 0 .. NBits - 1 : mask = 2 ^ k /\ k + 2 <= e
  \/ /\ sar_state = "sCal"
     /\ cal_itt \in 0 .. CalItts
     /\ \E k \in 0 .. TrimBits - 1 : trim_mask = 2 ^ k /\ Comparisons(k) + 1 <= e
  \/ /\ sar_state = "sSample"
     /\ mask = 2 ^ (NBits - 1) /\ cal_itt = 0
     /\ LongestRun - 1 <= e
  \/ sar_state = "sWait" /\ LongestRun <= e
  \/ sar_state = "sInit" /\ LongestRun + 1 <= e

LEMMA ConvProgress ==
  ASSUME NEW e \in Nat, EndsBy(e), NEW comp, Adc!Sar!Conv(comp)
  PROVE  e > 0 /\ EndsBy(e - 1)'
<1> USE Widths
<1>1. PICK k \in 0 .. NBits - 1 : mask = 2 ^ k /\ k + 2 <= e
  BY DEF EndsBy, Adc!Sar!Conv
<1>2. IF k = 0 THEN mask % 2 = 1
      ELSE k - 1 \in 0 .. NBits - 1 /\ mask % 2 = 0 /\ mask \div 2 = 2 ^ (k - 1)
  <2>1. NBits \in Nat /\ NBits <= NBits + TrimBits
    OBVIOUS
  <2> QED
    BY <1>1, <2>1, HalfPower
<1>3. CASE k = 0
  <2>1. sar_state' = "sDone"
    BY <1>2, <1>3 DEF Adc!Sar!Conv, Adc!Sar!Finish
  <2> QED
    BY <1>1, <1>3, <2>1 DEF EndsBy
<1>4. CASE k # 0
  <2>1. sar_state' = "sConv" /\ mask' = 2 ^ (k - 1)
    BY <1>2, <1>4 DEF Adc!Sar!Conv, Adc!Sar!Finish
  <2>2. k - 1 \in 0 .. NBits - 1 /\ (k - 1) + 2 <= e - 1
    BY <1>1, <1>2, <1>4
  <2> QED
    BY <1>1, <2>1, <2>2 DEF EndsBy
<1> QED
  BY <1>3, <1>4

LEMMA CalProgress ==
  ASSUME NEW e \in Nat, EndsBy(e), NEW comp, Adc!Sar!Cal(comp)
  PROVE  e > 0 /\ EndsBy(e - 1)'
<1> USE Widths
<1>1. sar_state = "sCal" /\ cal_itt \in 0 .. CalItts
  BY DEF EndsBy, Adc!Sar!Cal
<1>2. PICK k \in 0 .. TrimBits - 1 : trim_mask = 2 ^ k /\ Comparisons(k) + 1 <= e
  BY <1>1 DEF EndsBy
<1>3. k * (CalItts + 1) \in Nat /\ (k - 1) * (CalItts + 1) = k * (CalItts + 1) - CalItts - 1
  OBVIOUS
<1>4. e > 1
  BY <1>1, <1>2, <1>3 DEF Comparisons
<1>5. CASE Adc!Sar!CalCompare(comp)
  <2>1. /\ cal_itt < CalItts /\ cal_itt' = cal_itt + 1
        /\ sar_state' = sar_state /\ trim_mask' = trim_mask
    BY <1>5 DEF Adc!Sar!CalCompare
  <2>2. cal_itt' \in 0 .. CalItts
    BY <1>1, <2>1
  <2>3. Comparisons(k)' + 1 <= e - 1
    BY <1>1, <1>2, <1>3, <2>1 DEF Comparisons
  <2> QED
    BY <1>1, <1>2, <1>4, <2>1, <2>2, <2>3 DEF EndsBy
<1>6. CASE Adc!Sar!CalDecide
  <2>1. IF k = 0 THEN trim_mask % 2 = 1
        ELSE /\ k - 1 \in 0 .. TrimBits - 1
             /\ trim_mask % 2 = 0 /\ trim_mask \div 2 = 2 ^ (k - 1)
    <3>1. TrimBits \in Nat /\ TrimBits <= NBits + TrimBits
      OBVIOUS
    <3> QED
      BY <1>2, <3>1, HalfPower
  <2>2. CASE k = 0
    <3>1. sar_state' = "sDone"
      BY <1>6, <2>1, <2>2 DEF Adc!Sar!CalDecide, Adc!Sar!Finish
    <3> QED
      BY <1>4, <3>1 DEF EndsBy
  <2>3. CASE k # 0
    <3>1. /\ sar_state' = "sCal" /\ trim_mask' = 2 ^ (k - 1)
          /\ cal_itt = CalItts /\ cal_itt' = 0
      BY <1>1, <1>6, <2>1, <2>3 DEF Adc!Sar!CalDecide, Adc!Sar!Finish
    <3>2. Comparisons(k - 1)' + 1 <= e - 1
      <4>1. k * (CalItts + 1) + 2 <= e
        BY <1>2, <1>3, <3>1 DEF Comparisons
      <4>2. Comparisons(k - 1)' = (k - 1) * (CalItts + 1) + CalItts + 1
        BY <3>1 DEF Comparisons
      <4> QED
        BY <1>3, <4>1, <4>2
    <3>3. cal_itt' \in 0 .. CalItts
      BY <3>1
    <3> QED
      BY <1>4, <2>1, <2>3, <3>1, <3>2, <3>3 DEF EndsBy
  <2> QED
    BY <2>2, <2>3
<1> QED
  BY <1>5, <1>6 DEF Adc!Sar!Cal

LEMMA SampleProgress ==
  ASSUME NEW e \in Nat, EndsBy(e), Adc!Sar!Sample
  PROVE  e > 0 /\ EndsBy(e - 1)'
<1> USE Widths
<1>1. mask = 2 ^ (NBits - 1) /\ cal_itt = 0 /\ LongestRun - 1 <= e
  BY DEF EndsBy, Adc!Sar!Sample
<1>2. TrimBits * (CalItts + 1) \in Nat
  OBVIOUS
<1>3. e > 1
  BY <1>1
<1>4. CASE sar_state' = "sConv"
  <2>1. mask' = 2 ^ (NBits - 1)
    BY <1>1 DEF Adc!Sar!Sample
  <2>2. NBits - 1 \in 0 .. NBits - 1 /\ (NBits - 1) + 2 <= e - 1
    BY <1>1
  <2> QED
    BY <1>3, <1>4, <2>1, <2>2 DEF EndsBy
<1>5. CASE sar_state' = "sCal" /\ trim_mask' = Adc!Sar!TrimMsb
  <2>1. trim_mask' = 2 ^ (TrimBits - 1) /\ cal_itt' = 0
    BY <1>1, <1>5 DEF Adc!Sar!Sample, Adc!Sar!TrimMsb
  <2>2. TrimBits - 1 \in 0 .. TrimBits - 1 /\ cal_itt' \in 0 .. CalItts
    BY <2>1
  <2>3. (TrimBits - 1) * (CalItts + 1) = TrimBits * (CalItts + 1) - CalItts - 1
    OBVIOUS
  <2>4. Comparisons(TrimBits - 1)' + 1 <= e - 1
    <3>1. Comparisons(TrimBits - 1)' = (TrimBits - 1) * (CalItts + 1) + CalItts + 1
      BY <2>1 DEF Comparisons
    <3> QED
      BY <1>1, <1>2, <2>3, <3>1
  <2> QED
    BY <1>3, <1>5, <2>1, <2>2, <2>4 DEF EndsBy
<1> QED
  BY <1>4, <1>5 DEF Adc!Sar!Sample

\* Every edge of sar_clk brings the result one edge nearer, unless it publishes
\* it or finds en low between two conversions.
LEMMA SarEdgeProgress ==
  ASSUME NEW e \in Nat, EndsBy(e), NEW en \in BOOLEAN, NEW cal, NEW v,
         Adc!AdcClk(en, cal, v)
  PROVE  /\ e > 0
         /\ \/ sar_state = "sDone" /\ EndsBy(LongestRun)'
            \/ sar_state = "sWait" /\ ~en /\ EndsBy(e)'
            \/ sar_state # "sDone" /\ EndsBy(e - 1)'
<1> USE Widths
<1>1. Adc!Sar!Clk(en, Adc!Comparator(v), cal)
  BY DEF Adc!AdcClk
<1>2. CASE Adc!Sar!InitTrim
  BY <1>2 DEF Adc!Sar!InitTrim, EndsBy
<1>3. CASE Adc!Sar!Wait(en, cal)
  <2>1. sar_state = "sWait" /\ LongestRun <= e
    BY <1>3 DEF Adc!Sar!Wait, EndsBy
  <2>2. CASE en /\ Adc!Sar!start_conv(cal)
    <3>1. sar_state' = "sSample" /\ mask' = 2 ^ (NBits - 1) /\ cal_itt' = 0
      BY <2>2 DEF Adc!Sar!start_conv, Adc!Sar!Msb
    <3> QED
      BY <2>1, <3>1 DEF EndsBy
  <2>3. CASE ~en /\ UNCHANGED Adc!Sar!vars
    <3>1. sar_state' = sar_state
      BY <2>3 DEF Adc!Sar!vars
    <3> QED
      BY <2>1, <2>3, <3>1 DEF EndsBy
  <2> QED
    BY <1>3, <2>2, <2>3 DEF Adc!Sar!Wait
<1>4. CASE Adc!Sar!Sample
  <2>1. sar_state # "sDone"
    BY <1>4 DEF Adc!Sar!Sample
  <2> QED
    BY <1>4, <2>1, SampleProgress
<1>5. CASE Adc!Sar!Conv(Adc!Comparator(v))
  <2>1. sar_state # "sDone"
    BY <1>5 DEF Adc!Sar!Conv
  <2> QED
    BY <1>5, <2>1, ConvProgress
<1>6. CASE Adc!Sar!Cal(Adc!Comparator(v))
  <2>1. sar_state # "sDone"
    BY <1>6 DEF Adc!Sar!Cal
  <2> QED
    BY <1>6, <2>1, CalProgress
<1>7. CASE Adc!Sar!Done(en, cal)
  <2>1. sar_state = "sDone" /\ e > 0
    BY <1>7 DEF Adc!Sar!Done, EndsBy
  <2>2. \/ sar_state' = "sWait"
        \/ sar_state' = "sSample" /\ mask' = 2 ^ (NBits - 1) /\ cal_itt' = 0
    BY <1>7 DEF Adc!Sar!Done, Adc!Sar!start_conv, Adc!Sar!Msb
  <2> QED
    BY <2>1, <2>2 DEF EndsBy
<1> QED
  BY <1>1, <1>2, <1>3, <1>4, <1>5, <1>6, <1>7 DEF Adc!Sar!Clk

-------------------------------------------------------------------------------
(* The clock divider, in falling edges of PCLK.                            *)

Period == 2 * ClkDiv

\* sar_clk follows div_ph with the counter at zero.
DivInv == /\ div_cnt \in 0 .. ClkDiv - 1
          /\ div_ph \in BOOLEAN /\ sar_clk \in BOOLEAN
          /\ div_ph # sar_clk => div_cnt = 0
          /\ div_ph /\ sar_clk => div_cnt >= 1

\* Falling edges of PCLK up to and with the next rising edge of sar_clk.
ToEdge == IF div_ph /\ ~sar_clk THEN 1
          ELSE IF div_ph THEN Period - div_cnt + 1
          ELSE ClkDiv - div_cnt + 1

LEMMA DividerPeriod ==
  ASSUME DivInv
  PROVE  /\ ToEdge \in 1 .. Period
         /\ SarEdge <=> ToEdge = 1
<1> USE Widths DEF DivInv, ToEdge, Period, SarEdge
<1>1. CASE div_ph
  BY <1>1
<1>2. CASE ~div_ph
  BY <1>2
<1> QED
  BY <1>1, <1>2

LEMMA DivideStep ==
  ASSUME DivInv, Divide
  PROVE  /\ DivInv'
         /\ SarEdge => ToEdge' = Period
         /\ ~SarEdge => ToEdge' = ToEdge - 1
<1> USE Widths
<1>1. /\ div_cnt \in 0 .. ClkDiv - 1
      /\ div_ph \in BOOLEAN /\ sar_clk \in BOOLEAN
      /\ div_ph # sar_clk => div_cnt = 0
      /\ div_ph /\ sar_clk => div_cnt >= 1
  BY DEF DivInv
<1>2. sar_clk' = div_ph
  BY DEF Divide
<1>3. CASE div_cnt = ClkDiv - 1 /\ div_cnt' = 0 /\ div_ph' = ~div_ph
  <2>1. DivInv'
    <3>1. div_cnt' \in 0 .. ClkDiv - 1
      BY <1>3
    <3>2. div_ph' \in BOOLEAN /\ sar_clk' \in BOOLEAN
      BY <1>1, <1>2, <1>3
    <3>3. ~(div_ph' /\ sar_clk')
      BY <1>1, <1>2, <1>3
    <3> QED
      BY <1>3, <3>1, <3>2, <3>3 DEF DivInv
  <2>2. CASE div_ph /\ sar_clk
    <3>1. ~div_ph'
      BY <1>1, <1>2, <1>3, <2>2
    <3>2. ~SarEdge /\ ToEdge = Period - div_cnt + 1
      BY <2>2 DEF ToEdge, SarEdge
    <3>3. ToEdge' = ClkDiv - div_cnt' + 1
      BY <3>1 DEF ToEdge, Period
    <3> QED
      BY <1>1, <1>3, <2>1, <2>2, <3>2, <3>3 DEF Period
  <2>3. CASE div_ph /\ ~sar_clk
    <3>1. ~div_ph'
      BY <1>1, <1>2, <1>3, <2>3
    <3>2. SarEdge
      BY <2>3 DEF ToEdge, SarEdge
    <3>3. ToEdge' = ClkDiv - div_cnt' + 1
      BY <3>1 DEF ToEdge, Period
    <3> QED
      <4>1. div_cnt = 0
        BY <1>1, <2>3
      <4>2. ToEdge' = Period
        BY <1>3, <3>3, <4>1 DEF Period
      <4> QED
        BY <2>1, <3>2, <4>2
  <2>4. CASE ~div_ph
    <3>1. div_ph' /\ ~sar_clk'
      BY <1>1, <1>2, <1>3, <2>4
    <3>2. ~SarEdge /\ ToEdge = ClkDiv - div_cnt + 1
      BY <2>4 DEF ToEdge, SarEdge
    <3>3. ToEdge' = 1
      BY <3>1 DEF ToEdge, Period
    <3> QED
      BY <1>1, <1>3, <2>1, <2>4, <3>2, <3>3 DEF Period
  <2> QED
    BY <2>1, <2>2, <2>3, <2>4
<1>4. CASE div_cnt # ClkDiv - 1 /\ div_cnt' = div_cnt + 1 /\ div_ph' = div_ph
  <2>1. DivInv'
    BY <1>1, <1>2, <1>4 DEF DivInv
  <2>2. CASE div_ph /\ sar_clk
    <3>1. div_ph' /\ sar_clk'
      BY <1>1, <1>2, <1>4, <2>2
    <3>2. ~SarEdge /\ ToEdge = Period - div_cnt + 1
      BY <2>2 DEF ToEdge, SarEdge
    <3>3. ToEdge' = Period - div_cnt' + 1
      BY <3>1 DEF ToEdge, Period
    <3> QED
      BY <1>1, <1>4, <2>1, <2>2, <3>2, <3>3 DEF Period
  <2>3. CASE div_ph /\ ~sar_clk
    <3>1. div_ph' /\ sar_clk'
      BY <1>1, <1>2, <1>4, <2>3
    <3>2. SarEdge
      BY <2>3 DEF ToEdge, SarEdge
    <3>3. ToEdge' = Period - div_cnt' + 1
      BY <3>1 DEF ToEdge, Period
    <3> QED
      <4>1. div_cnt = 0
        BY <1>1, <2>3
      <4>2. ToEdge' = Period
        BY <1>4, <3>3, <4>1 DEF Period
      <4> QED
        BY <2>1, <3>2, <4>2
  <2>4. CASE ~div_ph
    <3>1. ~div_ph'
      BY <1>1, <1>2, <1>4, <2>4
    <3>2. ~SarEdge /\ ToEdge = ClkDiv - div_cnt + 1
      BY <2>4 DEF ToEdge, SarEdge
    <3>3. ToEdge' = ClkDiv - div_cnt' + 1
      BY <3>1 DEF ToEdge, Period
    <3> QED
      BY <1>1, <1>4, <2>1, <2>4, <3>2, <3>3 DEF Period
  <2> QED
    BY <2>1, <2>2, <2>3, <2>4
<1> QED
  BY <1>3, <1>4 DEF Divide

\* With en high the converter publishes a result within n falling edges.
Within(n) == \E e \in Nat : EndsBy(e) /\ ToEdge + Period * (e - 1) <= n

LEMMA WithinStep ==
  ASSUME DivInv, NEW n \in Nat, Within(n), NegEdge, Fsm!adc_en
  PROVE  n > 0 /\ ((SarEdge /\ sar_state = "sDone") \/ Within(n - 1)')
<1> USE Widths
<1>1. Divide
  BY DEF NegEdge
<1>2. PICK e \in Nat : EndsBy(e) /\ ToEdge + Period * (e - 1) <= n
  BY DEF Within
<1>3. Period \in Nat /\ Period > 0 /\ ToEdge \in 1 .. Period
  BY DividerPeriod DEF Period
<1>4. e > 0 /\ Period * (e - 1) \in Nat
  <2>1. e > 0
    BY <1>2 DEF EndsBy, Comparisons
  <2> QED
    BY <1>3, <2>1
<1>5. n > 0
  BY <1>2, <1>3, <1>4
<1>6. CASE SarEdge
  <2>1. PICK v \in Inputs : Adc!AdcClk(Fsm!adc_en, cal_reg, v)
    BY <1>6 DEF NegEdge, SarEdge
  <2>2. (sar_state = "sDone") \/ (sar_state # "sDone" /\ EndsBy(e - 1)')
    <3>1. Fsm!adc_en \in BOOLEAN
      BY DEF Fsm!adc_en
    <3> QED
      BY <1>2, <2>1, <3>1, SarEdgeProgress
  <2>3. ASSUME EndsBy(e - 1)' PROVE Within(n - 1)'
    <3>1. e - 1 > 0
      BY <1>4, <2>3 DEF EndsBy, Comparisons
    <3>2. ToEdge' = Period /\ ToEdge = 1
      BY <1>1, <1>6, DivideStep, DividerPeriod
    <3>3. Period * ((e - 1) - 1) = Period * (e - 1) - Period
      BY <1>3
    <3>4. ToEdge' + Period * ((e - 1) - 1) <= n - 1
      BY <1>2, <1>3, <1>4, <3>2, <3>3
    <3> QED
      BY <1>4, <2>3, <3>4 DEF Within, Period
  <2> QED
    BY <1>5, <1>6, <2>2, <2>3
<1>7. CASE ~SarEdge
  <2>1. EndsBy(e)'
    <3>1. UNCHANGED << sar_state, mask, cal_itt, trim_mask >>
      BY <1>7 DEF NegEdge, SarEdge, adcVars
    <3> QED
      BY <1>2, <3>1 DEF EndsBy, Comparisons
  <2>2. ToEdge' = ToEdge - 1
    BY <1>1, <1>7, DivideStep
  <2>3. ToEdge' + Period * (e - 1) <= n - 1
    BY <1>2, <1>3, <1>4, <2>2
  <2> QED
    BY <1>5, <2>1, <2>3 DEF Within, Period
<1> QED
  BY <1>6, <1>7

\* Whatever the converter is doing, one run and the edges that lead to it are
\* enough for a result.
RunInv == DivInv /\ \E e \in 1 .. LongestRun + 1 : EndsBy(e)

Limit == Period * (LongestRun + 1) + 4

LEMMA RunBounded ==
  ASSUME RunInv
  PROVE  Within(Period * (LongestRun + 1)) /\ Period * (LongestRun + 1) \in Nat
<1> USE Widths
<1>1. PICK e \in 1 .. LongestRun + 1 : EndsBy(e)
  BY DEF RunInv
<1>2. Period \in Nat /\ ToEdge \in 1 .. Period
  BY DividerPeriod DEF RunInv, Period
<1>3. Period * (LongestRun + 1) \in Nat
  BY <1>2
<1>4. Period * (LongestRun + 1) = Period * (e - 1) + Period * (LongestRun + 2 - e)
  BY <1>1, <1>2
<1>5. Period * (LongestRun + 2 - e) >= Period
  <2>1. Period * (LongestRun + 2 - e) = Period + Period * (LongestRun + 1 - e)
    BY <1>1, <1>2
  <2>2. LongestRun + 1 - e \in Nat
    BY <1>1
  <2>3. Period * (LongestRun + 1 - e) \in Nat
    BY <1>2, <2>2
  <2> QED
    BY <1>2, <2>1, <2>3
<1>6. ToEdge + Period * (e - 1) <= Period * (LongestRun + 1)
  <2>1. Period * (e - 1) \in Nat /\ Period * (LongestRun + 2 - e) \in Nat
    BY <1>1, <1>2
  <2> QED
    BY <1>2, <1>4, <1>5, <2>1
<1> QED
  BY <1>1, <1>3, <1>6 DEF Within

LEMMA RunInductive == RunInv /\ [Next]_vars => RunInv'
<1> SUFFICES ASSUME RunInv, [Next]_vars PROVE RunInv'
  OBVIOUS
<1> USE Widths
<1>1. PICK e \in 1 .. LongestRun + 1 : EndsBy(e)
  BY DEF RunInv
<1>2. ASSUME UNCHANGED << sar_state, mask, cal_itt, trim_mask >>
      PROVE  EndsBy(e)'
  BY <1>1, <1>2 DEF EndsBy, Comparisons
<1>3. CASE PosEdge
  <2>1. UNCHANGED adcVars /\ UNCHANGED divVars
    BY <1>3 DEF PosEdge
  <2>2. DivInv'
    BY <2>1 DEF RunInv, DivInv, divVars
  <2>3. EndsBy(e)'
    BY <1>2, <2>1 DEF adcVars
  <2> QED
    BY <2>2, <2>3 DEF RunInv
<1>4. CASE NegEdge
  <2>1. DivInv'
    BY <1>4, DivideStep DEF RunInv, NegEdge
  <2>2. CASE ~SarEdge
    <3>1. EndsBy(e)'
      BY <1>2, <1>4, <2>2 DEF NegEdge, SarEdge, adcVars
    <3> QED
      BY <2>1, <3>1 DEF RunInv
  <2>3. CASE SarEdge
    <3>1. PICK v \in Inputs : Adc!AdcClk(Fsm!adc_en, cal_reg, v)
      BY <1>4, <2>3 DEF NegEdge, SarEdge
    <3>2. EndsBy(LongestRun)' \/ EndsBy(e)' \/ EndsBy(e - 1)'
      <4>1. Fsm!adc_en \in BOOLEAN
        BY DEF Fsm!adc_en
      <4>2. e \in Nat
        OBVIOUS
      <4> QED
        BY <1>1, <3>1, <4>1, <4>2, SarEdgeProgress
    <3>3. ASSUME EndsBy(e - 1)' PROVE e - 1 \in 1 .. LongestRun + 1
      <4>1. e - 1 >= 1
        BY <3>3 DEF EndsBy, Comparisons
      <4> QED
        BY <4>1
    <3>4. LongestRun \in 1 .. LongestRun + 1
      OBVIOUS
    <3> QED
      BY <2>1, <3>2, <3>3, <3>4 DEF RunInv
  <2> QED
    BY <2>2, <2>3
<1>5. CASE Reset
  <2>1. sar_state' = "sInit" /\ div_cnt' = 0 /\ div_ph' = FALSE /\ sar_clk' = FALSE
    BY <1>5 DEF Reset, Adc!Reset, Adc!Sar!Reset
  <2>2. DivInv'
    <3>1. div_cnt' \in 0 .. ClkDiv - 1
      BY <2>1
    <3> QED
      BY <2>1, <3>1 DEF DivInv
  <2>3. EndsBy(LongestRun + 1)' /\ LongestRun + 1 \in 1 .. LongestRun + 1
    BY <2>1 DEF EndsBy
  <2> QED
    BY <2>2, <2>3 DEF RunInv
<1>6. CASE UNCHANGED vars
  <2>1. EndsBy(e)'
    BY <1>2, <1>6 DEF vars, adcVars
  <2>2. DivInv'
    BY <1>6 DEF RunInv, DivInv, vars, divVars
  <2> QED
    BY <2>1, <2>2 DEF RunInv
<1> QED
  BY <1>3, <1>4, <1>5, <1>6 DEF Next

LEMMA RunInit == Init => RunInv
<1> SUFFICES ASSUME Init PROVE RunInv
  OBVIOUS
<1> USE Widths
<1>1. sar_state = "sInit" /\ div_cnt = 0 /\ div_ph = FALSE /\ sar_clk = FALSE
  BY DEF Init, Adc!AdcInit, Adc!Sar!Init
<1>2. DivInv
  <2>1. div_cnt \in 0 .. ClkDiv - 1
    BY <1>1
  <2> QED
    BY <1>1, <2>1 DEF DivInv
<1>3. EndsBy(LongestRun + 1) /\ LongestRun + 1 \in 1 .. LongestRun + 1
  BY <1>1 DEF EndsBy
<1> QED
  BY <1>2, <1>3 DEF RunInv

-------------------------------------------------------------------------------
(* How long a trigger is served, in PCLK cycles.                           *)

Waiting == {"S_ENABLE", "S_WAIT_START", "S_WAIT_DONE"}

\* The result the FSM waits for has been published and is in the synchroniser.
Pending ==
  \/ /\ fsm_state = "S_WAIT_DONE"
     /\ adc_valid_s2 \/ adc_valid_s1 \/ res_valid
  \/ /\ fsm_state = "S_WAIT_START"
     /\ (~adc_valid_s2 /\ adc_valid_s1) \/ (~adc_valid_s1 /\ res_valid)
  \/ fsm_state = "S_ENABLE" /\ ~adc_valid_s1 /\ res_valid

\* Cycles a pending result takes to the write.
Remaining ==
  IF fsm_state = "S_WAIT_DONE"
  THEN IF adc_valid_s2 THEN 1 ELSE IF adc_valid_s1 THEN 2 ELSE 3
  ELSE IF fsm_state = "S_WAIT_START"
  THEN IF adc_valid_s1 THEN 2 ELSE IF adc_valid_s2 THEN 4 ELSE 3
  ELSE 4

\* The cycles spent and those still needed, at most, are within the limit.
OnTime ==
  /\ Pending => latency + Remaining <= Limit
  /\ ~Pending => \E n \in Nat : Within(n) /\ latency + n + 4 - pclk <= Limit

LatencyInv ==
  /\ latency \in Nat /\ pclk \in {0, 1}
  /\ fsm_state = "S_CHECK_FIFO" => latency = 0
  /\ fsm_state = "S_ERR_FULL" => latency <= 1
  /\ fsm_state = "S_WRITE" => latency <= Limit
  /\ fsm_state \in Waiting => OnTime

LEMMA LimitNat == Period \in Nat /\ Limit \in Nat /\ Limit >= 4
<1> USE Widths
<1>1. Period \in Nat
  BY DEF Period
<1>2. Period * (LongestRun + 1) \in Nat
  BY <1>1
<1> QED
  BY <1>1, <1>2 DEF Limit

LEMMA PosEdgeOnTime ==
  ASSUME CaptureInv, RunInv, LatencyInv, PosEdge, HistPosEdge, fsm_state' \in Waiting
  PROVE  OnTime'
<1> USE LimitNat DEF LatencyInv
<1>1. /\ pclk = 0 /\ pclk' = 1
      /\ adc_valid_s1' = res_valid
      /\ adc_valid_s2' = adc_valid_s1
      /\ res_valid' = res_valid
  BY DEF PosEdge, Capture, adcVars
<1>2. \/ fsm_state = "S_CHECK_FIFO" /\ fsm_state' = "S_ENABLE"
      \/ fsm_state = "S_ENABLE" /\ fsm_state' = "S_WAIT_START"
      \/ fsm_state = "S_WAIT_START" /\ fsm_state' = "S_WAIT_START" /\ adc_valid_s2
      \/ fsm_state = "S_WAIT_START" /\ fsm_state' = "S_WAIT_DONE" /\ ~adc_valid_s2
      \/ fsm_state = "S_WAIT_DONE" /\ fsm_state' = "S_WAIT_DONE" /\ ~adc_valid_s2
  BY DEF PosEdge, adc_valid_sync, Waiting, Fsm!Clk, Fsm!Idle, Fsm!CheckFifo,
     Fsm!Enable, Fsm!WaitStart, Fsm!WaitDone, Fsm!Write, Fsm!ErrFull, Fsm!Goto
<1>3. latency' \in Nat /\ latency' <= latency + 1
  <2>1. fsm_state # "S_IDLE"
    BY <1>2
  <2> QED
    BY <2>1 DEF HistPosEdge
<1>4. ASSUME NEW n \in Nat, Within(n) PROVE Within(n)'
  <2>1. UNCHANGED adcVars /\ UNCHANGED divVars
    BY DEF PosEdge
  <2>2. ASSUME NEW e \in Nat PROVE EndsBy(e)' = EndsBy(e)
    BY <2>1 DEF EndsBy, Comparisons, adcVars
  <2>3. ToEdge' = ToEdge
    BY <2>1 DEF ToEdge, divVars, Period
  <2> QED
    BY <1>4, <2>2, <2>3 DEF Within, Period
<1>5. CASE fsm_state = "S_CHECK_FIFO" /\ fsm_state' = "S_ENABLE"
  <2>1. ~Pending'
    BY <1>1, <1>5 DEF Pending
  <2>2. /\ Within(Period * (LongestRun + 1))'
        /\ Period * (LongestRun + 1) \in Nat
    BY <1>4, RunBounded
  <2>3. latency' + Period * (LongestRun + 1) + 4 - pclk' <= Limit
    BY <1>1, <1>3, <1>5, <2>2 DEF Limit
  <2> QED
    BY <2>1, <2>2, <2>3 DEF OnTime
<1>6. CASE fsm_state \in Waiting
  <2>1. ASSUME Pending
        PROVE  Pending' /\ Remaining' + 1 <= Remaining /\ Remaining' \in Nat
               /\ Remaining \in Nat
    BY <1>1, <1>2, <1>6, <2>1 DEF Pending, Remaining, Waiting
  <2>2. ASSUME ~Pending PROVE ~Pending'
    BY <1>1, <1>2, <1>6, <2>2 DEF Pending, Waiting
  <2>3. CASE Pending
    <3>1. latency' + Remaining' <= Limit
      <4>1. latency + Remaining <= Limit
        BY <1>6, <2>3 DEF OnTime
      <4> QED
        BY <1>3, <2>1, <2>3, <4>1
    <3> QED
      BY <2>1, <2>3, <3>1 DEF OnTime
  <2>4. CASE ~Pending
    <3>1. PICK n \in Nat : Within(n) /\ latency + n + 4 - pclk <= Limit
      BY <1>6, <2>4 DEF OnTime
    <3>2. latency' + n + 4 - pclk' <= Limit
      <4>1. latency \in Nat /\ latency + n + 4 <= Limit
        BY <1>1, <3>1
      <4>2. n \in Nat /\ pclk' = 1
        BY <1>1
      <4>3. ASSUME NEW x \in Nat, x <= latency + 1, NEW p, p = 1
            PROVE  x + n + 4 - p <= Limit
        BY <4>1, <4>2, <4>3
      <4> QED
        BY <1>3, <4>2, <4>3
    <3> QED
      BY <1>4, <2>2, <2>4, <3>1, <3>2 DEF OnTime
  <2> QED
    BY <2>3, <2>4
<1> QED
  BY <1>2, <1>5, <1>6 DEF Waiting

LEMMA NegEdgeOnTime ==
  ASSUME CaptureInv, RunInv, LatencyInv, NegEdge, HistNegEdge, fsm_state \in Waiting
  PROVE  OnTime'
<1> USE LimitNat DEF LatencyInv
<1>1. /\ pclk = 1 /\ pclk' = 0
      /\ UNCHANGED << fsm_state, adc_valid_s1, adc_valid_s2 >>
      /\ latency' = latency
  BY NegEdgeFrame DEF NegEdge, fsmVars, capVars, HistNegEdge
<1>2. adc_valid_s1 = res_valid
  BY <1>1 DEF CaptureInv, Synchronised
<1>3. CASE Pending
  <2>1. Pending' /\ Remaining' = Remaining
    <3>1. \/ fsm_state = "S_WAIT_DONE" /\ (adc_valid_s2 \/ adc_valid_s1)
          \/ fsm_state = "S_WAIT_START" /\ ~adc_valid_s2 /\ adc_valid_s1
      BY <1>2, <1>3 DEF Pending
    <3>2. Pending'
      BY <1>1, <3>1 DEF Pending
    <3>3. Remaining' = Remaining
      BY <1>1 DEF Remaining
    <3> QED
      BY <3>2, <3>3
  <2>2. latency + Remaining <= Limit
    BY <1>3 DEF OnTime
  <2> QED
    BY <1>1, <2>1, <2>2 DEF OnTime
<1>4. CASE ~Pending
  <2>1. PICK n \in Nat : Within(n) /\ latency + n + 4 - pclk <= Limit
    BY <1>4 DEF OnTime
  <2>2. n > 0 /\ ((SarEdge /\ sar_state = "sDone") \/ Within(n - 1)')
    <3>1. Fsm!adc_en
      BY DEF Waiting, Fsm!adc_en
    <3> QED
      BY <2>1, <3>1, WithinStep DEF RunInv
  <2>3. CASE Pending'
    <3>1. Remaining' \in 1 .. 4
      BY DEF Remaining
    <3>2. latency' + Remaining' <= Limit
      <4>1. latency \in Nat /\ latency + n + 3 <= Limit
        BY <1>1, <2>1
      <4>2. n \in Nat /\ n > 0
        BY <2>2
      <4>3. ASSUME NEW r \in 1 .. 4 PROVE latency + r <= Limit
        BY <4>1, <4>2, <4>3
      <4> QED
        BY <1>1, <3>1, <4>3
    <3> QED
      BY <2>3, <3>2 DEF OnTime
  <2>4. CASE ~Pending'
    <3>1. ~(SarEdge /\ sar_state = "sDone")
      <4>1. SUFFICES ASSUME SarEdge, sar_state = "sDone" PROVE FALSE
        OBVIOUS
      <4>2. PICK v \in Inputs : Adc!AdcClk(Fsm!adc_en, cal_reg, v)
        BY <4>1 DEF NegEdge, SarEdge
      <4>3. res_valid'
        BY <4>1, <4>2 DEF Adc!AdcClk, Adc!Sar!Clk, Adc!Sar!InitTrim, Adc!Sar!Wait,
           Adc!Sar!Sample, Adc!Sar!Conv, Adc!Sar!Cal, Adc!Sar!Done
      <4>4. ~res_valid
        BY <4>1 DEF CaptureInv, ValidStands
      <4> QED
        BY <1>1, <1>2, <2>4, <4>3, <4>4 DEF Pending, Waiting
    <3>2. n - 1 \in Nat /\ Within(n - 1)'
      BY <2>2, <3>1
    <3>3. latency' + (n - 1) + 4 - pclk' <= Limit
      BY <1>1, <2>1
    <3> QED
      BY <2>4, <3>2, <3>3 DEF OnTime
  <2> QED
    BY <2>3, <2>4
<1> QED
  BY <1>3, <1>4

LEMMA LatencyInductive ==
  CaptureInv /\ RunInv /\ LatencyInv /\ [HNext]_allVars => LatencyInv'
<1> SUFFICES ASSUME CaptureInv, RunInv, LatencyInv, [HNext]_allVars PROVE LatencyInv'
  OBVIOUS
<1> USE LimitNat
<1>1. CASE PosEdge /\ HistPosEdge
  <2>1. pclk' = 1
    BY <1>1 DEF PosEdge
  <2>2. /\ latency' \in Nat
        /\ fsm_state = "S_IDLE" => latency' = 0
        /\ latency' <= latency + 1
    BY <1>1 DEF HistPosEdge, LatencyInv
  <2>3. /\ fsm_state' = "S_CHECK_FIFO" => fsm_state = "S_IDLE"
        /\ fsm_state' = "S_ERR_FULL" => fsm_state = "S_CHECK_FIFO"
        /\ fsm_state' = "S_WRITE" => fsm_state = "S_WAIT_DONE" /\ adc_valid_s2
    BY <1>1 DEF PosEdge, adc_valid_sync, Fsm!Clk, Fsm!Idle, Fsm!CheckFifo,
       Fsm!Enable, Fsm!WaitStart, Fsm!WaitDone, Fsm!Write, Fsm!ErrFull, Fsm!Goto
  <2>4. fsm_state' = "S_ERR_FULL" => latency' <= 1
    BY <2>2, <2>3 DEF LatencyInv
  <2>5. fsm_state' = "S_WRITE" => latency' <= Limit
    <3>1. SUFFICES ASSUME fsm_state = "S_WAIT_DONE", adc_valid_s2
                   PROVE  latency' <= Limit
      BY <2>3
    <3>2. Pending /\ Remaining = 1
      BY <3>1 DEF Pending, Remaining
    <3>3. latency + 1 <= Limit
      BY <3>1, <3>2 DEF LatencyInv, OnTime, Waiting
    <3> QED
      BY <2>2, <3>3 DEF LatencyInv
  <2>6. fsm_state' \in Waiting => OnTime'
    BY <1>1, PosEdgeOnTime
  <2> QED
    BY <2>1, <2>2, <2>3, <2>4, <2>5, <2>6 DEF LatencyInv
<1>2. CASE NegEdge /\ HistNegEdge
  <2>1. pclk' = 0 /\ fsm_state' = fsm_state /\ latency' = latency
    BY <1>2, NegEdgeFrame DEF NegEdge, fsmVars, HistNegEdge
  <2>2. fsm_state \in Waiting => OnTime'
    BY <1>2, NegEdgeOnTime
  <2> QED
    BY <2>1, <2>2 DEF LatencyInv
<1>3. CASE Reset /\ HistReset
  <2>1. fsm_state' = "S_IDLE" /\ latency' = 0 /\ pclk' = pclk
    BY <1>3 DEF Reset, Fsm!Reset, HistReset
  <2> QED
    BY <2>1 DEF LatencyInv, Waiting
<1>4. CASE UNCHANGED allVars
  <2>1. /\ UNCHANGED << pclk, fsm_state, latency, adc_valid_s1, adc_valid_s2, res_valid >>
        /\ UNCHANGED adcVars /\ UNCHANGED divVars
    BY <1>4 DEF allVars, vars, histVars, fsmVars, adcVars, capVars
  <2>2. ASSUME NEW n \in Nat, Within(n) PROVE Within(n)'
    <3>1. ASSUME NEW e \in Nat PROVE EndsBy(e)' = EndsBy(e)
      BY <2>1 DEF EndsBy, Comparisons, adcVars
    <3>2. ToEdge' = ToEdge
      BY <2>1 DEF ToEdge, divVars, Period
    <3> QED
      BY <2>2, <3>1, <3>2 DEF Within, Period
  <2>3. Pending' = Pending /\ Remaining' = Remaining
    BY <2>1 DEF Pending, Remaining
  <2>4. fsm_state \in Waiting => OnTime'
    BY <2>1, <2>2, <2>3 DEF LatencyInv, OnTime, Limit, Period
  <2> QED
    BY <2>1, <2>4 DEF LatencyInv, Limit, Period
<1> QED
  BY <1>1, <1>2, <1>3, <1>4 DEF HNext

LEMMA LatencyInit == HInit => LatencyInv
<1> SUFFICES ASSUME HInit PROVE LatencyInv
  OBVIOUS
<1>1. fsm_state = "S_IDLE" /\ latency = 0 /\ pclk = 0
  BY DEF HInit, Init, Fsm!Init
<1> QED
  BY <1>1, LimitNat DEF LatencyInv, Waiting

\* The limit is one run, the edge of sar_clk that may pass before it and the
\* synchroniser: well within the two runs of the property.
LEMMA LimitWithinBound == Limit <= MaxLatency
<1> USE Widths
<1>1. ClkDiv * LongestRun >= ClkDiv /\ ClkDiv * LongestRun \in Nat
  <2>1. ClkDiv * LongestRun = ClkDiv + ClkDiv * (LongestRun - 1)
    OBVIOUS
  <2>2. LongestRun - 1 \in Nat
    OBVIOUS
  <2>3. ClkDiv * (LongestRun - 1) \in Nat
    BY <2>2
  <2> QED
    BY <2>1, <2>3
<1>2. Limit = 2 * (ClkDiv * LongestRun) + 2 * ClkDiv + 4
  BY DEF Limit, Period
<1>3. MaxLatency = 4 * (ClkDiv * LongestRun) + 10
  BY DEF MaxLatency
<1> QED
  BY <1>1, <1>2, <1>3

\* A trigger is served within one run of the converter, a period of sar_clk and
\* four cycles, whatever conversion or calibration it meets.
ServedWithinARun == fsm_state # "S_IDLE" => latency <= Limit

LEMMA LatencyImplied == Inv /\ LatencyInv => ServedWithinARun
<1> SUFFICES ASSUME Inv, LatencyInv, fsm_state # "S_IDLE" PROVE latency <= Limit
  BY DEF ServedWithinARun
<1> USE LimitNat DEF LatencyInv
<1>1. CASE fsm_state \in Waiting
  <2>1. CASE Pending
    <3>1. Remaining \in 1 .. 4 /\ latency + Remaining <= Limit
      BY <1>1, <2>1 DEF OnTime, Remaining
    <3> QED
      BY <3>1
  <2>2. CASE ~Pending
    BY <1>1, <2>2 DEF OnTime
  <2> QED
    BY <2>1, <2>2
<1>2. CASE fsm_state \in {"S_CHECK_FIFO", "S_ERR_FULL", "S_WRITE"}
  BY <1>2
<1> QED
  BY <1>1, <1>2 DEF Inv, Typed, Fsm!States, Waiting

\* A sample is pushed within one run and a period of its trigger, and so within
\* the two runs of the test bench: the handshake never hangs, for every ratio of
\* the clocks, every width and every length of a calibration.
THEOREM SampleServedInTime == HSpec => [](ServedWithinARun /\ LatencyBounded)
<1>1. HInit => Inv /\ CaptureInv /\ RunInv /\ LatencyInv
  BY HistoryRefines, InvInit, CaptureInit, RunInit, LatencyInit
<1>2. Inv /\ CaptureInv /\ RunInv /\ LatencyInv /\ [HNext]_allVars
        => Inv' /\ CaptureInv' /\ RunInv' /\ LatencyInv'
  BY HistoryRefines, InvInductive, CaptureInductive, RunInductive, LatencyInductive
<1>3. Inv /\ LatencyInv => ServedWithinARun /\ LatencyBounded
  <2>1. ASSUME Inv, LatencyInv PROVE MaxLatency \in Int /\ latency \in Nat
    <3>1. LongestRun \in Nat /\ ClkDiv \in Nat
      BY Widths
    <3> QED
      BY <2>1, <3>1 DEF MaxLatency, LatencyInv
  <2>2. ASSUME Inv, LatencyInv PROVE LatencyBounded
    BY <2>1, <2>2, LatencyImplied, LimitWithinBound, LimitNat
       DEF ServedWithinARun, LatencyBounded
  <2> QED
    BY <2>2, LatencyImplied
<1> QED
  BY <1>1, <1>2, <1>3, PTL DEF HSpec
===============================================================================
