---------------------------- MODULE SensingWrapper ----------------------------
(***************************************************************************)
(* adc_apb_wrapper_rev2 (agriculture_soc_main/Wrapper): the sampling path  *)
(* of the sensing peripheral.  It composes                                 *)
(*   Fsm   wrapper_control_2, the sampling FSM        (SamplingFsm)        *)
(*   Fifo  fifo_apb_adc, the sample FIFO              (SampleFifo)         *)
(*   Adc   sar_adc: sarlogic, latch and analog macro  (SarAdc)             *)
(* with the ADC clock divider, the synchroniser of valid, the result       *)
(* capture and the APB registers.  The RTC (RtcControl) and the bus master *)
(* are environment: rtc_trig may pulse in any cycle, and any register may  *)
(* be accessed as often as APB allows.                                     *)
(*                                                                         *)
(* A PCLK cycle is two steps.  PosEdge is the rising edge, where all the   *)
(* PCLK registers change together; NegEdge is the falling edge, where the  *)
(* divider moves and sarlogic sees an edge of sar_clk.  rtc_trig and apb   *)
(* hold the inputs of the current cycle.                                   *)
(***************************************************************************)
EXTENDS Integers

CONSTANTS
  Depth,      \* slots of the FIFO (16)
  ClkDiv,     \* ADC_CLK_DIV: PCLK cycles per half period of sar_clk (4)
  NBits,      \* SAMPLE_WIDTH (8)
  TrimBits,   \* width of the comparator trim (5)
  CalItts,    \* comparisons per trim bit (7)
  Inputs,     \* analog inputs, see SarAdc
  Accesses,   \* the APB accesses the bus master makes, of AllAccesses
  MinQuiet    \* fewest PCLK cycles between two APB ACCESS cycles

\* The accesses the sampling path can tell apart; a read or a write of any
\* other register is no access here.  ADC_TRIGGER with bit 0 clear does nothing.
AllAccesses == {"status_rd", "measurement_lo_rd", "adc_trigger_wr",
                "fifo_clear_wr", "adc_cal_set", "adc_cal_clear"}
NoAccess    == "none"

ASSUME WrapperAssumption == /\ Depth \in Nat \ {0, 1}
                            /\ ClkDiv \in Nat \ {0}
                            /\ NBits \in Nat \ {0}
                            /\ Accesses \subseteq AllAccesses
                            /\ MinQuiet \in Nat \ {0}

VARIABLES
  pclk,                                  \* level of PCLK
  fsm_state, err_fifo_full,              \* wrapper_control_2
  fifo_mem, wr_ptr, rd_ptr, count,       \* fifo_apb_adc
  sar_state, calibrate, mask, dig_result, result_q, res_valid, trim_mask,
  trim_val, cal_itt, cal_count, en_co_clk, held, conv_is_cal,   \* sar_adc
  div_cnt, div_ph, sar_clk,              \* the divider of sar_adc
  adc_valid_s1, adc_valid_s2, adc_valid_s3,   \* the synchroniser of valid
  adc_sample,                            \* the captured result
  fifo_rd_en, fifo_clear, manual_trig,   \* one-cycle pulses of the APB side
  cal_reg, status_reg,                   \* APB registers
  rtc_trig,                              \* pulse of the RTC in this cycle
  apb,                                   \* APB access of this cycle
  quiet                                  \* cycles since the last ACCESS

fsmVars  == << fsm_state, err_fifo_full >>
fifoVars == << fifo_mem, wr_ptr, rd_ptr, count >>
adcVars  == << sar_state, calibrate, mask, dig_result, result_q, res_valid,
               trim_mask, trim_val, cal_itt, cal_count, en_co_clk, held,
               conv_is_cal >>
divVars  == << div_cnt, div_ph, sar_clk >>
capVars  == << adc_valid_s1, adc_valid_s2, adc_valid_s3, adc_sample >>
apbVars  == << fifo_rd_en, fifo_clear, manual_trig, cal_reg, status_reg >>
envVars  == << rtc_trig, apb, quiet >>
vars == << pclk, fsmVars, fifoVars, adcVars, divVars, capVars, apbVars, envVars >>

Data == 0 .. 2 ^ NBits - 1

Fsm  == INSTANCE SamplingFsm WITH state <- fsm_state
Fifo == INSTANCE SampleFifo
Adc  == INSTANCE SarAdc WITH state <- sar_state

sample_trig == rtc_trig \/ manual_trig

-------------------------------------------------------------------------------
(* The rising edge of PCLK.                                                *)

adc_valid_sync == adc_valid_s2
adc_valid_rise == adc_valid_s2 /\ ~adc_valid_s3

\* (bug variant) the result is captured as valid falls
CaptureOnFall ==
  /\ adc_valid_s1' = res_valid
  /\ adc_valid_s2' = adc_valid_s1
  /\ adc_valid_s3' = adc_valid_s2
  /\ adc_sample' = IF adc_valid_s3 /\ ~adc_valid_s2 THEN result_q ELSE adc_sample

Capture ==
  /\ adc_valid_s1' = res_valid
  /\ adc_valid_s2' = adc_valid_s1
  /\ adc_valid_s3' = adc_valid_s2
  /\ adc_sample' = IF adc_valid_rise THEN result_q ELSE adc_sample

\* (bug variant) only the full code is decoded
StatusFullOnly ==
  status_reg' = [fifo |-> IF Fifo!fifo_full THEN "full" ELSE "some",
                 adc  |-> Fsm!adc_en,
                 drop |-> err_fifo_full]

\* status_reg lags the flags it reports by one cycle.
Status ==
  status_reg' = [fifo |-> IF Fifo!fifo_empty THEN "empty"
                          ELSE IF Fifo!fifo_full THEN "full" ELSE "some",
                 adc  |-> Fsm!adc_en,
                 drop |-> err_fifo_full]

\* (bug variant) a read of an empty FIFO pops too, when the sample arrives
PopUnguarded == fifo_rd_en' = (apb = "measurement_lo_rd")

\* The pop of a measurement read lands one cycle after the read.
Pop == fifo_rd_en' = (apb = "measurement_lo_rd" /\ ~Fifo!fifo_empty)

ApbRegs ==
  /\ Pop
  /\ Status
  /\ fifo_clear'  = (apb = "fifo_clear_wr")
  /\ manual_trig' = (apb = "adc_trigger_wr")
  /\ cal_reg' = IF apb = "adc_cal_set" THEN TRUE
                ELSE IF apb = "adc_cal_clear" THEN FALSE ELSE cal_reg

\* The inputs of the next cycle: APB separates two ACCESS cycles by at least
\* the SETUP cycle of the second.
Environment ==
  /\ rtc_trig' \in BOOLEAN
  /\ \/ /\ apb = NoAccess /\ quiet >= MinQuiet
        /\ apb' \in Accesses
     \/ apb' = NoAccess
  /\ quiet' = IF apb' # NoAccess THEN 0
              ELSE IF quiet < MinQuiet THEN quiet + 1 ELSE quiet

PosEdge ==
  /\ pclk = 0
  /\ pclk' = 1
  /\ Fsm!Clk(sample_trig, Fifo!fifo_full, adc_valid_sync)
  /\ Fifo!Clk(Fsm!fifo_write_en, adc_sample, fifo_rd_en, fifo_clear)
  /\ Capture
  /\ ApbRegs
  /\ Environment
  /\ UNCHANGED << adcVars, divVars >>

-------------------------------------------------------------------------------
(* The falling edge of PCLK.                                               *)

\* sar_clk is the divider phase retimed by one more flop.
Divide ==
  /\ sar_clk' = div_ph
  /\ \/ /\ div_cnt = ClkDiv - 1
        /\ div_cnt' = 0
        /\ div_ph' = ~div_ph
     \/ /\ div_cnt # ClkDiv - 1
        /\ div_cnt' = div_cnt + 1
        /\ UNCHANGED div_ph

NegEdge ==
  /\ pclk = 1
  /\ pclk' = 0
  /\ Divide
  /\ \/ /\ ~sar_clk /\ div_ph
        /\ \E v \in Inputs : Adc!AdcClk(Fsm!adc_en, cal_reg, v)
     \/ /\ sar_clk \/ ~div_ph
        /\ UNCHANGED adcVars
  /\ UNCHANGED << fsmVars, fifoVars, capVars, apbVars, envVars >>

Init ==
  /\ pclk = 0
  /\ Fsm!Init
  /\ Fifo!Init
  /\ Adc!AdcInit
  /\ div_cnt = 0 /\ div_ph = FALSE /\ sar_clk = FALSE
  /\ adc_valid_s1 = FALSE /\ adc_valid_s2 = FALSE /\ adc_valid_s3 = FALSE
  /\ adc_sample = 0
  /\ fifo_rd_en = FALSE /\ fifo_clear = FALSE /\ manual_trig = FALSE
  /\ cal_reg = FALSE
  /\ status_reg = [fifo |-> "empty", adc |-> FALSE, drop |-> FALSE]
  /\ rtc_trig = FALSE
  /\ apb = NoAccess
  /\ quiet = 0

\* PRESETn: every register of the peripheral at once, at any level of PCLK.
Reset ==
  /\ Fsm!Reset
  /\ Fifo!Clear
  /\ \E v \in Inputs : Adc!Reset(v)
  /\ div_cnt' = 0 /\ div_ph' = FALSE /\ sar_clk' = FALSE
  /\ adc_valid_s1' = FALSE /\ adc_valid_s2' = FALSE /\ adc_valid_s3' = FALSE
  /\ adc_sample' = 0
  /\ fifo_rd_en' = FALSE /\ fifo_clear' = FALSE /\ manual_trig' = FALSE
  /\ cal_reg' = FALSE
  /\ status_reg' = [fifo |-> "empty", adc |-> FALSE, drop |-> FALSE]
  /\ rtc_trig' = FALSE
  /\ apb' = NoAccess
  /\ quiet' = 0
  /\ UNCHANGED pclk

Next == PosEdge \/ NegEdge \/ Reset

Spec == Init /\ [][Next]_vars

-------------------------------------------------------------------------------
Committed == {"S_ENABLE", "S_WAIT_START", "S_WAIT_DONE", "S_WRITE"}

\* Once the pre-check let a conversion start, the FIFO keeps room for its
\* sample until it is written, so no write is ever refused and no sample is
\* lost between the pre-check and the push.
NoOverrun == fsm_state \in Committed => count < Depth

\* The pop of a measurement read, which lands a cycle after the read, always
\* finds the sample that was read: no flush or other pop comes in between.
PopHasSample == fifo_rd_en => count > 0

\* A write holds the result of the last complete conversion, captured after
\* valid rose: never a torn, partial or outdated result, whatever the ratio of
\* the two clocks.
WriteHoldsLastResult == fsm_state = "S_WRITE" => adc_sample = result_q

\* The status register lags the FIFO, but a driver that finds the FIFO non-empty
\* and reads a measurement gets a sample.  It takes two cycles between accesses.
StatusNotPhantom ==
  apb = "status_rd" /\ status_reg.fifo # "empty" => count > 0
===============================================================================
