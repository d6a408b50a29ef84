-------------------------------- MODULE SarAdc --------------------------------
(***************************************************************************)
(* sar_adc (agriculture_soc_main/ADC/sar_adc.v): sarlogic closed through   *)
(* the comparator latch and the sar_afe macro, at the granularity of       *)
(* sar_clk.  The macro is translated from its behavioural model,           *)
(* ADC/sim/sar_afe_model.v.  SensingWrapper adds the clock divider and the *)
(* logic that drives en and cal.                                           *)
(*                                                                         *)
(* Analog quantities are in result codes: an input v (comparator offset    *)
(* included) is the integer with  v > n  iff  the analog value exceeds n.  *)
(* The decision of the comparator is taken at the falling edge of sar_clk  *)
(* and held by the latch (ADC/sar_comp_latch.v) until sarlogic reads it at *)
(* the next rising edge; nothing it depends on changes in between, so the  *)
(* decision is computed at the rising edge.                                *)
(***************************************************************************)
EXTENDS Integers

CONSTANTS
  NBits, TrimBits, CalItts,  \* see SarLogic
  Inputs                     \* differential inputs, 0 at mid range

ASSUME AdcAssumption == /\ {NBits, TrimBits, CalItts} \subseteq Nat \ {0}
                        /\ Inputs \subseteq Int /\ Inputs # {}

\* What the proofs use of the exponential.
ASSUME PowersOfTwo == \A k \in 0 .. NBits + TrimBits :
                        2 ^ k \in Nat \ {0} /\ 2 ^ (k + 1) = 2 * 2 ^ k

VARIABLES
  state, calibrate, mask, dig_result, result_q, res_valid, trim_mask, trim_val,
  cal_itt, cal_count, en_co_clk,   \* sarlogic
  held,         \* the input held on the top plates when sample fell
  conv_is_cal   \* history: the conversion run last, or running, calibrates

sarVars == << state, calibrate, mask, dig_result, result_q, res_valid,
              trim_mask, trim_val, cal_itt, cal_count, en_co_clk >>
adcVars == << sarVars, held, conv_is_cal >>

Sar == INSTANCE SarLogic

\* What the trim takes off the vinp side: raising trima lowers vinp.
TrimOffset == Sar!trima - Sar!trimb

\* (bug variant) the comparator resolves a tie upwards
ComparatorTieHigh(v) ==
  \/ Sar!sample  /\ v >= TrimOffset
  \/ ~Sar!sample /\ Sar!Msb + held - TrimOffset >= Sar!ctlp

\* The latched decision: with the switches closed the inputs are compared,
\* else the held input against the code on trial (sampled with code Msb).
Comparator(v) ==
  \/ Sar!sample  /\ v > TrimOffset
  \/ ~Sar!sample /\ Sar!Msb + held - TrimOffset > Sar!ctlp

\* The switches open when sample falls and hold the input of that moment.
Hold(v) ==
  held' = IF Sar!SampleFalls THEN v ELSE held

\* One rising edge of sar_clk, with input v.
AdcClk(en, cal, v) ==
  /\ Sar!Clk(en, Comparator(v), cal)
  /\ Hold(v)
  /\ conv_is_cal' = IF state = "sSample" THEN calibrate ELSE conv_is_cal

AdcInit == /\ Sar!Init
           /\ held \in Inputs
           /\ conv_is_cal = FALSE

\* PRESETn, with input v; if it cuts a sampling short the switches open.
Reset(v) == /\ Sar!Reset
            /\ conv_is_cal' = FALSE
            /\ Hold(v)

AdcNext == \/ \E en, cal \in BOOLEAN, v \in Inputs : AdcClk(en, cal, v)
           \/ \E v \in Inputs : Reset(v)

AdcSpec == AdcInit /\ [][AdcNext]_adcVars

-------------------------------------------------------------------------------
MaxCode == 2 ^ NBits - 1

\* The ideal code of input v: the largest code below its analog value, clamped
\* to the range (exp_code of ADC/tb/sar_adc_tb.v).
IdealCode(v) ==
  LET below == Sar!Msb + v - TrimOffset - 1
  IN  IF below < 0 THEN 0 ELSE IF below > MaxCode THEN MaxCode ELSE below

\* Every completed conversion is the ideal code of the input that was held for
\* it, under the trim in force, and a calibration yields code 0, whatever en
\* and cal did meanwhile and however conversions follow each other.
ConversionIsIdeal ==
  state = "sDone" =>
    dig_result = IF conv_is_cal THEN 0 ELSE IdealCode(held)

\* The binary search never excludes the ideal code: it lies at or above the
\* bits decided so far and below them plus twice the bit on trial.
SearchInterval ==
  state = "sConv" => /\ mask > 0
                     /\ dig_result % (2 * mask) = 0
                     /\ dig_result <= IdealCode(held)
                     /\ IdealCode(held) < dig_result + 2 * mask

\* The result the wrapper captures is stable while a conversion runs: it
\* changes only as valid rises, and never while valid is already high.
ResultChangesWithValid ==
  [][result_q' # result_q => (~res_valid /\ res_valid') \/ Sar!Reset]_adcVars
===============================================================================
