------------------------------- MODULE SarLogic -------------------------------
(***************************************************************************)
(* sarlogic (analog/cadence/sar_adc/sarlogic/functional/verilog.v): the    *)
(* successive-approximation state machine of the ADC.  Clk is one rising   *)
(* edge of its clock, sar_clk.  Buses are numbers; the masks always hold   *)
(* one bit or none, so "bus | mask" is WithBit.                            *)
(***************************************************************************)
EXTENDS Naturals

CONSTANTS
  NBits,     \* width of the result (8)
  TrimBits,  \* width of the comparator trim (5)
  CalItts    \* comparisons per trim bit; also the start value of the
             \* up/down counter they drive (7)

VARIABLES
  state,       \* the FSM register
  calibrate,   \* the running conversion is a calibration
  mask,        \* the result bit on trial
  dig_result,  \* result bits decided so far
  result_q,    \* last complete result
  res_valid,   \* result_q is a new result
  trim_mask,   \* the trim bit on trial
  trim_val,    \* trim bits decided so far
  cal_itt,     \* comparisons made for this trim bit
  cal_count,   \* CalItts + comparisons lost - comparisons won
  en_co_clk    \* the comparator is clocked

vars == << state, calibrate, mask, dig_result, result_q, res_valid, trim_mask,
           trim_val, cal_itt, cal_count, en_co_clk >>

States == {"sInit", "sWait", "sSample", "sConv", "sDone", "sCal"}

Msb     == 2 ^ (NBits - 1)
TrimMsb == 2 ^ (TrimBits - 1)

\* bus | m for a one-bit (or zero) mask m.
WithBit(bus, m) ==
  IF m = 0 \/ (bus \div m) % 2 = 1 THEN bus ELSE bus + m

(* Outputs. *)
sample == state \in {"sSample", "sCal"}
ctlp   == WithBit(dig_result, mask)      \* ctln is its complement
trima  == WithBit(trim_val, trim_mask)   \* trimb is its complement
trimb  == 2 ^ TrimBits - 1 - trima

Init == /\ state = "sInit"
        /\ calibrate = FALSE
        /\ mask = 0
        /\ dig_result = 0
        /\ result_q = 0
        /\ res_valid = FALSE
        /\ trim_mask = 0
        /\ trim_val = 0
        /\ cal_itt = 0
        /\ cal_count = CalItts
        /\ en_co_clk = FALSE

\* rstn is asynchronous: it acts at once, from any state.
Reset == /\ state' = "sInit"
         /\ calibrate' = FALSE
         /\ mask' = 0
         /\ dig_result' = 0
         /\ result_q' = 0
         /\ res_valid' = FALSE
         /\ trim_mask' = 0
         /\ trim_val' = 0
         /\ cal_itt' = 0
         /\ cal_count' = CalItts
         /\ en_co_clk' = FALSE

-------------------------------------------------------------------------------
InitTrim == /\ state = "sInit"
            /\ state' = "sWait"
            /\ trim_val' = TrimMsb
            /\ UNCHANGED << calibrate, mask, dig_result, result_q, res_valid,
                            trim_mask, cal_itt, cal_count, en_co_clk >>

\* The task shared by sWait and sDone.
start_conv(cal) == /\ state' = "sSample"
                   /\ calibrate' = cal
                   /\ mask' = Msb
                   /\ dig_result' = 0
                   /\ cal_itt' = 0
                   /\ cal_count' = CalItts
                   /\ en_co_clk' = TRUE
                   /\ UNCHANGED << trim_mask, trim_val >>

Wait(en, cal) ==
  /\ state = "sWait"
  /\ \/ en  /\ start_conv(cal) /\ res_valid' = FALSE /\ UNCHANGED result_q
     \/ ~en /\ UNCHANGED vars

\* (bug variant) valid is not dropped: in back-to-back mode it stays high
SampleKeepsValid ==
  /\ state = "sSample"
  /\ \/ /\ calibrate
        /\ state' = "sCal"
        /\ trim_val' = 0
        /\ trim_mask' = TrimMsb
     \/ ~calibrate /\ state' = "sConv" /\ UNCHANGED << trim_val, trim_mask >>
  /\ UNCHANGED << calibrate, mask, dig_result, result_q, res_valid, cal_itt,
                  cal_count, en_co_clk >>

Sample ==
  /\ state = "sSample"
  /\ res_valid' = FALSE
  /\ \/ /\ calibrate
        /\ state' = "sCal"
        /\ trim_val' = 0
        /\ trim_mask' = TrimMsb
     \/ ~calibrate /\ state' = "sConv" /\ UNCHANGED << trim_val, trim_mask >>
  /\ UNCHANGED << calibrate, mask, dig_result, result_q, cal_itt, cal_count,
                  en_co_clk >>

\* The last trial bit of a conversion or of a calibration ends it.
Finish(last) ==
  \/ last  /\ state' = "sDone" /\ en_co_clk' = FALSE
  \/ ~last /\ UNCHANGED << state, en_co_clk >>

\* (bug variant) the conversion stops one bit early
ConvStopsEarly(comp) ==
  /\ state = "sConv"
  /\ dig_result' = IF comp THEN WithBit(dig_result, mask) ELSE dig_result
  /\ mask' = mask \div 2
  /\ Finish(mask \in {1, 2})
  /\ UNCHANGED << calibrate, result_q, res_valid, trim_mask, trim_val, cal_itt,
                  cal_count >>

Conv(comp) ==
  /\ state = "sConv"
  /\ dig_result' = IF comp THEN WithBit(dig_result, mask) ELSE dig_result
  /\ mask' = mask \div 2
  /\ Finish(mask % 2 = 1)
  /\ UNCHANGED << calibrate, result_q, res_valid, trim_mask, trim_val, cal_itt,
                  cal_count >>

\* One comparison for the trim bit on trial.
CalCompare(comp) ==
  /\ cal_itt < CalItts
  /\ cal_itt' = cal_itt + 1
  /\ cal_count' = IF comp THEN cal_count - 1 ELSE cal_count + 1
  /\ UNCHANGED << state, en_co_clk, calibrate, trim_mask, trim_val >>

\* After CalItts comparisons the bit is kept if most were lost.
CalDecide ==
  /\ cal_itt = CalItts
  /\ trim_val' = IF cal_count > CalItts THEN trima ELSE trim_val
  /\ trim_mask' = trim_mask \div 2
  /\ Finish(trim_mask % 2 = 1)
  /\ \/ trim_mask % 2 = 1 /\ calibrate' = FALSE /\ UNCHANGED cal_itt
     \/ trim_mask % 2 = 0 /\ cal_itt' = 0 /\ UNCHANGED calibrate
  /\ cal_count' = CalItts

Cal(comp) ==
  /\ state = "sCal"
  /\ CalCompare(comp) \/ CalDecide
  /\ UNCHANGED << mask, dig_result, result_q, res_valid >>

\* The result is published, and the next conversion starts at once if en is
\* still high.
Done(en, cal) ==
  /\ state = "sDone"
  /\ result_q' = dig_result
  /\ res_valid' = TRUE
  /\ \/ en /\ start_conv(cal)
     \/ /\ ~en
        /\ state' = "sWait"
        /\ UNCHANGED << calibrate, mask, dig_result, trim_mask, trim_val,
                        cal_itt, cal_count, en_co_clk >>

\* One rising edge of sar_clk with these inputs.
Clk(en, comp, cal) ==
  \/ InitTrim
  \/ Wait(en, cal)
  \/ Sample
  \/ Conv(comp)
  \/ Cal(comp)
  \/ Done(en, cal)

\* sample falls in this step.
SampleFalls == sample /\ ~sample'
===============================================================================
