--------------------------- MODULE SampleProvenance ---------------------------
(***************************************************************************)
(* Which conversion does a sample of the FIFO come from?  The sampling FSM *)
(* keeps adc_en high until it sees valid, so sarlogic always starts one    *)
(* more conversion, which no trigger asked for.  Its input is held, and    *)
(* its result arrives, at times unrelated to the triggers.  This module    *)
(* adds history variables to SensingWrapper that follow an input from the  *)
(* sampling switches to the FIFO and compare it with the trigger it is     *)
(* pushed for.                                                             *)
(***************************************************************************)
EXTENDS SensingWrapper

ASSUME RunAssumption == {TrimBits, CalItts} \subseteq Nat \ {0}

\* What the proofs use of the exponential.
ASSUME PowersOfTwo == \A k \in 0 .. NBits + TrimBits :
                        2 ^ k \in Nat \ {0} /\ 2 ^ (k + 1) = 2 * 2 ^ k

VARIABLES
  heldFresh,  \* the input on the plates was held after the last trigger
  result,     \* facts about result_q
  sample,     \* the same facts about adc_sample
  latency     \* PCLK cycles the trigger has been served, up to MaxLatency + 1

histVars == << heldFresh, result, sample, latency >>
allVars  == << vars, histVars >>

\* fresh: the input was held after the last trigger; ended: the conversion ended
\* after it.
Nothing == [fresh |-> FALSE, ended |-> FALSE]
Newest  == [fresh |-> heldFresh, ended |-> TRUE]

\* The FSM accepts a trigger on this rising edge.
Accept == fsm_state = "S_IDLE" /\ sample_trig

\* Periods of sar_clk that a conversion or a calibration takes at most.
LongestRun == LET conv == NBits + 3
                  cal  == TrimBits * (CalItts + 1) + 3
              IN  IF conv > cal THEN conv ELSE cal

\* The bound of sar_adc_tb.v, section 4: two runs and 12 cycles, counted by the
\* test bench from the cycle of the trigger to the edge that writes.
MaxLatency == 2 * LongestRun * 2 * ClkDiv + 12 - 2

\* A trigger makes what was held or converted before it old.
Age(p) == IF Accept THEN Nothing ELSE p

HistPosEdge ==
  /\ heldFresh' = (heldFresh /\ ~Accept)
  /\ result' = Age(result)
  /\ sample' = Age(IF adc_valid_rise THEN result ELSE sample)
  /\ latency' = IF fsm_state = "S_IDLE" THEN 0
                ELSE IF latency <= MaxLatency THEN latency + 1 ELSE latency

\* The falling edge matters only when it is a rising edge of sar_clk.
SarEdge == ~sar_clk /\ div_ph

HistNegEdge ==
  /\ heldFresh' = (heldFresh \/ (SarEdge /\ Adc!Sar!SampleFalls))
  /\ result' = IF SarEdge /\ sar_state = "sDone" THEN Newest ELSE result
  /\ UNCHANGED << sample, latency >>

HistReset ==
  /\ heldFresh' = FALSE
  /\ result' = Nothing
  /\ sample' = Nothing
  /\ latency' = 0

HInit == /\ Init
         /\ heldFresh = FALSE
         /\ result = Nothing
         /\ sample = Nothing
         /\ latency = 0

HNext == \/ PosEdge /\ HistPosEdge
         \/ NegEdge /\ HistNegEdge
         \/ Reset /\ HistReset

HSpec == HInit /\ [][HNext]_allVars

-------------------------------------------------------------------------------
Writing == fsm_state = "S_WRITE"

\* The sample pushed for a trigger comes from a conversion that ended after the
\* trigger was accepted: the result of an earlier conversion, still standing
\* with valid high or on its way through the synchroniser, is not taken for it,
\* so no conversion is pushed twice.
EndedAfterTrigger == Writing => sample.ended

\* A sample is pushed within two conversions of its trigger (sar_adc_tb.v:332),
\* also when the trigger meets the conversion nobody asked for, and when either
\* of the two is a calibration, which the test bench does not try: the handshake
\* across the two clocks never hangs, although valid may be a pulse of one
\* sar_clk period.
LatencyBounded == fsm_state # "S_IDLE" => latency <= MaxLatency

\* "On each trigger runs one ADC conversion and pushes the sample": the input of
\* a pushed sample was held after the trigger it was pushed for.
SampledAfterTrigger == Writing => sample.fresh
===============================================================================
