------------------------------ MODULE SamplingFsm ------------------------------
(***************************************************************************)
(* wrapper_control_2 (agriculture_soc_main/FSM/wrapper_control_2.v): the   *)
(* sampling FSM.  A trigger runs one ADC handshake (adc_en high until      *)
(* adc_valid has been seen low and then high) and pushes one sample, or    *)
(* drops the sample if the FIFO is full when the trigger is accepted.      *)
(*                                                                         *)
(* Clk is one rising edge of clk.  The module is composed with the FIFO,   *)
(* the ADC and the APB registers in SensingWrapper, which gives it the     *)
(* inputs those parts compute.                                             *)
(***************************************************************************)

VARIABLES
  state,          \* the FSM register
  err_fifo_full   \* sticky: the last accepted trigger lost its sample

vars == << state, err_fifo_full >>

States == {"S_IDLE", "S_CHECK_FIFO", "S_ENABLE", "S_WAIT_START",
           "S_WAIT_DONE", "S_WRITE", "S_ERR_FULL"}

(* Moore outputs. *)
\* (bug variant) the enable is a pulse, which the slower clock may miss
adc_enPulse   == state = "S_ENABLE"
adc_en        == state \in {"S_ENABLE", "S_WAIT_START", "S_WAIT_DONE"}
fifo_write_en == state = "S_WRITE"

Init == /\ state = "S_IDLE"
        /\ err_fifo_full = FALSE

Goto(from, to) == /\ state = from
                  /\ state' = to

-------------------------------------------------------------------------------
(* The edges of the state diagram.                                         *)

\* Only S_IDLE looks at the trigger: a pulse in any other state is ignored.
Idle(sample_trig) ==
  /\ \/ sample_trig  /\ Goto("S_IDLE", "S_CHECK_FIFO")
     \/ ~sample_trig /\ Goto("S_IDLE", "S_IDLE")
  /\ UNCHANGED err_fifo_full

\* (bug variant) no pre-check: the conversion starts whatever the FIFO holds
CheckFifoNever(fifo_full) ==
  /\ Goto("S_CHECK_FIFO", "S_ENABLE")
  /\ err_fifo_full' = FALSE

CheckFifo(fifo_full) ==
  \/ /\ fifo_full
     /\ Goto("S_CHECK_FIFO", "S_ERR_FULL")
     /\ UNCHANGED err_fifo_full
  \/ /\ ~fifo_full
     /\ Goto("S_CHECK_FIFO", "S_ENABLE")
     /\ err_fifo_full' = FALSE

Enable ==
  /\ Goto("S_ENABLE", "S_WAIT_START")
  /\ UNCHANGED err_fifo_full

\* (bug variant) valid left high by the previous conversion is taken for this one
WaitStartSkipped(adc_valid) ==
  /\ Goto("S_WAIT_START", "S_WAIT_DONE")
  /\ UNCHANGED err_fifo_full

WaitStart(adc_valid) ==
  /\ \/ ~adc_valid /\ Goto("S_WAIT_START", "S_WAIT_DONE")
     \/ adc_valid  /\ Goto("S_WAIT_START", "S_WAIT_START")
  /\ UNCHANGED err_fifo_full

WaitDone(adc_valid) ==
  /\ \/ adc_valid  /\ Goto("S_WAIT_DONE", "S_WRITE")
     \/ ~adc_valid /\ Goto("S_WAIT_DONE", "S_WAIT_DONE")
  /\ UNCHANGED err_fifo_full

Write ==
  /\ Goto("S_WRITE", "S_IDLE")
  /\ UNCHANGED err_fifo_full

ErrFull ==
  /\ Goto("S_ERR_FULL", "S_IDLE")
  /\ err_fifo_full' = TRUE

\* One rising edge of clk with these inputs.
Clk(sample_trig, fifo_full, adc_valid) ==
  \/ Idle(sample_trig)
  \/ CheckFifo(fifo_full)
  \/ Enable
  \/ WaitStart(adc_valid)
  \/ WaitDone(adc_valid)
  \/ Write
  \/ ErrFull

\* rstn is asynchronous: it acts at once, from any state.
Reset == /\ state' = "S_IDLE"
         /\ err_fifo_full' = FALSE

Next == \/ Reset
        \/ \E trig, full, valid \in BOOLEAN : Clk(trig, full, valid)

Spec == Init /\ [][Next]_vars
===============================================================================
