--------------------------- MODULE MCSampleBlocks ---------------------------
(* The two blocks on either side of the sampling FSM, each under any use of *)
(* its ports; a behaviour runs one of them.  The FIFO has four slots and    *)
(* two samples, and every content of its RAM is an initial state, as the    *)
(* memory is not reset.  The converter has 3 bits, a 2-bit trim and three   *)
(* comparisons per trim bit; the inputs cover the whole range and overdrive *)
(* it at both ends.                                                         *)
EXTENDS SampleFifo, SarAdc

VARIABLE block
blockVars == << vars, adcVars, block >>

MCInputs == -7 .. 8

BlocksInit ==
  /\ Init /\ AdcInit /\ block \in {"fifo", "adc"}
  /\ block = "fifo" => held = 0
  /\ block = "adc" => \A s \in Slots : fifo_mem[s] = CHOOSE d \in Data : TRUE

FifoRuns == block = "fifo" /\ Next /\ UNCHANGED << adcVars, block >>
AdcRuns  == block = "adc" /\ AdcNext /\ UNCHANGED << vars, block >>

BlocksSpec == BlocksInit /\ [][FifoRuns \/ AdcRuns]_blockVars
===============================================================================
