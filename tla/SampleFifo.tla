------------------------------ MODULE SampleFifo ------------------------------
(***************************************************************************)
(* fifo_apb_adc (agriculture_soc_main/FIFO/fifo_apb_adc.v): the            *)
(* synchronous FIFO between the sampling FSM (writer) and the APB slave    *)
(* (reader).  Clk is one rising edge of clk: the three always blocks read  *)
(* the registers before the edge and are the conjuncts of the action.      *)
(*                                                                         *)
(* Depth is the DEPTH parameter.  The pointers are $clog2(DEPTH) bits wide *)
(* and wrap by overflow, which is a wrap at Depth only for a power of two; *)
(* count has one bit more, so it wraps at 2 * Depth.                       *)
(***************************************************************************)
EXTENDS Naturals, Sequences

CONSTANTS
  Data,   \* the samples
  Depth   \* DEPTH: number of slots

ASSUME DepthAssumption == /\ Depth \in Nat \ {0, 1}
                          /\ \E k \in 1 .. Depth : Depth = 2 ^ k
ASSUME DataAssumption  == Data # {}

VARIABLES
  fifo_mem,  \* the slots; not reset, so a slot never written holds anything
  wr_ptr,    \* next slot to write
  rd_ptr,    \* oldest slot
  count      \* number of samples held

vars == << fifo_mem, wr_ptr, rd_ptr, count >>

Slots == 0 .. Depth - 1

fifo_full   == count = Depth
fifo_empty  == count = 0
apb_rd_data == fifo_mem[rd_ptr]

\* A register of M values counting up and down by one, wrapping at its width.
Inc(x, M) == IF x = M - 1 THEN 0 ELSE x + 1
Dec(x, M) == IF x = 0 THEN M - 1 ELSE x - 1

do_wr(adc_wr_en) == adc_wr_en /\ ~fifo_full
do_rd(apb_rd_en) == apb_rd_en /\ ~fifo_empty

-------------------------------------------------------------------------------
(* The always blocks when fifo_clear is low.                               *)

\* (bug variant) the sample goes to the slot being read
WriteLogicAtReadPtr(wr, d) ==
  \/ /\ do_wr(wr)
     /\ fifo_mem' = [fifo_mem EXCEPT ![rd_ptr] = d]
     /\ wr_ptr' = Inc(wr_ptr, Depth)
  \/ ~do_wr(wr) /\ UNCHANGED << fifo_mem, wr_ptr >>

WriteLogic(wr, d) ==
  \/ /\ do_wr(wr)
     /\ fifo_mem' = [fifo_mem EXCEPT ![wr_ptr] = d]
     /\ wr_ptr' = Inc(wr_ptr, Depth)
  \/ /\ ~do_wr(wr)
     /\ UNCHANGED << fifo_mem, wr_ptr >>

ReadLogic(rd) ==
  \/ do_rd(rd)  /\ rd_ptr' = Inc(rd_ptr, Depth)
  \/ ~do_rd(rd) /\ UNCHANGED rd_ptr

\* (bug variant) count moves on a write even when the FIFO is full
CounterLogicUngated(wr, rd) ==
  \/ wr  /\ ~do_rd(rd) /\ count' = Inc(count, 2 * Depth)
  \/ ~wr /\ do_rd(rd)  /\ count' = Dec(count, 2 * Depth)
  \/ (wr <=> do_rd(rd)) /\ UNCHANGED count

CounterLogic(wr, rd) ==
  \/ do_wr(wr)  /\ ~do_rd(rd) /\ count' = Inc(count, 2 * Depth)
  \/ ~do_wr(wr) /\ do_rd(rd)  /\ count' = Dec(count, 2 * Depth)
  \/ (do_wr(wr) <=> do_rd(rd)) /\ UNCHANGED count

\* fifo_clear, and rst_n, send the pointers and the count to 0 and win over a
\* write or a read of the same clock; the memory keeps its contents.
Clear == /\ wr_ptr' = 0
         /\ rd_ptr' = 0
         /\ count' = 0
         /\ UNCHANGED fifo_mem

\* One rising edge of clk with these inputs.
Clk(adc_wr_en, adc_data, apb_rd_en, fifo_clear) ==
  \/ fifo_clear /\ Clear
  \/ /\ ~fifo_clear
     /\ WriteLogic(adc_wr_en, adc_data)
     /\ ReadLogic(apb_rd_en)
     /\ CounterLogic(adc_wr_en, apb_rd_en)

Init == /\ fifo_mem \in [Slots -> Data]
        /\ wr_ptr = 0
        /\ rd_ptr = 0
        /\ count = 0

Next == \/ Clear   \* rst_n
        \/ \E wr, rd, clr \in BOOLEAN, d \in Data : Clk(wr, d, rd, clr)

Spec == Init /\ [][Next]_vars

-------------------------------------------------------------------------------
TypeOK == /\ fifo_mem \in [Slots -> Data]
          /\ wr_ptr \in Slots
          /\ rd_ptr \in Slots
          /\ count \in 0 .. 2 * Depth - 1

\* The redundant count agrees with the distance from the read pointer to the
\* write pointer at every clock, so it can neither overflow past Depth nor
\* underflow when writes, reads and flushes meet at the full and empty ends.
CountMatchesPointers ==
  /\ count \in 0 .. Depth
  /\ rd_ptr + count \in {wr_ptr, wr_ptr + Depth}

\* The i-th slot counting from slot r, and the samples held, oldest first.
Slot(r, i) == IF r + i - 1 < Depth THEN r + i - 1 ELSE r + i - 1 - Depth
Contents == [i \in 1 .. count |-> fifo_mem[Slot(rd_ptr, i)]]

\* The RAM, pointers and count behave as a bounded queue: samples leave in the
\* order they came, none is duplicated, overwritten or lost except by a flush.
Queue == INSTANCE BoundedQueue WITH queue <- Contents
ImplementsQueue == Queue!Spec
===============================================================================
