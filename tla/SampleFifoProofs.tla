--------------------------- MODULE SampleFifoProofs ---------------------------
(***************************************************************************)
(* Proofs about SampleFifo for every power-of-two Depth and every set of   *)
(* samples: the count register agrees with the pointers, and the FIFO      *)
(* implements BoundedQueue.                                                *)
(***************************************************************************)
EXTENDS SampleFifo, SequenceTheorems, TLAPS

Inv == TypeOK /\ CountMatchesPointers

LEMMA DepthNat == Depth \in Nat /\ Depth > 1
  BY DepthAssumption

PushStep(d) ==
  /\ count < Depth
  /\ fifo_mem' = [fifo_mem EXCEPT ![wr_ptr] = d]
  /\ wr_ptr' = Inc(wr_ptr, Depth)
  /\ rd_ptr' = rd_ptr
  /\ count' = count + 1

PopStep ==
  /\ count > 0
  /\ fifo_mem' = fifo_mem
  /\ wr_ptr' = wr_ptr
  /\ rd_ptr' = Inc(rd_ptr, Depth)
  /\ count' = count - 1

PushPopStep(d) ==
  /\ count < Depth
  /\ count > 0
  /\ fifo_mem' = [fifo_mem EXCEPT ![wr_ptr] = d]
  /\ wr_ptr' = Inc(wr_ptr, Depth)
  /\ rd_ptr' = Inc(rd_ptr, Depth)
  /\ count' = count

\* The effect of one clock on a state that satisfies Inv, as the five things
\* that can happen to the queue; the three always blocks agree on which one.
LEMMA ClkCases ==
  ASSUME Inv, NEW wr \in BOOLEAN, NEW rd \in BOOLEAN, NEW clr \in BOOLEAN,
         NEW d \in Data, Clk(wr, d, rd, clr)
  PROVE  \/ Clear
         \/ UNCHANGED vars
         \/ PushStep(d)
         \/ PopStep
         \/ PushPopStep(d)
  BY DepthNat DEF Inv, TypeOK, CountMatchesPointers, Slots, Clk, WriteLogic,
     ReadLogic, CounterLogic, do_wr, do_rd, fifo_full, fifo_empty, Inc, Dec, vars,
     PushStep, PopStep, PushPopStep

LEMMA InvInductive == Inv /\ [Next]_vars => Inv'
<1> SUFFICES ASSUME Inv, [Next]_vars PROVE Inv'
  OBVIOUS
<1> USE DepthNat DEF Inv, TypeOK, CountMatchesPointers, Slots
<1>1. CASE Clear
  BY <1>1 DEF Clear
<1>2. CASE UNCHANGED vars
  BY <1>2 DEF vars
<1>3. ASSUME NEW wr \in BOOLEAN, NEW rd \in BOOLEAN, NEW clr \in BOOLEAN,
             NEW d \in Data, Clk(wr, d, rd, clr)
      PROVE  Inv'
  <2>1. CASE Clear \/ UNCHANGED vars
    BY <1>1, <1>2, <2>1
  <2>2. CASE PushStep(d)
    BY <2>2 DEF PushStep, Inc
  <2>3. CASE PopStep
    BY <2>3 DEF PopStep, Inc
  <2>4. CASE PushPopStep(d)
    BY <2>4 DEF PushPopStep, Inc
  <2>5. QED
    BY <1>3, <2>1, <2>2, <2>3, <2>4, ClkCases
<1>4. QED
  BY <1>1, <1>2, <1>3 DEF Next

\* count agrees with the pointers and stays in 0..Depth on every clock,
\* whatever the writer, the reader and fifo_clear do.
THEOREM FifoCountMatchesPointers == Spec => []CountMatchesPointers
<1>1. Init => Inv
  BY DepthNat DEF Init, Inv, TypeOK, CountMatchesPointers, Slots
<1>2. QED
  BY <1>1, InvInductive, PTL DEF Spec, Inv

THEOREM FifoTypeOK == Spec => []TypeOK
<1>1. Init => Inv
  BY DepthNat DEF Init, Inv, TypeOK, CountMatchesPointers, Slots
<1>2. QED
  BY <1>1, InvInductive, PTL DEF Spec, Inv
-------------------------------------------------------------------------------
(* The FIFO implements the bounded queue.                                  *)

\* Counting up to Depth slots from a slot stays inside the memory.
LEMMA SlotInSlots ==
  ASSUME NEW r \in Slots, NEW i \in 1 .. Depth
  PROVE  Slot(r, i) \in Slots
  BY DepthNat DEF Slot, Slots

\* Contents is a sequence of count samples.
LEMMA ContentsSeq ==
  ASSUME Inv
  PROVE  /\ Contents \in Seq(Data)
         /\ Len(Contents) = count
         /\ \A i \in 1 .. count :
               /\ Contents[i] = fifo_mem[Slot(rd_ptr, i)]
               /\ Slot(rd_ptr, i) \in Slots
<1> USE DepthNat DEF Inv, TypeOK, CountMatchesPointers, Slots
<1>1. \A i \in 1 .. count : Slot(rd_ptr, i) \in Slots
  BY SlotInSlots
<1>2. Contents \in [1 .. count -> Data]
  BY <1>1 DEF Contents
<1>3. QED
  BY <1>1, <1>2 DEF Contents

\* The same in the state after a step.
LEMMA ContentsSeqNext ==
  ASSUME Inv'
  PROVE  /\ Contents' \in Seq(Data)
         /\ Len(Contents') = count'
         /\ \A i \in 1 .. count' : Contents'[i] = fifo_mem'[Slot(rd_ptr', i)]
<1> USE DepthNat DEF Inv, TypeOK, CountMatchesPointers, Slots
<1>1. \A i \in 1 .. count' : Slot(rd_ptr', i) \in Slots
  <2>1. rd_ptr' \in Slots /\ count' \in 0 .. Depth
    OBVIOUS
  <2>2. QED
    BY <2>1, SlotInSlots
<1>2. Contents' \in [1 .. count' -> Data]
  BY <1>1 DEF Contents
<1>3. QED
  BY <1>2 DEF Contents

LEMMA PushMaps ==
  ASSUME Inv, Inv', NEW d \in Data, PushStep(d)
  PROVE  Queue!Push(d)
<1> USE DepthNat
<1>1. /\ Append(Contents, d) \in Seq(Data)
      /\ Len(Append(Contents, d)) = count + 1
      /\ \A i \in 1 .. count : Append(Contents, d)[i] = Contents[i]
      /\ Append(Contents, d)[count + 1] = d
  BY ContentsSeq, AppendProperties
<1>2. count' = count + 1 /\ count \in Nat
  BY DEF PushStep, Inv, TypeOK
<1>3. ASSUME NEW i \in 1 .. count
      PROVE  Slot(rd_ptr', i) = Slot(rd_ptr, i) /\ Slot(rd_ptr, i) # wr_ptr
  BY <1>3 DEF PushStep, Slot, Inv, TypeOK, CountMatchesPointers, Slots
<1>4. Slot(rd_ptr', count + 1) = wr_ptr
  BY DEF PushStep, Slot, Inv, TypeOK, CountMatchesPointers, Slots
<1>5. ASSUME NEW i \in 1 .. count
      PROVE  Contents'[i] = Append(Contents, d)[i]
  <2>1. fifo_mem'[Slot(rd_ptr, i)] = fifo_mem[Slot(rd_ptr, i)]
    BY <1>3, ContentsSeq DEF PushStep, Inv, TypeOK
  <2>2. QED
    BY <1>1, <1>2, <1>3, <2>1, ContentsSeq, ContentsSeqNext
<1>6. Contents'[count + 1] = d
  BY <1>2, <1>4, ContentsSeqNext DEF PushStep, Inv, TypeOK
<1>7. Contents' = Append(Contents, d)
  <2>1. \A i \in 1 .. count + 1 : Contents'[i] = Append(Contents, d)[i]
    BY <1>1, <1>2, <1>5, <1>6
  <2>2. QED
    BY <1>1, <1>2, <2>1, ContentsSeqNext, SeqEqual
<1>8. QED
  BY <1>7, ContentsSeq DEF Queue!Push, PushStep

LEMMA PopMaps ==
  ASSUME Inv, Inv', PopStep
  PROVE  Queue!Pop
<1> USE DepthNat
<1>1. count' = count - 1 /\ count \in Nat /\ count > 0
  BY DEF PopStep, Inv, TypeOK
<1>2. Contents # << >>
  BY <1>1, ContentsSeq
<1>3. /\ Tail(Contents) \in Seq(Data)
      /\ Len(Tail(Contents)) = count - 1
      /\ \A i \in 1 .. count - 1 : Tail(Contents)[i] = Contents[i + 1]
  BY <1>2, ContentsSeq, HeadTailProperties
<1>4. ASSUME NEW i \in 1 .. count - 1
      PROVE  Slot(rd_ptr', i) = Slot(rd_ptr, i + 1)
  BY <1>4 DEF PopStep, Slot, Inc, Inv, TypeOK, CountMatchesPointers, Slots
<1>5. ASSUME NEW i \in 1 .. count - 1
      PROVE  Contents'[i] = Tail(Contents)[i]
  BY <1>1, <1>3, <1>4, ContentsSeq, ContentsSeqNext DEF PopStep
<1>6. Contents' = Tail(Contents)
  BY <1>1, <1>3, <1>5, ContentsSeqNext, SeqEqual
<1>7. QED
  BY <1>2, <1>6 DEF Queue!Pop

LEMMA PushPopMaps ==
  ASSUME Inv, Inv', NEW d \in Data, PushPopStep(d)
  PROVE  Queue!PushPop(d)
<1> USE DepthNat
<1>1. count' = count /\ count \in Nat /\ count > 0 /\ count < Depth
  BY DEF PushPopStep, Inv, TypeOK
<1>2. Contents # << >>
  BY <1>1, ContentsSeq
<1>3. /\ Tail(Contents) \in Seq(Data)
      /\ Len(Tail(Contents)) = count - 1
      /\ \A i \in 1 .. count - 1 : Tail(Contents)[i] = Contents[i + 1]
  BY <1>2, ContentsSeq, HeadTailProperties
<1> DEFINE new == Append(Tail(Contents), d)
<1>4. /\ new \in Seq(Data)
      /\ Len(new) = count
      /\ \A i \in 1 .. count - 1 : new[i] = Contents[i + 1]
      /\ new[count] = d
  <2>1. count - 1 + 1 = count
    BY <1>1
  <2>2. QED
    BY <1>3, <2>1, AppendProperties
<1>5. ASSUME NEW i \in 1 .. count - 1
      PROVE  Slot(rd_ptr', i) = Slot(rd_ptr, i + 1) /\ Slot(rd_ptr, i + 1) # wr_ptr
  BY <1>5, <1>1 DEF PushPopStep, Slot, Inc, Inv, TypeOK, CountMatchesPointers, Slots
<1>6. Slot(rd_ptr', count) = wr_ptr
  BY <1>1 DEF PushPopStep, Slot, Inc, Inv, TypeOK, CountMatchesPointers, Slots
<1>7. ASSUME NEW i \in 1 .. count - 1
      PROVE  Contents'[i] = new[i]
  <2>1. i + 1 \in 1 .. count /\ i \in 1 .. count'
    BY <1>1
  <2>2. fifo_mem'[Slot(rd_ptr, i + 1)] = fifo_mem[Slot(rd_ptr, i + 1)]
    BY <1>5, <2>1, ContentsSeq DEF PushPopStep, Inv, TypeOK
  <2>3. QED
    BY <1>4, <1>5, <2>1, <2>2, ContentsSeq, ContentsSeqNext
<1>8. Contents'[count] = new[count]
  BY <1>1, <1>4, <1>6, ContentsSeqNext DEF PushPopStep, Inv, TypeOK
<1>9. Contents' = new
  <2> HIDE DEF new
  <2>1. \A i \in 1 .. count : Contents'[i] = new[i]
    BY <1>1, <1>7, <1>8
  <2>2. QED
    BY <1>1, <1>4, <2>1, ContentsSeqNext, SeqEqual
<1>10. QED
  BY <1>1, <1>2, <1>9, ContentsSeq DEF Queue!PushPop

\* Every run of the RAM, the two pointers and the count is a run of the bounded
\* queue: samples leave in the order they entered, once each, and only a flush
\* or a reset discards them.
THEOREM FifoImplementsQueue == Spec => ImplementsQueue
<1>1. Init => Inv
  BY DepthNat DEF Init, Inv, TypeOK, CountMatchesPointers, Slots
<1>2. Init => Queue!Init
  BY DEF Init, Queue!Init, Contents
<1>3. Inv /\ Inv' /\ [Next]_vars => [Queue!Next]_Contents
  <2> SUFFICES ASSUME Inv, Inv', [Next]_vars
               PROVE  [Queue!Next]_Contents
    OBVIOUS
  <2>1. CASE UNCHANGED vars
    BY <2>1 DEF vars, Contents, Slot
  <2>2. CASE Clear
    <3>1. Contents' = << >>
      BY <2>2, ContentsSeqNext DEF Clear
    <3>2. QED
      BY <3>1 DEF Queue!Next, Queue!Flush
  <2>3. ASSUME NEW wr \in BOOLEAN, NEW rd \in BOOLEAN, NEW clr \in BOOLEAN,
               NEW d \in Data, Clk(wr, d, rd, clr)
        PROVE  [Queue!Next]_Contents
    BY <2>1, <2>2, <2>3, ClkCases, PushMaps, PopMaps, PushPopMaps DEF Queue!Next
  <2>4. QED
    BY <2>1, <2>2, <2>3 DEF Next
<1>4. QED
  BY <1>1, <1>2, <1>3, InvInductive, PTL DEF Spec, ImplementsQueue, Queue!Spec
===============================================================================
