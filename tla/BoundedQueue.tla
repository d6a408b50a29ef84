----------------------------- MODULE BoundedQueue -----------------------------
(***************************************************************************)
(* What the sample FIFO promises its two users, with no memory and no      *)
(* pointers: a queue of at most Depth samples.  In one clock the ADC side  *)
(* may append a sample, the APB side may remove the oldest one, both may   *)
(* happen at once, or the queue is flushed.                                *)
(***************************************************************************)
EXTENDS Naturals, Sequences

CONSTANTS
  Data,   \* the samples
  Depth   \* the capacity

VARIABLE queue

Init == queue = << >>

Push(d) == /\ Len(queue) < Depth
           /\ queue' = Append(queue, d)

Pop == /\ queue # << >>
       /\ queue' = Tail(queue)

\* A sample enters and the oldest one leaves in the same clock.  A full queue
\* takes no sample even when it is read in that clock.
PushPop(d) == /\ Len(queue) < Depth
              /\ queue # << >>
              /\ queue' = Append(Tail(queue), d)

Flush == queue' = << >>

Next == \/ \E d \in Data : Push(d) \/ PushPop(d)
        \/ Pop
        \/ Flush

Spec == Init /\ [][Next]_queue
===============================================================================
