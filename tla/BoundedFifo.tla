----------------------------- MODULE BoundedFifo -----------------------------
(***************************************************************************)
(* What SpscQueue promises (spec.md 4.1 and 8): a FIFO queue of at most    *)
(* Bound elements, in which a put either appends its value or reports     *)
(* full, and a take delivers the oldest element.  Every element put is    *)
(* delivered once, in order; nothing is duplicated or lost.               *)
(***************************************************************************)
EXTENDS Naturals, Sequences

CONSTANTS Bound, Values

VARIABLES
  queue,      \* the elements in the queue, oldest first
  delivered   \* every element taken so far, in the order taken

fifo == <<queue, delivered>>

Init ==
  /\ queue = <<>>
  /\ delivered = <<>>

Put(v) ==
  /\ Len(queue) < Bound
  /\ queue' = Append(queue, v)
  /\ UNCHANGED delivered

Take ==
  /\ queue # <<>>
  /\ queue' = Tail(queue)
  /\ delivered' = Append(delivered, Head(queue))

Next == (\E v \in Values : Put(v)) \/ Take

\* A consumer that keeps polling eventually takes what is in the queue.
Spec == Init /\ [][Next]_fifo /\ WF_fifo(Take)

=============================================================================
