----------------------------- MODULE SpscChannel -----------------------------
(***************************************************************************)
(* One producer thread and one consumer thread around a SpscQueue, as in  *)
(* the tests SpscQueue.ProducerConsumer_Concurrent and                     *)
(* MoveOnly_ProducerConsumer (src/tests/test_mem.cpp): the producer pushes *)
(* 1, 2, .., MaxItems in order and retries on full; the consumer polls    *)
(* pop in a loop and records what it gets.                                 *)
(***************************************************************************)
EXTENDS Naturals, Sequences

CONSTANTS Capacity, MaxItems, NoValue, TriviallyCopyable

Items == 1 .. MaxItems

VARIABLES head, tail, buf, prod, cons,
          sent,   \* number of pushes that returned true
          recv    \* the values pops returned, in order

vars == <<head, tail, buf, prod, cons, sent, recv>>

Ring == INSTANCE SpscQueue WITH Values <- Items

Init ==
  /\ Ring!RingInit
  /\ sent = 0
  /\ recv = <<>>

\* Producer loop: push(i) until it returns true, then i + 1.
Produce ==
  /\ sent < MaxItems
  /\ \/ Ring!PushFull(sent + 1)
     \/ Ring!PushBegin(sent + 1)
  /\ UNCHANGED <<sent, recv>>

ProduceWrite == Ring!PushWrite /\ UNCHANGED <<sent, recv>>

ProducePublish ==
  /\ Ring!PushPublish
  /\ sent' = sent + 1
  /\ UNCHANGED recv

\* Consumer loop: if (q->pop(v)) out.push_back(v).
Consume ==
  /\ \/ Ring!PopEmpty
     \/ Ring!PopBegin
     \/ Ring!PopRead
  /\ UNCHANGED <<sent, recv>>

ConsumePublish ==
  /\ Ring!PopPublish
  /\ recv' = Append(recv, cons.out)
  /\ UNCHANGED sent

ConsumerStep == Consume \/ ConsumePublish

Next ==
  \/ Produce \/ ProduceWrite \/ ProducePublish
  \/ ConsumerStep

\* The consumer thread polls without end (the tests' while loop).
Spec == Init /\ [][Next]_vars /\ WF_vars(ConsumerStep)

-----------------------------------------------------------------------------
TypeOK ==
  /\ Ring!RingTypeOK
  /\ sent \in 0 .. MaxItems
  /\ recv \in Seq(Items)

\* The queue as the abstract FIFO sees it: the element the consumer has
\* moved out but not yet released with the head_ store is still its head.
AbsQueue ==
  IF cons.pc = "publish" THEN <<cons.out>> \o Ring!Unread ELSE Ring!Unread

(* No loss, no duplication, FIFO: what the consumer received, followed by  *)
(* what is still in the ring, is exactly the values whose push returned    *)
(* true, in push order.  Broken by a push that overwrites an unread slot  *)
(* or a tail_ store that overtakes the element store.                      *)
NoLossNoDup == recv \o AbsQueue = [i \in 1 .. sent |-> i]

(* Every value whose push returned true is eventually popped, while the   *)
(* consumer keeps polling (spec.md 8: no items lost).                      *)
EveryItemDelivered ==
  \A i \in Items : (sent >= i) ~> (Len(recv) >= i)

(* The ring with its two threads implements a bounded FIFO of Capacity - 1 *)
(* elements (one slot open).                                              *)
Fifo == INSTANCE BoundedFifo
          WITH Bound <- Capacity - 1, Values <- Items,
               queue <- AbsQueue, delivered <- recv
FifoRefinement == Fifo!Spec

=============================================================================
