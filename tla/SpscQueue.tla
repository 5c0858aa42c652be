------------------------------ MODULE SpscQueue ------------------------------
(***************************************************************************)
(* SpscQueue<T> (src/unnamed/part_007, spsc_queue.hpp): a bounded ring of *)
(* Capacity slots, power of two, one slot kept open, so at most            *)
(* Capacity - 1 elements.  head_ is written only by the consumer, tail_    *)
(* only by the producer.                                                   *)
(*                                                                         *)
(* One step of the model is one access to shared memory:                   *)
(*   push: load head_ and test full | store buf_[t] | store tail_ = n      *)
(*   pop:  load tail_ and test empty | move buf_[h] out | store head_      *)
(* Loads of a thread's own index (tail_ in push, head_ in pop) are folded  *)
(* into the first step: nobody else writes them.  Each thread keeps the    *)
(* locals of its call (t, the value, the result) in prod / cons.           *)
(* The memory orders of the code (release store of the index, acquire load *)
(* of the other index) make this sequentially consistent view exact.       *)
(***************************************************************************)
EXTENDS Naturals, Sequences
LOCAL INSTANCE Bitwise

CONSTANTS
  Capacity,   \* capacity_pow2 given to with_capacity
  Values,     \* the values the producer pushes
  NoValue,    \* a slot never written, or moved from
  TriviallyCopyable  \* T is trivially copyable (a move leaves the slot as is)

ASSUME Capacity \in {2^k : k \in 1..6}
ASSUME NoValue \notin Values
ASSUME TriviallyCopyable \in BOOLEAN

VARIABLES
  head,   \* head_: consumer index
  tail,   \* tail_: producer index
  buf,    \* buf_[0 .. Capacity-1]
  prod,   \* producer's call in progress: pc, t, v and the last result
  cons    \* consumer's call in progress: pc, out and the last result

ring == <<head, tail, buf, prod, cons>>

Mask == Capacity - 1
Slots == 0 .. Mask

\* Mutant: the increment without & mask_.
SuccUnmasked(i) == i + 1

\* (i + 1) & mask_: with Capacity a power of two this is (i + 1) % Capacity.
Succ(i) == (i + 1) % Capacity

\* approx_size(): (t + capacity_ - h) & mask_.
ApproxSize(t, h) == (t + Capacity - h) % Capacity

\* The elements between head_ and tail_, oldest first.
Contents ==
  [i \in 1 .. ApproxSize(tail, head) |-> buf[(head + i - 1) % Capacity]]

\* The elements the consumer has not taken yet: while it is between the move
\* and the head_ store, the oldest one is already in its hands.
Unread == IF cons.pc = "publish" THEN Tail(Contents) ELSE Contents

RingTypeOK ==
  /\ head \in Slots
  /\ tail \in Slots
  /\ buf \in [Slots -> Values \cup {NoValue}]
  /\ prod \in [pc : {"idle", "write", "publish"}, t : Slots,
               v : Values \cup {NoValue}, ret : {"none", "ok", "full"}]
  /\ cons \in [pc : {"idle", "read", "publish"},
               out : Values \cup {NoValue}, ret : {"none", "ok", "empty"}]

\* with_capacity(capacity_pow2): the first check that fails, or "ok".
\* SpscTraits<T>::ok holds for every element type the repository uses (int,
\* PacketHandle, std::unique_ptr<int>).  The storage comes from
\* ::operator new[], which throws rather than return null; in this noexcept
\* function that is std::terminate, so AllocationFailed is never returned.
WithCapacity(c) ==
  IF c = 0 THEN "CapacityZero"
  ELSE IF (c & (c - 1)) # 0 THEN "CapacityNotPowerOfTwo"
  ELSE "ok"

\* Constructed by with_capacity, which succeeded, and moved into place
\* (move_from copies the indices of the fresh queue): indices 0, storage not
\* initialised (never read before it is written), no call in progress.
RingInit ==
  /\ WithCapacity(Capacity) = "ok"
  /\ head = 0
  /\ tail = 0
  /\ buf = [i \in Slots |-> NoValue]
  /\ prod = [pc |-> "idle", t |-> 0, v |-> NoValue, ret |-> "none"]
  /\ cons = [pc |-> "idle", out |-> NoValue, ret |-> "none"]

-----------------------------------------------------------------------------
\* Mutant: the full test dropped, so a full ring is overwritten.
FullNever(t, h) == FALSE

\* The full test of push: (t + 1) & mask_ == head_.
Full(t, h) == Succ(t) = h

\* Mutant: off by one, a ring holding one element reads as empty.
EmptyKeepsLast(h, t) == h = t \/ Succ(h) = t

\* The empty test of pop: h == tail_.
Empty(h, t) == h = t

-----------------------------------------------------------------------------
(* push(v): t = tail_ (relaxed); n = (t + 1) & mask_;                       *)
(* if (n == head_.load(acquire)) return false;                             *)

PushFull(v) ==
  /\ prod.pc = "idle"
  /\ Full(tail, head)
  /\ prod' = [prod EXCEPT !.ret = "full"]
  /\ UNCHANGED <<head, tail, buf, cons>>

\* Mutant: tail_ released before the element is stored.
PushBeginPublishFirst(v) ==
  /\ prod.pc = "idle"
  /\ ~Full(tail, head)
  /\ tail' = Succ(tail)
  /\ prod' = [pc |-> "write", t |-> tail, v |-> v, ret |-> "none"]
  /\ UNCHANGED <<head, buf, cons>>

PushBegin(v) ==
  /\ prod.pc = "idle"
  /\ ~Full(tail, head)
  /\ prod' = [pc |-> "write", t |-> tail, v |-> v, ret |-> "none"]
  /\ UNCHANGED <<head, tail, buf, cons>>

\* buf_[t] = v  (copy or move)
PushWrite ==
  /\ prod.pc = "write"
  /\ buf' = [buf EXCEPT ![prod.t] = prod.v]
  /\ prod' = [prod EXCEPT !.pc = "publish"]
  /\ UNCHANGED <<head, tail, cons>>

\* tail_.store(n, release); return true
PushPublish ==
  /\ prod.pc = "publish"
  /\ tail' = Succ(prod.t)
  /\ prod' = [pc |-> "idle", t |-> prod.t, v |-> NoValue, ret |-> "ok"]
  /\ UNCHANGED <<head, buf, cons>>

-----------------------------------------------------------------------------
(* pop(out): h = head_ (relaxed);                                           *)
(* if (h == tail_.load(acquire)) return false;                             *)

PopEmpty ==
  /\ cons.pc = "idle"
  /\ Empty(head, tail)
  /\ cons' = [cons EXCEPT !.ret = "empty"]
  /\ UNCHANGED <<head, tail, buf, prod>>

PopBegin ==
  /\ cons.pc = "idle"
  /\ ~Empty(head, tail)
  /\ cons' = [cons EXCEPT !.pc = "read", !.ret = "none"]
  /\ UNCHANGED <<head, tail, buf, prod>>

\* out = std::move(buf_[h]): a trivially copyable value stays in the slot,
\* a move-only one (unique_ptr) leaves it empty.
PopRead ==
  /\ cons.pc = "read"
  /\ cons' = [cons EXCEPT !.pc = "publish", !.out = buf[head]]
  /\ buf' = IF TriviallyCopyable THEN buf
            ELSE [buf EXCEPT ![head] = NoValue]
  /\ UNCHANGED <<head, tail, prod>>

\* head_.store((h + 1) & mask_, release); return true
PopPublish ==
  /\ cons.pc = "publish"
  /\ head' = Succ(head)
  /\ cons' = [cons EXCEPT !.pc = "idle", !.ret = "ok"]
  /\ UNCHANGED <<tail, buf, prod>>

=============================================================================
