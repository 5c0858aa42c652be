------------------------------ MODULE PacketPool ------------------------------
(***************************************************************************)
(* PacketPool (src/unnamed/part_006, src/src/alpha/mem/spsc_queue.cpp): a  *)
(* fixed set of descriptors addressed by handles 0 .. N-1 and a free list  *)
(* that is a SpscQueue<PacketHandle> of capacity 2N.  acquire() is pop on  *)
(* the RX thread (the ring's only consumer), release(h) is push on the TX  *)
(* thread (its only producer).  Between the two, a handle belongs to the   *)
(* application: RX hands it over, TX gives it back.                        *)
(***************************************************************************)
EXTENDS Naturals, Sequences, FiniteSets, Bags

CONSTANTS
  PoolCapacity,  \* capacity_pow2 of the PacketPool constructor
  NoValue

ASSUME PoolCapacity \in {2^k : k \in 0..5}

Handles == 0 .. PoolCapacity - 1

\* Mutant: the free ring sized N, forgetting the one open slot.
RingCapacityUndoubled == PoolCapacity

\* SpscQueue<PacketHandle>::with_capacity(capacity_pow2 * 2)
RingCapacity == 2 * PoolCapacity

VARIABLES head, tail, buf, prod, cons,
          owned   \* bag of handles the application holds (acquired, not yet
                  \* passed to release)

vars == <<head, tail, buf, prod, cons, owned>>

Ring == INSTANCE SpscQueue
          WITH Capacity <- RingCapacity, Values <- Handles,
               TriviallyCopyable <- TRUE

(* Seeding in the constructor: push(i) for i = 0 .. capacity_-1 on the new *)
(* ring.  The assert on the result is compiled out in release builds, so a *)
(* push that finds the ring full is simply lost.                           *)
RECURSIVE Seed(_, _, _)
Seed(i, t, b) ==
  IF i = PoolCapacity THEN [tail |-> t, buf |-> b]
  ELSE IF Ring!Full(t, 0) THEN Seed(i + 1, t, b)
  ELSE Seed(i + 1, Ring!Succ(t), [b EXCEPT ![t] = i])

Seeded == Seed(0, 0, [s \in Ring!Slots |-> NoValue])

\* The state the constructor leaves: with_capacity(2N) succeeded (else
\* std::abort), the seeded ring, nothing outstanding.
Init ==
  /\ Ring!WithCapacity(RingCapacity) = "ok"
  /\ head = 0
  /\ tail = Seeded.tail
  /\ buf = Seeded.buf
  /\ prod = [pc |-> "idle", t |-> 0, v |-> NoValue, ret |-> "none"]
  /\ cons = [pc |-> "idle", out |-> NoValue, ret |-> "none"]
  /\ owned = EmptyBag

\* acquire(out): return free_ring_.pop(out)
Acquire ==
  /\ \/ Ring!PopEmpty
     \/ Ring!PopBegin
     \/ Ring!PopRead
  /\ UNCHANGED owned

AcquireReturn ==
  /\ Ring!PopPublish
  /\ owned' = owned (+) SetToBag({cons.out})

\* release(h): return free_ring_.push(h), h taken from what the application
\* holds.  The push cannot find the ring full: it has 2N - 1 usable slots and
\* HandleConservation bounds what circulates to N, so the false branch of
\* release is not a step of this model.
Release ==
  \E h \in BagToSet(owned) :
    /\ Ring!PushBegin(h)
    /\ owned' = owned (-) SetToBag({h})

ReleaseStep ==
  /\ Ring!PushWrite \/ Ring!PushPublish
  /\ UNCHANGED owned

Next == Acquire \/ AcquireReturn \/ Release \/ ReleaseStep

Spec == Init /\ [][Next]_vars

-----------------------------------------------------------------------------
TypeOK ==
  /\ Ring!RingTypeOK
  /\ IsABag(owned) /\ BagToSet(owned) \subseteq Handles

\* Copies of handle h: in the free list, in a pop or push under way, and
\* held by the application.
Copies(h) ==
  Cardinality({i \in DOMAIN Ring!Unread : Ring!Unread[i] = h})
  + (IF cons.pc = "publish" /\ cons.out = h THEN 1 ELSE 0)
  + (IF prod.pc \in {"write", "publish"} /\ prod.v = h THEN 1 ELSE 0)
  + CopiesIn(h, owned)

\* Handles out of the free list: held by the application or being released.
Outstanding ==
  BagCardinality(owned) + (IF prod.pc \in {"write", "publish"} THEN 1 ELSE 0)

(* Every descriptor handle exists exactly once: in the free list, in the   *)
(* hands of RX or TX, or held by the application.  An acquire never hands *)
(* out a handle that is already out (spec.md 8, round-trip law).           *)
HandleConservation == \A h \in Handles : Copies(h) = 1

\* A step in which acquire() returns false: the consumer, idle, records the
\* result "empty" of free_ring_.pop while TX and the application stand still.
AcquireReturnsEmpty ==
  cons.pc = "idle" /\ cons'.ret = "empty" /\ UNCHANGED <<prod, owned>>

(* acquire() returns false only when all N descriptors are outstanding,   *)
(* held by the application or inside a release whose push has not         *)
(* published tail_ yet (spec.md 4.2, 8: the N+1-th acquire fails, not an  *)
(* earlier one).  Stated on the result of pop, so a ring that loses a     *)
(* seed, or a pop that reads a non-empty ring as empty, breaks it.        *)
AcquireFailsOnlyWhenExhausted ==
  [][AcquireReturnsEmpty => Outstanding = PoolCapacity]_vars

=============================================================================
