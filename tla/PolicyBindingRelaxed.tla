------------------------- MODULE PolicyBindingRelaxed -------------------------
(***************************************************************************)
(* The PolicyBinding seqlock (policy_binding.hpp, policy_binding.cpp)     *)
(* under the memory orders the code asks for, instead of the sequentially *)
(* consistent interleavings of PolicyBinding.                              *)
(*                                                                         *)
(* Writer (CP): its stores go into a buffer and become visible to other   *)
(* threads later.  A relaxed store may become visible before the writer's *)
(* earlier stores to other locations, never before an earlier store to    *)
(* the same location (coherence).  A release store becomes visible only   *)
(* after every earlier store of the writer.                                *)
(*                                                                         *)
(* Reader (DP): s1 = seq.load(acquire) comes first; no later access may   *)
(* move before an acquire load.  The relaxed loads of fn and state may be *)
(* performed after the acquire load s2 (an acquire load does not hold     *)
(* back earlier accesses), so fn, state and s2 are loaded in any order.   *)
(***************************************************************************)
EXTENDS Naturals, Sequences

CONSTANTS
  Policies,   \* the policy objects CP may publish
  Null,       \* nullptr
  Readers,    \* DP threads
  MaxOps,     \* bound on the number of publish/clear calls
  SeqBits     \* width of seq

ASSUME Null \notin Policies /\ MaxOps \in Nat /\ SeqBits \in 2..30

Ptrs == Policies \cup {Null}
SeqMod == 2^SeqBits
Seqs == 0 .. SeqMod - 1
Locs == {"seq", "fn", "state"}
MaxTries == 4                              \* for (int i = 0; i < 4; ++i)
Or1(s) == IF s % 2 = 0 THEN s + 1 ELSE s   \* s | 1u

VARIABLES
  mem,       \* the value of each location of b that other threads see
  buf,       \* the writer's stores not yet visible, oldest first: [loc, val, rel, op]
  writer,    \* the CP call in progress: pc, op (a policy, or Null for clear), start
  readers,   \* each DP call in progress
  ops,       \* ghost: publish/clear calls started
  bound,     \* ghost: the policy bound by the last visible release store
  seen       \* ghost: per reader, every value of bound during its call

vars == <<mem, buf, writer, readers, ops, bound, seen>>

Init ==
  /\ mem = [l \in Locs |-> IF l = "seq" THEN 0 ELSE Null]
  /\ buf = <<>>
  /\ writer = [pc |-> "idle", op |-> Null, start |-> 0]
  /\ readers = [r \in Readers |->
                  [pc |-> "idle", i |-> 0, todo |-> {}, s1 |-> 0, s2 |-> 0,
                   fn |-> Null, st |-> Null, ret |-> "none"]]
  /\ ops = 0
  /\ bound = Null
  /\ seen = [r \in Readers |-> {}]

-----------------------------------------------------------------------------
(* CP: publish_policy(b, P) and clear_policy(b)                            *)

\* What the writer's own relaxed load of seq returns: its latest store.
OwnSeq ==
  LET mine == {k \in 1 .. Len(buf) : buf[k].loc = "seq"} IN
  IF mine = {} THEN mem["seq"]
  ELSE buf[CHOOSE k \in mine : \A j \in mine : j <= k].val

Store(loc, v, rel, op) ==
  buf' = Append(buf, [loc |-> loc, val |-> v, rel |-> rel, op |-> op])

\* start = seq (relaxed); seq.store(start | 1u, relaxed)
WriterEnter(op) ==
  /\ writer.pc = "idle"
  /\ ops < MaxOps
  /\ writer' = [pc |-> "first", op |-> op, start |-> OwnSeq]
  /\ Store("seq", Or1(OwnSeq) % SeqMod, FALSE, op)
  /\ ops' = ops + 1
  /\ UNCHANGED <<mem, readers, bound, seen>>

\* publish: state.store(&policy, relaxed), then fn.store(thunk, relaxed);
\* clear: fn.store(nullptr, relaxed), then state.store(nullptr, relaxed).
FirstLoc(op) == IF op = Null THEN "fn" ELSE "state"
SecondLoc(op) == IF op = Null THEN "state" ELSE "fn"

WriterFirst ==
  /\ writer.pc = "first"
  /\ Store(FirstLoc(writer.op), writer.op, FALSE, writer.op)
  /\ writer' = [writer EXCEPT !.pc = "second"]
  /\ UNCHANGED <<mem, readers, ops, bound, seen>>

WriterSecond ==
  /\ writer.pc = "second"
  /\ Store(SecondLoc(writer.op), writer.op, FALSE, writer.op)
  /\ writer' = [writer EXCEPT !.pc = "exit"]
  /\ UNCHANGED <<mem, readers, ops, bound, seen>>

\* seq.store((start | 1u) + 1u, release)
WriterExit ==
  /\ writer.pc = "exit"
  /\ Store("seq", (Or1(writer.start) + 1) % SeqMod, TRUE, writer.op)
  /\ writer' = [writer EXCEPT !.pc = "idle"]
  /\ UNCHANGED <<mem, readers, ops, bound, seen>>

\* Store k of the buffer may become visible: no earlier store to its
\* location is pending, and a release store has no earlier store pending.
MayBecomeVisible(k) ==
  /\ \A j \in 1 .. k - 1 : buf[j].loc # buf[k].loc
  /\ buf[k].rel => k = 1

\* The release store of seq completes the call that issued it: the ghost
\* bound takes that call's op.
Flush(k) ==
  /\ MayBecomeVisible(k)
  /\ mem' = [mem EXCEPT ![buf[k].loc] = buf[k].val]
  /\ buf' = [j \in 1 .. Len(buf) - 1 |-> IF j < k THEN buf[j] ELSE buf[j + 1]]
  /\ IF buf[k].rel
     THEN /\ bound' = buf[k].op
          /\ seen' = [r \in Readers |->
                        IF readers[r].pc = "idle" THEN seen[r]
                        ELSE seen[r] \cup {buf[k].op}]
     ELSE UNCHANGED <<bound, seen>>
  /\ UNCHANGED <<writer, readers, ops>>

-----------------------------------------------------------------------------
(* DP: select_path(b, cands, pkt) = snapshot_binding, then fn(st, ...)     *)

SelectCall(r) ==
  /\ readers[r].pc = "idle"
  /\ readers' = [readers EXCEPT ![r] = [@ EXCEPT !.pc = "s1", !.i = 0, !.ret = "none"]]
  /\ seen' = [seen EXCEPT ![r] = {bound}]
  /\ UNCHANGED <<mem, buf, writer, ops, bound>>

\* Next iteration; after MaxTries: out_fn = out_state = nullptr, return false,
\* and select_path returns 0.
Retry(rd) ==
  IF rd.i + 1 = MaxTries
  THEN [rd EXCEPT !.pc = "idle", !.fn = Null, !.st = Null, !.ret = "nopath"]
  ELSE [rd EXCEPT !.pc = "s1", !.i = @ + 1]

\* The recheck: s1 == s2 && (s2 % 2u) == 0u; on acceptance return fn && st,
\* and select_path returns 0 if either is null, fn(st, cands, pkt) otherwise.
Decide(rd) ==
  IF rd.todo # {} THEN rd
  ELSE IF ~(rd.s1 = rd.s2 /\ rd.s2 % 2 = 0) THEN Retry(rd)
  ELSE IF rd.fn # Null /\ rd.st # Null
       THEN [rd EXCEPT !.pc = "idle", !.ret = "called"]
       ELSE [rd EXCEPT !.pc = "idle", !.ret = "nopath"]

ReaderUpdate(r, rd) ==
  /\ readers' = [readers EXCEPT ![r] = rd]
  /\ UNCHANGED <<mem, buf, writer, ops, bound, seen>>

\* s1 = b.seq.load(acquire); if (s1 & 1u) continue;
LoadS1(r) ==
  /\ readers[r].pc = "s1"
  /\ ReaderUpdate(r, IF mem["seq"] % 2 = 1 THEN Retry(readers[r])
                     ELSE [readers[r] EXCEPT !.pc = "loads", !.s1 = mem["seq"],
                                             !.todo = Locs])

\* fn = b.fn.load(relaxed), st = b.state.load(relaxed) and
\* s2 = b.seq.load(acquire), in the order the hardware performs them.
Load(r, l) ==
  /\ readers[r].pc = "loads" /\ l \in readers[r].todo
  /\ LET rd == [readers[r] EXCEPT !.todo = @ \ {l},
                  !.fn = IF l = "fn" THEN mem["fn"] ELSE @,
                  !.st = IF l = "state" THEN mem["state"] ELSE @,
                  !.s2 = IF l = "seq" THEN mem["seq"] ELSE @]
     IN ReaderUpdate(r, Decide(rd))

Next ==
  \/ \E op \in Ptrs : WriterEnter(op)
  \/ WriterFirst \/ WriterSecond \/ WriterExit
  \/ \E k \in 1 .. Len(buf) : Flush(k)
  \/ \E r \in Readers : SelectCall(r) \/ LoadS1(r) \/ \E l \in Locs : Load(r, l)

Spec == Init /\ [][Next]_vars

-----------------------------------------------------------------------------
(* select_path only ever calls fn(st) with the fn and the state of one      *)
(* policy (spec.md 4.6: holding fn and state under one seqlock means DP    *)
(* never observes a mismatched pair, such as a new state with the old fn). *)
SelectMatchedPair ==
  \A r \in Readers : readers[r].ret = "called" => readers[r].fn = readers[r].st

(* select_path calls only a policy that was bound at some point during the *)
(* call (spec.md 5: a reader that observes the seqlock even observes every *)
(* write the publisher made before the publish).                           *)
SelectSeesPublished ==
  \A r \in Readers : readers[r].ret = "called" => readers[r].fn \in seen[r]
==============================================================================
