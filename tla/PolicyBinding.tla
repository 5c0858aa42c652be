---------------------------- MODULE PolicyBinding ----------------------------
(***************************************************************************)
(* PolicyBinding (src/include/alpha/routing/policy_binding.hpp): a seqlock *)
(* over the pair (fn, state).  The CP thread publishes a policy            *)
(* (cp::publish_policy) or clears the binding (cp::clear_policy); DP       *)
(* threads call dp::select_path, which takes dp::snapshot_binding and      *)
(* calls fn(state, ...).  fn and state are atomics accessed relaxed, seq  *)
(* with acquire/release; every access is one step.                         *)
(*                                                                         *)
(* A policy object P is a model value: state = P stands for &P and fn = P  *)
(* for &detail::choose_thunk<P>.  A call fn(state) with fn # state would   *)
(* run P's choose on an object of another type.                            *)
(***************************************************************************)
EXTENDS Naturals

CONSTANTS
  Policies,   \* the policy objects CP may publish
  Null,       \* nullptr
  Readers,    \* DP threads
  MaxOps,     \* bound on the number of publish/clear calls
  SeqBits     \* width of seq

ASSUME Null \notin Policies /\ MaxOps \in Nat /\ SeqBits \in 2..30

Ptrs == Policies \cup {Null}
SeqMod == 2^SeqBits
Seqs == 0 .. SeqMod - 1
MaxTries == 4                              \* for (int i = 0; i < 4; ++i)
Or1(s) == IF s % 2 = 0 THEN s + 1 ELSE s   \* s | 1u

VARIABLES
  seq, fn, state,   \* the binding b
  writer,    \* the CP call in progress: pc, op (a policy, or Null for clear), start
  readers,   \* each DP call in progress
  ops,       \* ghost: publish/clear calls started
  bound,     \* ghost: the policy the last completed call bound (Null: unbound)
  seen       \* ghost: per reader, every value of bound during its call

vars == <<seq, fn, state, writer, readers, ops, bound, seen>>

Init ==
  /\ seq = 0 /\ fn = Null /\ state = Null
  /\ writer = [pc |-> "idle", op |-> Null, start |-> 0]
  /\ readers = [r \in Readers |->
                  [pc |-> "idle", i |-> 0, s1 |-> 0, fn |-> Null, st |-> Null,
                   ret |-> "none", overlap |-> FALSE]]
  /\ ops = 0
  /\ bound = Null
  /\ seen = [r \in Readers |-> {}]

-----------------------------------------------------------------------------
(* CP: publish_policy(b, P) and clear_policy(b)                            *)

\* start = seq (relaxed); seq.store(start | 1u, relaxed)
WriterEnter(op) ==
  /\ writer.pc = "idle"
  /\ ops < MaxOps
  /\ writer' = [pc |-> "first", op |-> op, start |-> seq]
  /\ seq' = Or1(seq) % SeqMod
  /\ ops' = ops + 1
  /\ readers' = [r \in Readers |->
                   IF readers[r].pc = "idle" THEN readers[r]
                   ELSE [readers[r] EXCEPT !.overlap = TRUE]]
  /\ UNCHANGED <<fn, state, bound, seen>>

\* publish: b.state.store(&policy, relaxed)
PublishStoreState ==
  /\ writer.pc = "first" /\ writer.op # Null
  /\ state' = writer.op
  /\ writer' = [writer EXCEPT !.pc = "second"]
  /\ UNCHANGED <<seq, fn, readers, ops, bound, seen>>

\* Mutant: the fn store is forgotten.
PublishStoreFnForgotten ==
  /\ writer.pc = "second" /\ writer.op # Null
  /\ writer' = [writer EXCEPT !.pc = "exit"]
  /\ UNCHANGED <<seq, fn, state, readers, ops, bound, seen>>

\* publish: b.fn.store(&detail::choose_thunk<Policy>, relaxed)
PublishStoreFn ==
  /\ writer.pc = "second" /\ writer.op # Null
  /\ fn' = writer.op
  /\ writer' = [writer EXCEPT !.pc = "exit"]
  /\ UNCHANGED <<seq, state, readers, ops, bound, seen>>

\* clear: b.fn.store(nullptr, relaxed)
ClearStoreFn ==
  /\ writer.pc = "first" /\ writer.op = Null
  /\ fn' = Null
  /\ writer' = [writer EXCEPT !.pc = "second"]
  /\ UNCHANGED <<seq, state, readers, ops, bound, seen>>

\* clear: b.state.store(nullptr, relaxed)
ClearStoreState ==
  /\ writer.pc = "second" /\ writer.op = Null
  /\ state' = Null
  /\ writer' = [writer EXCEPT !.pc = "exit"]
  /\ UNCHANGED <<seq, fn, readers, ops, bound, seen>>

\* seq.store((start | 1u) + 1u, release)
WriterExit ==
  /\ writer.pc = "exit"
  /\ seq' = (Or1(writer.start) + 1) % SeqMod
  /\ writer' = [writer EXCEPT !.pc = "idle"]
  /\ bound' = writer.op
  /\ seen' = [r \in Readers |->
                IF readers[r].pc = "idle" THEN seen[r] ELSE seen[r] \cup {writer.op}]
  /\ UNCHANGED <<fn, state, readers, ops>>

-----------------------------------------------------------------------------
(* DP: select_path(b, cands, pkt) = snapshot_binding, then fn(st, ...)     *)

SelectCall(r) ==
  /\ readers[r].pc = "idle"
  /\ readers' = [readers EXCEPT ![r] = [@ EXCEPT !.pc = "loop", !.i = 0,
                    !.ret = "none", !.overlap = writer.pc # "idle"]]
  /\ seen' = [seen EXCEPT ![r] = {bound}]
  /\ UNCHANGED <<seq, fn, state, writer, ops, bound>>

\* Mutant: one try more than the loop's i < 4.
RetryOneMore(rd) ==
  IF rd.i = MaxTries
  THEN [rd EXCEPT !.pc = "idle", !.fn = Null, !.st = Null, !.ret = "nopath"]
  ELSE [rd EXCEPT !.pc = "loop", !.i = @ + 1]

\* Next iteration; after MaxTries: out_fn = out_state = nullptr, return false,
\* and select_path returns 0.
Retry(rd) ==
  IF rd.i + 1 = MaxTries
  THEN [rd EXCEPT !.pc = "idle", !.fn = Null, !.st = Null, !.ret = "nopath"]
  ELSE [rd EXCEPT !.pc = "loop", !.i = @ + 1]

ReaderUpdate(r, rd) ==
  /\ readers' = [readers EXCEPT ![r] = rd]
  /\ UNCHANGED <<seq, fn, state, writer, ops, bound, seen>>

\* s1 = b.seq.load(acquire); if (s1 & 1u) continue;
LoadS1(r) ==
  /\ readers[r].pc = "loop"
  /\ ReaderUpdate(r, IF seq % 2 = 1 THEN Retry(readers[r])
                     ELSE [readers[r] EXCEPT !.pc = "fn", !.s1 = seq])

\* fn = b.fn.load(relaxed)
LoadFn(r) ==
  /\ readers[r].pc = "fn"
  /\ ReaderUpdate(r, [readers[r] EXCEPT !.pc = "state", !.fn = fn])

\* st = b.state.load(relaxed)
LoadState(r) ==
  /\ readers[r].pc = "state"
  /\ ReaderUpdate(r, [readers[r] EXCEPT !.pc = "s2", !.st = state])

\* Mutant: s1 == s2 dropped from the recheck.
AcceptsEvenOnly(s1, s2) == s2 % 2 = 0

\* The recheck: s1 == s2 && (s2 % 2u) == 0u
Accepts(s1, s2) == s1 = s2 /\ s2 % 2 = 0

\* s2 = b.seq.load(acquire); on acceptance return fn && st, and
\* select_path returns 0 if either is null, fn(st, cands, pkt) otherwise.
LoadS2(r) ==
  /\ readers[r].pc = "s2"
  /\ LET rd == readers[r] IN
       ReaderUpdate(r,
         IF ~Accepts(rd.s1, seq) THEN Retry(rd)
         ELSE IF rd.fn # Null /\ rd.st # Null
              THEN [rd EXCEPT !.pc = "idle", !.ret = "called"]
              ELSE [rd EXCEPT !.pc = "idle", !.ret = "nopath"])

ReaderStep(r) == LoadS1(r) \/ LoadFn(r) \/ LoadState(r) \/ LoadS2(r)

Next ==
  \/ \E op \in Ptrs : WriterEnter(op)
  \/ PublishStoreState \/ PublishStoreFn \/ ClearStoreFn \/ ClearStoreState
  \/ WriterExit
  \/ \E r \in Readers : SelectCall(r) \/ ReaderStep(r)

\* DP threads run their call to completion; CP may stall between stores.
Spec == Init /\ [][Next]_vars /\ \A r \in Readers : WF_vars(ReaderStep(r))

-----------------------------------------------------------------------------
TypeOK ==
  /\ seq \in Seqs /\ fn \in Ptrs /\ state \in Ptrs
  /\ writer \in [pc : {"idle", "first", "second", "exit"}, op : Ptrs, start : Seqs]
  /\ readers \in [Readers -> [pc : {"idle", "loop", "fn", "state", "s2"},
                              i : 0 .. MaxTries - 1, s1 : Seqs, fn : Ptrs, st : Ptrs,
                              ret : {"none", "called", "nopath"}, overlap : BOOLEAN]]
  /\ ops \in 0 .. MaxOps /\ bound \in Ptrs
  /\ seen \in [Readers -> SUBSET Ptrs]

(* select_path only ever calls fn(st) with the fn and the state of one      *)
(* policy, and that policy was the bound one at some point during the call *)
(* (spec.md 4.6: DP never observes a mismatched pair).                     *)
SelectCoherent ==
  \A r \in Readers :
    readers[r].ret = "called" =>
      /\ readers[r].fn = readers[r].st
      /\ readers[r].fn \in seen[r]

(* select_path returns 0 only if the binding was unbound at some point of  *)
(* the call or a publish/clear overlapped it: no spurious no-path          *)
(* (spec.md 8).                                                            *)
NoSpuriousNoPath ==
  \A r \in Readers :
    readers[r].ret = "nopath" => Null \in seen[r] \/ readers[r].overlap

(* Spec.md 8, scenario 6: while a policy is bound, select_path never       *)
(* returns 0, also across a hot swap from one policy to another.           *)
NeverNoPathWhileBound ==
  \A r \in Readers : readers[r].ret = "nopath" => Null \in seen[r]

=============================================================================
