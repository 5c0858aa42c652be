----------------------------- MODULE MetricsSlot -----------------------------
(***************************************************************************)
(* The seqlock of MetricsSlot (src/include/alpha/routing/path_selection.hpp)*)
(* One CP thread runs cp::update_metrics, any number of DP threads run     *)
(* dp::load_metrics.  seq is a u32 (here SeqBits wide); even means stable. *)
(*                                                                         *)
(* The PathMetrics payload is a plain struct: its assignment and its copy  *)
(* are a store or a load per field, so the model writes and reads it one   *)
(* field at a time and a reader can copy fields of two different updates.  *)
(* The k-th update writes Payload(k) (every field stamped k), so a torn    *)
(* copy is one whose fields differ.                                        *)
(***************************************************************************)
EXTENDS Naturals, FiniteSets

CONSTANTS
  Readers,     \* DP threads
  NumFields,   \* fields of PathMetrics the model tells apart
  MaxUpdates,  \* bound on the number of update_metrics calls
  SeqBits      \* width of seq

ASSUME NumFields \in 1..4 /\ MaxUpdates \in Nat /\ SeqBits \in 2..30

Fields == 1 .. NumFields
Versions == 0 .. MaxUpdates
Payload(k) == [f \in Fields |-> k]   \* what update k stores; 0 is PathMetrics{}
SeqMod == 2^SeqBits
Seqs == 0 .. SeqMod - 1

\* for (int i = 0; i < 4; ++i)
MaxTries == 4

VARIABLES
  seq,       \* s.seq
  metrics,   \* s.metrics
  writer,    \* the CP call in progress: pc, start, next field to store
  readers,   \* each DP call in progress: pc, i, s1, the copy, the result
  version,   \* ghost: number of updates published so far
  overlap    \* ghost: per reader, a write was under way during its call

vars == <<seq, metrics, writer, readers, version, overlap>>

Or1(s) == IF s % 2 = 0 THEN s + 1 ELSE s   \* s | 1u

Init ==
  /\ seq = 0
  /\ metrics = Payload(0)
  /\ writer = [pc |-> "idle", start |-> 0, f |-> 1]
  /\ readers = [r \in Readers |->
                 [pc |-> "idle", i |-> 0, s1 |-> 0, f |-> 1, snap |-> Payload(0),
                  ver |-> 0, out |-> Payload(0), ret |-> "none"]]
  /\ version = 0
  /\ overlap = [r \in Readers |-> FALSE]

-----------------------------------------------------------------------------
(* cp::update_metrics(s, m)                                                *)

\* Mutant: the odd store is missing, the payload is written under even seq.
WriterEnterNoOdd ==
  /\ writer.pc = "idle"
  /\ version < MaxUpdates
  /\ writer' = [pc |-> "payload", start |-> seq, f |-> 1]
  /\ overlap' = [r \in Readers |-> overlap[r] \/ readers[r].pc # "idle"]
  /\ UNCHANGED <<seq, metrics, readers, version>>

\* start = seq (relaxed); seq.store(start | 1u, relaxed)
WriterEnter ==
  /\ writer.pc = "idle"
  /\ version < MaxUpdates
  /\ writer' = [pc |-> "payload", start |-> seq, f |-> 1]
  /\ seq' = Or1(seq) % SeqMod
  /\ overlap' = [r \in Readers |-> overlap[r] \/ readers[r].pc # "idle"]
  /\ UNCHANGED <<metrics, readers, version>>

\* s.metrics = m, one field per step
WriterStoreField ==
  /\ writer.pc = "payload"
  /\ metrics' = [metrics EXCEPT ![writer.f] = version + 1]
  /\ writer' = [writer EXCEPT !.f = @ + 1,
                              !.pc = IF writer.f = NumFields THEN "exit" ELSE @]
  /\ UNCHANGED <<seq, readers, version, overlap>>

\* Mutant: the exit stores start | 1 again and leaves seq odd.
WriterExitStaysOdd ==
  /\ writer.pc = "exit"
  /\ seq' = Or1(writer.start) % SeqMod
  /\ writer' = [writer EXCEPT !.pc = "idle"]
  /\ version' = version + 1
  /\ UNCHANGED <<metrics, readers, overlap>>

\* seq.store((start | 1u) + 1u, release)
WriterExit ==
  /\ writer.pc = "exit"
  /\ seq' = (Or1(writer.start) + 1) % SeqMod
  /\ writer' = [writer EXCEPT !.pc = "idle"]
  /\ version' = version + 1
  /\ UNCHANGED <<metrics, readers, overlap>>

-----------------------------------------------------------------------------
(* dp::load_metrics(s, out)                                                *)

ReadCall(r) ==
  /\ readers[r].pc = "idle"
  /\ readers' = [readers EXCEPT ![r] = [@ EXCEPT !.pc = "loop", !.i = 0,
                                                 !.ret = "none"]]
  /\ overlap' = [overlap EXCEPT ![r] = writer.pc # "idle"]
  /\ UNCHANGED <<seq, metrics, writer, version>>

\* Mutant: one try more than the loop's i < 4.
RetryOneMore(rd) ==
  IF rd.i = MaxTries
  THEN [rd EXCEPT !.pc = "idle", !.ret = "fail"]
  ELSE [rd EXCEPT !.pc = "loop", !.i = @ + 1]

\* The next iteration, or return false after MaxTries.
Retry(rd) ==
  IF rd.i + 1 = MaxTries
  THEN [rd EXCEPT !.pc = "idle", !.ret = "fail"]
  ELSE [rd EXCEPT !.pc = "loop", !.i = @ + 1]

\* Mutant: the odd branch repeats the iteration without counting it.
LoadS1OddUncounted(r) ==
  /\ readers[r].pc = "loop"
  /\ seq % 2 = 1
  /\ UNCHANGED vars

\* s1 = seq.load(acquire); if (s1 & 1u) continue;
LoadS1Odd(r) ==
  /\ readers[r].pc = "loop"
  /\ seq % 2 = 1
  /\ readers' = [readers EXCEPT ![r] = Retry(@)]
  /\ UNCHANGED <<seq, metrics, writer, version, overlap>>

LoadS1Even(r) ==
  /\ readers[r].pc = "loop"
  /\ seq % 2 = 0
  /\ readers' = [readers EXCEPT ![r] = [@ EXCEPT !.pc = "copy", !.s1 = seq,
                                                 !.f = 1, !.ver = version]]
  /\ UNCHANGED <<seq, metrics, writer, version, overlap>>

\* const PathMetrics snap = s.metrics, one field per step
CopyField(r) ==
  /\ readers[r].pc = "copy"
  /\ readers' = [readers EXCEPT ![r] =
                   [@ EXCEPT !.snap[@.f] = metrics[readers[r].f],
                             !.f = @ + 1,
                             !.pc = IF readers[r].f = NumFields THEN "s2" ELSE @]]
  /\ UNCHANGED <<seq, metrics, writer, version, overlap>>

\* Mutant: s1 == s2 dropped from the recheck, any even s2 is accepted.
AcceptsEvenOnly(s1, s2) == s2 % 2 = 0

\* The recheck: s1 == s2 && (s2 % 2u) == 0u
Accepts(s1, s2) == s1 = s2 /\ s2 % 2 = 0

\* s2 = seq.load(acquire);
\* if (s1 == s2 && (s2 % 2u) == 0u) { out = snap; return true; }
LoadS2(r) ==
  /\ readers[r].pc = "s2"
  /\ LET rd == readers[r] IN
       readers' = [readers EXCEPT ![r] =
                    IF Accepts(rd.s1, seq)
                    THEN [rd EXCEPT !.pc = "idle", !.out = rd.snap, !.ret = "ok"]
                    ELSE Retry(rd)]
  /\ UNCHANGED <<seq, metrics, writer, version, overlap>>

Next ==
  \/ WriterEnter \/ WriterStoreField \/ WriterExit
  \/ \E r \in Readers :
       ReadCall(r) \/ LoadS1Odd(r) \/ LoadS1Even(r) \/ CopyField(r) \/ LoadS2(r)

ReaderStep(r) ==
  LoadS1Odd(r) \/ LoadS1Even(r) \/ CopyField(r) \/ LoadS2(r)

(* DP threads run to completion once called.  The CP writer gets no        *)
(* fairness: it may be preempted between its stores for any time.         *)
Spec == Init /\ [][Next]_vars /\ \A r \in Readers : WF_vars(ReaderStep(r))

-----------------------------------------------------------------------------
TypeOK ==
  /\ seq \in Seqs
  /\ metrics \in [Fields -> Versions]
  /\ writer \in [pc : {"idle", "payload", "exit"}, start : Seqs, f : 1 .. NumFields + 1]
  /\ readers \in [Readers -> [pc : {"idle", "loop", "copy", "s2"}, i : 0 .. MaxTries - 1,
                               s1 : Seqs, f : 1 .. NumFields + 1,
                               snap : [Fields -> Versions], ver : Versions,
                               out : [Fields -> Versions], ret : {"none", "ok", "fail"}]]
  /\ version \in Versions
  /\ overlap \in [Readers -> BOOLEAN]

(* A load_metrics that returns true returns, whole and untorn, the payload *)
(* that was published when it loaded s1 (spec.md 8: the payload equals the *)
(* writer's committed value at some point between two releases).          *)
ReadReturnsCommitted ==
  \A r \in Readers :
    readers[r].ret = "ok" => readers[r].out = Payload(readers[r].ver)

(* load_metrics returns false only if an update_metrics call was under way *)
(* during it: with no write in progress a read never fails.               *)
NoSpuriousFailure ==
  \A r \in Readers : readers[r].ret = "fail" => overlap[r]

(* Every load_metrics call returns, even while the writer is stalled with  *)
(* seq odd: readers never spin unbounded.                                  *)
ReadTerminates ==
  \A r \in Readers : (readers[r].pc # "idle") ~> (readers[r].pc = "idle")

=============================================================================
