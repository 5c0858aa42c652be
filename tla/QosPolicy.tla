------------------------------ MODULE QosPolicy ------------------------------
(***************************************************************************)
(* QoSPolicy (qos_policy.cpp): score_path, choose_best and the             *)
(* normalisations, called by a control-plane caller that records each      *)
(* choice with the observer, as spec.md section 7 describes the            *)
(* DecisionEvent.                                                          *)
(*                                                                         *)
(* The doubles of the code are exact rationals [n |-> num, d |-> den].     *)
(* Metrics and targets are small naturals, and so is loss, in units of     *)
(* the smallest loss step. Weights are naturals.                           *)
(***************************************************************************)
EXTENDS Naturals, Sequences, FiniteSets

CONSTANTS Ids,          \* path ids
          Classes,      \* QoS classes
          Configs,      \* the QoSConfig values the constructor or update_config install
          DefaultThresholds, \* QoSThresholds{}
          LatValues,    \* the latencies a candidate can have
          JitValues,    \* the jitters a candidate can have
          LossValues,   \* the losses a candidate can have
          MaxCands,     \* bound on the length of the candidate vector
          MaxCalls      \* bound on the caller's calls and on update_config

VARIABLES cfg,     \* cfg_: [thresholds, weights, dscp], thresholds and dscp
                   \* functions on the mapped classes
          ctr,     \* the observer's counters
          last,    \* ghost: inputs, scores and result of the last choose_best
          calls,   \* choose_best calls so far
          updates  \* update_config calls so far

vars == <<cfg, ctr, last, calls, updates>>

Obs == INSTANCE SimpleObserver

Rat(n, d) == [n |-> n, d |-> d]
Zero == Rat(0, 1)
One == Rat(1, 1)
Greater(a, b) == a.n * b.d > b.n * a.d

\* thresholds_by_class.find(clazz) in the configuration conf, or
\* QoSThresholds{} when unmapped.
ThresholdsOf(conf, c) ==
  IF c \in DOMAIN conf.thresholds THEN conf.thresholds[c] ELSE DefaultThresholds

\* QoSPolicy::dscp: dscp_by_class.find(clazz), Best Effort (0) when unmapped.
Dscp(c) == IF c \in DOMAIN cfg.dscp THEN cfg.dscp[c] ELSE 0

\* normalize_latency / normalize_jitter / normalize_loss: 0 for a zero
\* target, else 1 / (1 + max(0, v/t - 1)), which is 1 up to the target and
\* t/v above it.
Normalize(v, t) ==
  IF t = 0 THEN Zero
  ELSE IF v <= t THEN One
  ELSE Rat(t, v)

\* Mutant: the max(1e-9, ...) guard of the divisor is dropped.
BlendNoEpsilon(nl, nj, nn, w) ==
  LET sumw == w.latency + w.jitter + w.loss
      raw == Rat(w.latency * nl.n * nj.d * nn.d + w.jitter * nj.n * nl.d * nn.d
                   + w.loss * nn.n * nl.d * nj.d,
                 nl.d * nj.d * nn.d * sumw)
  IN IF Greater(raw, One) THEN One ELSE raw

\* Mutant: the weighted sum is not divided by the sum of the weights.
BlendUnnormalised(nl, nj, nn, w) ==
  LET raw == Rat(w.latency * nl.n * nj.d * nn.d + w.jitter * nj.n * nl.d * nn.d
                   + w.loss * nn.n * nl.d * nj.d,
                 nl.d * nj.d * nn.d)
  IN IF Greater(raw, One) THEN One ELSE raw

\* blend: the weighted mean over max(1e-9, sum of weights), clamped to
\* [0, 1]; with all weights zero the raw value is 0.
Blend(nl, nj, nn, w) ==
  LET sumw == w.latency + w.jitter + w.loss
      raw == Rat(w.latency * nl.n * nj.d * nn.d + w.jitter * nj.n * nl.d * nn.d
                   + w.loss * nn.n * nl.d * nj.d,
                 nl.d * nj.d * nn.d * sumw)
  IN IF sumw = 0 THEN Zero
     ELSE IF Greater(raw, One) THEN One
     ELSE raw

\* score_path under the configuration conf: the blended score and the
\* compliance flag.
ScorePath(pm, c, conf) ==
  LET th == ThresholdsOf(conf, c) IN
  [id |-> pm.id,
   score |-> Blend(Normalize(pm.lat, th.lat), Normalize(pm.jit, th.jit),
                   Normalize(pm.loss, th.loss), conf.weights),
   within |-> pm.lat <= th.lat /\ pm.jit <= th.jit /\ pm.loss <= th.loss]

\* One pass of choose_best: the index of the first candidate of greatest
\* score, skipping non-compliant ones when strict; 0 for none.
RECURSIVE BestPass(_, _, _, _, _)
BestPass(cands, c, strict, i, best) ==
  IF i > Len(cands) THEN best
  ELSE LET s == ScorePath(cands[i], c, cfg) IN
    IF strict /\ ~s.within THEN BestPass(cands, c, strict, i + 1, best)
    ELSE IF best = 0 \/ Greater(s.score, ScorePath(cands[best], c, cfg).score)
    THEN BestPass(cands, c, strict, i + 1, i)
    ELSE BestPass(cands, c, strict, i + 1, best)

\* Mutant: no fallback when nothing complies.
ChooseBestNoFallback(cands, c, req) == BestPass(cands, c, req, 1, 0)

\* choose_best: the compliant pass when required, then the fallback pass
\* over all candidates if it found nothing; 0 for std::nullopt.
ChooseBest(cands, c, req) ==
  LET first == BestPass(cands, c, req, 1, 0) IN
  IF first = 0 /\ req THEN BestPass(cands, c, FALSE, 1, 0) ELSE first

Metrics == [id : Ids, lat : LatValues, jit : JitValues, loss : LossValues]
Candidates == UNION {[1..k -> Metrics] : k \in 0..MaxCands}

Init ==
  /\ cfg \in Configs
  /\ ctr = Obs!NoCounters
  /\ last = [cands |-> <<>>, c |-> CHOOSE c \in Classes : TRUE, req |-> FALSE,
             conf |-> cfg, scored |-> <<>>, res |-> 0]
  /\ calls = 0
  /\ updates = 0

\* update_config: the control plane replaces the whole configuration.
UpdateConfig(conf) ==
  /\ updates < MaxCalls
  /\ cfg' = conf
  /\ updates' = updates + 1
  /\ UNCHANGED <<ctr, last, calls>>

\* The caller scores the candidates, chooses, and records the choice with
\* the scored list; an empty choice records nothing.
Choose ==
  /\ calls < MaxCalls
  /\ \E cands \in Candidates, c \in Classes, req \in BOOLEAN :
       LET res == ChooseBest(cands, c, req)
           scored == [k \in DOMAIN cands |-> ScorePath(cands[k], c, cfg)]
       IN /\ last' = [cands |-> cands, c |-> c, req |-> req, conf |-> cfg,
                      scored |-> scored, res |-> res]
          /\ ctr' = IF res = 0 THEN ctr
                    ELSE Obs!Record(ctr, Obs!DecisionEvent("qos_best", cands[res].id, scored))
  /\ calls' = calls + 1
  /\ UNCHANGED <<cfg, updates>>

Next == Choose \/ \E conf \in Configs : UpdateConfig(conf)

Spec == Init /\ [][Next]_vars

(***************************************************************************)
(* Properties.                                                             *)
(***************************************************************************)

\* A score is a rational in [0, 1] ("range typically [0,1]", qos_policy.hpp).
IsScore(r) == r.n \in Nat /\ r.d \in Nat \ {0} /\ r.n <= r.d

TypeOK ==
  /\ cfg \in Configs
  /\ \A c \in Classes : Dscp(c) \in 0..63
  /\ ctr \in Obs!Counters
  /\ last.res \in 0..Len(last.cands)
  /\ \A k \in DOMAIN last.scored :
       /\ last.scored[k].id \in Ids
       /\ IsScore(last.scored[k].score)
       /\ last.scored[k].within \in BOOLEAN
  /\ calls \in 0..MaxCalls /\ updates \in 0..MaxCalls

\* The candidates choose_best picks among, by their scores: the compliant
\* ones when compliance is required and some comply, all of them otherwise.
Eligible(scored, req) ==
  LET ok == {k \in DOMAIN scored : scored[k].within}
  IN IF req /\ ok # {} THEN ok ELSE DOMAIN scored

\* The contract of choose_best (qos_policy.hpp): the first eligible
\* candidate of greatest score, none only for an empty vector.
ChooseBestRef(scored, req) ==
  LET E == Eligible(scored, req)
      top == {k \in E : \A j \in E : ~Greater(scored[j].score, scored[k].score)}
  IN IF E = {} THEN 0 ELSE CHOOSE k \in top : \A j \in top : k <= j

\* choose_best's two passes return the first eligible candidate of greatest
\* score, and fall back to the best overall rather than return nothing.
ChooseBestMatchesSpec == last.res = ChooseBestRef(last.scored, last.req)

\* A path that meets every threshold of its class scores at least as high
\* as any path that does not, so the choice without the compliance
\* requirement still picks a compliant path when there is one
\* (normalize_*: "treat as non-compliant" a zero target). Weights are
\* positive here: a zero weight makes its metric irrelevant to the score.
CompliantScoresHighest ==
  /\ \A m \in DOMAIN last.conf.weights : last.conf.weights[m] > 0
  /\ \E k \in DOMAIN last.scored : last.scored[k].within
  => last.scored[last.res].within
=============================================================================
