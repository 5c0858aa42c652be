---------------------------- MODULE FailoverPolicy ----------------------------
(***************************************************************************)
(* FailoverPolicy::evaluate (failover_policy.cpp), called repeatedly by a  *)
(* control-plane caller. The caller keeps the current path, applies every  *)
(* decision, and reports it to the observer (SimpleObserver::record). Its  *)
(* environment changes path health (stamping last_change with the current  *)
(* time) and QoS scores, CP replaces the configuration (update_config),   *)
(* and time advances.                                                      *)
(*                                                                         *)
(* Paths are 1..NPaths. The scores vector lists them in that order, which  *)
(* is the order the first-maximum scan of evaluate sees. A QoS score (a    *)
(* double in [0,1]) is a small natural. improve_pct_to_switch is the       *)
(* percentage ImprovePct. Time is in units of the hold timers, and time 0  *)
(* is the steady_clock epoch that allow_switch reads as "never changed".   *)
(***************************************************************************)
EXTENDS Integers, FiniteSets

CONSTANTS NPaths,          \* number of candidate paths
          Scores,          \* the QoS scores a path can have
          Primary,         \* the constructor's config: primary_path_id (0: empty)
          ReturnToPrimary, \*   return_to_primary
          ImprovePct,      \*   improve_pct_to_switch, in percent
          MinHold,         \*   min_hold_ms
          RecoveryHold,    \*   recovery_hold_ms
          UpdateConfigs,   \* the configurations update_config may install
          MaxTime,         \* bound on the clock
          MaxChanges       \* bound on health, score and configuration changes

Paths == 1..NPaths
NoScore == -1              \* the path has no entry in the scores vector
Missing == "Missing"       \* the path has no entry in the health vector
HealthStates == {"Up", "Degraded", "Down"}
Reasons == {"current_down", "better_candidate_with_margin",
            "no_current_score", "return_to_primary"}

\* FailoverPolicy(FailoverConfig cfg): the configuration it is built with.
CtorConfig == [primary |-> Primary, returnToPrimary |-> ReturnToPrimary,
               improvePct |-> ImprovePct, minHold |-> MinHold,
               recoveryHold |-> RecoveryHold]

VARIABLES cfg,        \* FailoverPolicy::cfg_
          now,        \* the time passed to evaluate
          health,     \* health[p]: PathHealth::state, or Missing
          lastChange, \* lastChange[p]: PathHealth::last_change
          score,      \* score[p]: QoSScore::score, or NoScore
          current,    \* the caller's current path
          changes,    \* input changes so far
          obs,        \* SimpleObserver::ctr_
          lastReason, \* ghost: reason of the last step ("keep", "input", "tick")
          left,       \* ghost: paths switched away from since the last input change
          switchedAt  \* ghost: time of the last switch (-1: never)

vars == <<cfg, now, health, lastChange, score, current, changes, obs,
          lastReason, left, switchedAt>>

(***************************************************************************)
(* Helpers of evaluate.                                                    *)
(***************************************************************************)

\* state_of: the path's state, Down when it has no health entry.
StateOf(p) == IF health[p] = Missing THEN "Down" ELSE health[p]

\* The find_if over health: last_change, or the epoch when there is no entry.
LastChangeOf(p) == IF health[p] = Missing THEN 0 ELSE lastChange[p]

\* allow_switch: a zero time point always allows; else now - last >= hold.
AllowSwitch(last, hold) == last = 0 \/ now - last >= hold

\* find_score returned a pointer.
HasScore(p) == score[p] # NoScore

\* Mutant: the best-candidate scan does not skip Down paths.
RECURSIVE BestKeepsDown(_, _)
BestKeepsDown(i, best) ==
  IF i > NPaths THEN best
  ELSE IF ~HasScore(i) THEN BestKeepsDown(i + 1, best)
  ELSE IF best = 0 \/ score[i] > score[best] THEN BestKeepsDown(i + 1, i)
  ELSE BestKeepsDown(i + 1, best)

\* The best healthy candidate: the first path of maximum score among the
\* scored paths that are not Down; 0 when there is none (best == nullptr).
RECURSIVE Best(_, _)
Best(i, best) ==
  IF i > NPaths THEN best
  ELSE IF ~HasScore(i) \/ StateOf(i) = "Down" THEN Best(i + 1, best)
  ELSE IF best = 0 \/ score[i] > score[best] THEN Best(i + 1, i)
  ELSE Best(i + 1, best)

\* Mutant: the margin is left out of the stickiness test.
ImprovesNoMargin(b, c) == score[b] >= score[c]

\* best->score >= cur_sc->score * (1.0 + improve_pct_to_switch)
Improves(b, c) == score[b] * 100 >= score[c] * (100 + cfg.improvePct)

\* The return-to-primary test of evaluate.
ReturnsToPrimary(cur, b) ==
  /\ cfg.returnToPrimary /\ cfg.primary # 0 /\ cfg.primary # cur
  /\ HasScore(cfg.primary) /\ StateOf(cfg.primary) # "Down"
  /\ score[cfg.primary] >= score[b]
  /\ AllowSwitch(LastChangeOf(cfg.primary), cfg.recoveryHold)

Keep == [next |-> 0, reason |-> "keep"]
Decide(p, r) == [next |-> p, reason |-> r]

\* Mutant: the early return for "no healthy candidate" is dropped.
EvaluateNoEmptyCheck(cur) ==
  LET b == Best(1, 0) IN
  IF StateOf(cur) = "Down" THEN Decide(b, "current_down")
  ELSE IF ~HasScore(cur) THEN Decide(b, "no_current_score")
  ELSE IF b # cur /\ Improves(b, cur)
          /\ AllowSwitch(LastChangeOf(cur), cfg.minHold)
       THEN Decide(b, "better_candidate_with_margin")
  ELSE IF b # 0 /\ ReturnsToPrimary(cur, b) THEN Decide(cfg.primary, "return_to_primary")
  ELSE Keep

\* Mutant: a Down current path is only left through the stickiness test.
EvaluateStickyWhenDown(cur) ==
  LET b == Best(1, 0) IN
  IF b = 0 THEN Keep
  ELSE IF ~HasScore(cur) THEN Decide(b, "no_current_score")
  ELSE IF b # cur /\ Improves(b, cur)
          /\ AllowSwitch(LastChangeOf(cur), cfg.minHold)
       THEN Decide(b, "better_candidate_with_margin")
  ELSE IF ReturnsToPrimary(cur, b) THEN Decide(cfg.primary, "return_to_primary")
  ELSE Keep

\* FailoverPolicy::evaluate: a decision, or Keep for std::nullopt.
Evaluate(cur) ==
  LET b == Best(1, 0) IN
  IF b = 0 THEN Keep
  ELSE IF StateOf(cur) = "Down" THEN Decide(b, "current_down")
  ELSE IF ~HasScore(cur) THEN Decide(b, "no_current_score")
  ELSE IF b # cur /\ Improves(b, cur)
          /\ AllowSwitch(LastChangeOf(cur), cfg.minHold)
       THEN Decide(b, "better_candidate_with_margin")
  ELSE IF ReturnsToPrimary(cur, b) THEN Decide(cfg.primary, "return_to_primary")
  ELSE Keep

\* The observer the caller reports decisions to; an event of evaluate carries
\* no scored list.
Obs == INSTANCE SimpleObserver

(***************************************************************************)
(* The caller and its environment.                                         *)
(***************************************************************************)

Init ==
  /\ cfg = CtorConfig
  /\ now = 1
  /\ health = [p \in Paths |-> "Up"]
  /\ lastChange = [p \in Paths |-> 0]
  /\ score \in [Paths -> Scores \cup {NoScore}]
  /\ current \in Paths
  /\ changes = 0
  /\ obs = Obs!NoCounters
  /\ lastReason = "input"
  /\ left = {}
  /\ switchedAt = -1

\* The caller evaluates and applies the decision.
CallEvaluate ==
  LET d == Evaluate(current) IN
  /\ lastReason' = d.reason
  /\ IF d.reason = "keep"
     THEN UNCHANGED <<current, obs, left, switchedAt>>
     ELSE /\ current' = d.next
          /\ obs' = Obs!Record(obs, Obs!DecisionEvent(d.reason, d.next, <<>>))
          /\ left' = left \cup {current}
          /\ switchedAt' = now
  /\ UNCHANGED <<cfg, now, health, lastChange, score, changes>>

Tick ==
  /\ now < MaxTime
  /\ now' = now + 1
  /\ lastReason' = "tick"
  /\ UNCHANGED <<cfg, health, lastChange, score, current, changes, obs, left,
                 switchedAt>>

\* Health ingestion: a new state for p, stamped now.
ChangeHealth(p, h) ==
  /\ changes < MaxChanges
  /\ h # health[p]
  /\ health' = [health EXCEPT ![p] = h]
  /\ lastChange' = [lastChange EXCEPT ![p] = now]
  /\ changes' = changes + 1
  /\ lastReason' = "input"
  /\ left' = {}
  /\ UNCHANGED <<cfg, now, score, current, obs, switchedAt>>

\* A new QoS score for p.
ChangeScore(p, s) ==
  /\ changes < MaxChanges
  /\ s # score[p]
  /\ score' = [score EXCEPT ![p] = s]
  /\ changes' = changes + 1
  /\ lastReason' = "input"
  /\ left' = {}
  /\ UNCHANGED <<cfg, now, health, lastChange, current, obs, switchedAt>>

\* update_config(c): cfg_ = std::move(c), a plain replacement; evaluate reads
\* the new configuration from its next call on.
UpdateConfig(c) ==
  /\ changes < MaxChanges
  /\ c # cfg
  /\ cfg' = c
  /\ changes' = changes + 1
  /\ lastReason' = "input"
  /\ left' = {}
  /\ UNCHANGED <<now, health, lastChange, score, current, obs, switchedAt>>

Next ==
  \/ CallEvaluate
  \/ Tick
  \/ \E p \in Paths, h \in HealthStates \cup {Missing} : ChangeHealth(p, h)
  \/ \E p \in Paths, s \in Scores \cup {NoScore} : ChangeScore(p, s)
  \/ \E c \in UpdateConfigs : UpdateConfig(c)

Spec == Init /\ [][Next]_vars

(***************************************************************************)
(* Properties.                                                             *)
(***************************************************************************)

TypeOK ==
  /\ cfg \in UpdateConfigs \cup {CtorConfig}
  /\ now \in 1..MaxTime
  /\ health \in [Paths -> HealthStates \cup {Missing}]
  /\ lastChange \in [Paths -> 0..MaxTime]
  /\ score \in [Paths -> Scores \cup {NoScore}]
  /\ current \in Paths
  /\ changes \in 0..MaxChanges
  /\ obs \in Obs!Counters
  /\ left \subseteq Paths

IsEval == lastReason' \in Reasons \cup {"keep"}

\* A switch made by evaluate goes to another path, and never to a path that
\* is Down or has no health entry (the Down skip of the best-candidate scan
\* and the primary's health test).
SwitchTargetsLive ==
  [][IsEval /\ current' # current => StateOf(current') # "Down"]_vars

\* When the current path is Down (or unknown to health) and some scored path
\* is not, evaluate leaves the current path at once, whatever the hold
\* timers and margins say ("current_down").
LeavesDownPath ==
  [][IsEval /\ StateOf(current) = "Down"
     /\ (\E p \in Paths : HasScore(p) /\ StateOf(p) # "Down")
     => current' # current]_vars

\* Hysteresis: while health and scores stay the same, evaluate never
\* switches back to a path it switched away from (no flapping from the
\* stickiness margin, the return to primary, or time passing).
NoFlapWithoutChange ==
  [][IsEval /\ current' # current => current' \notin left]_vars

\* min_hold_ms, "dwell to prevent flapping" (constants.hpp): a switch for a
\* better candidate comes at least min_hold_ms after the previous switch.
MinHoldBetweenSwitches ==
  [][lastReason' = "better_candidate_with_margin" =>
       switchedAt = -1 \/ now - switchedAt >= cfg.minHold]_vars

\* The observer's failover_triggers counts every switch decision recorded
\* from the failover policy.
FailoverTriggersCounted == obs.failover_triggers = obs.decisions
=============================================================================
