---------------------------- MODULE SimpleObserver ----------------------------
(***************************************************************************)
(* SimpleObserver (observability.cpp, which follows qos_policy.cpp in the  *)
(* source file): record() updates three counters under a mutex, so a      *)
(* record is one atomic step of its caller. The printf line is left out.   *)
(* A DecisionEvent keeps the fields record() reads: its reason, its       *)
(* selected path id and its scored list, a sequence of [id, within]        *)
(* records; the id, class, score and strict flag only reach the printf.    *)
(***************************************************************************)
EXTENDS Naturals, Sequences

Counters == [decisions : Nat, failover_triggers : Nat, degraded_choices : Nat]

\* Counters ctr_ as value-initialised.
NoCounters == [decisions |-> 0, failover_triggers |-> 0, degraded_choices |-> 0]

\* e.reason.find("failover") != npos. The reasons the program emits are the
\* four literals of FailoverPolicy::evaluate ("current_down",
\* "better_candidate_with_margin", "no_current_score", "return_to_primary")
\* and the QoS caller's "qos_best"; the predicate is the set of those that
\* contain the substring "failover", which is none of them.
MentionsFailover(reason) == reason \in {}

\* The loop over e.scored: some entry with the selected id is out of
\* thresholds (it stops at the first such entry).
Degraded(selected, scored) ==
  \E k \in DOMAIN scored : ~scored[k].within /\ scored[k].id = selected

DecisionEvent(reason, selected, scored) ==
  [reason |-> reason, selected_path |-> selected, scored |-> scored]

\* SimpleObserver::record(e).
Record(ctr, e) ==
  [decisions |-> ctr.decisions + 1,
   failover_triggers |-> ctr.failover_triggers
                           + (IF MentionsFailover(e.reason) THEN 1 ELSE 0),
   degraded_choices |-> ctr.degraded_choices
                           + (IF e.scored # <<>> /\ Degraded(e.selected_path, e.scored)
                              THEN 1 ELSE 0)]
=============================================================================
