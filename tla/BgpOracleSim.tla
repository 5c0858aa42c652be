----------------------------- MODULE BgpOracleSim -----------------------------
(***************************************************************************)
(* SimulatedBgpOracle::serving_pop (bgp_oracle_sim.cpp): the best route of *)
(* a service by local-pref (higher wins), AS-path length, MED, IGP cost    *)
(* (lower wins), then the lexicographically smaller pop_id. A route is a   *)
(* record [lp, as, med, igp, pop]; PoP ids are naturals ordered as the     *)
(* strings they stand for. The route map is a function from services to   *)
(* route vectors.                                                          *)
(***************************************************************************)
EXTENDS Naturals, Sequences, FiniteSetsExt

CONSTANTS Services,    \* service ids
          RouteTables, \* the route maps load_routes can install
          MaxLoads     \* bound on load_routes calls

VARIABLES routes_,  \* SimRouteMap routes_
          answer,   \* ghost: the last query and its answer
          loads     \* load_routes calls so far

vars == <<routes_, answer, loads>>

NoPop == 0   \* std::nullopt

\* Mutant: a worse local-pref does not end the comparison of the route.
PreferredNoLpContinue(r, b) ==
  IF r.lp > b.lp THEN TRUE
  ELSE IF r.as # b.as THEN r.as < b.as
  ELSE IF r.med # b.med THEN r.med < b.med
  ELSE IF r.igp # b.igp THEN r.igp < b.igp
  ELSE r.pop < b.pop

\* One iteration of the tie-breaking loop: does r replace best?
Preferred(r, b) ==
  IF r.lp # b.lp THEN r.lp > b.lp
  ELSE IF r.as # b.as THEN r.as < b.as
  ELSE IF r.med # b.med THEN r.med < b.med
  ELSE IF r.igp # b.igp THEN r.igp < b.igp
  ELSE r.pop < b.pop

\* The loop over v, starting from best = &v.front(): the best index.
RECURSIVE BestRoute(_, _, _)
BestRoute(v, i, b) ==
  IF i > Len(v) THEN b
  ELSE BestRoute(v, i + 1, IF Preferred(v[i], v[b]) THEN i ELSE b)

\* serving_pop: nullopt for an unknown service or an empty route vector.
ServingPop(routes, svc) ==
  IF svc \notin DOMAIN routes \/ routes[svc] = <<>> THEN NoPop
  ELSE routes[svc][BestRoute(routes[svc], 1, 1)].pop

\* The tie-breaking rule of the header comment as successive filters of the
\* route set: highest local-pref, then shortest AS path, lowest MED, lowest
\* IGP cost, smallest pop id.
BestPopRef(v) ==
  LET R0 == {v[i] : i \in DOMAIN v}
      R1 == {r \in R0 : r.lp = Max({x.lp : x \in R0})}
      R2 == {r \in R1 : r.as = Min({x.as : x \in R1})}
      R3 == {r \in R2 : r.med = Min({x.med : x \in R2})}
      R4 == {r \in R3 : r.igp = Min({x.igp : x \in R3})}
  IN Min({r.pop : r \in R4})

Init ==
  /\ routes_ = [s \in {} |-> <<>>]
  /\ answer = [svc |-> CHOOSE s \in Services : TRUE, v |-> <<>>, pop |-> NoPop]
  /\ loads = 0

\* load_routes: routes_ = routes.
LoadRoutes(rt) ==
  /\ loads < MaxLoads
  /\ routes_' = rt
  /\ loads' = loads + 1
  /\ UNCHANGED answer

\* serving_pop(serviceId, clientSrcIp); the simulator ignores the client.
Query(svc) ==
  /\ answer' = [svc |-> svc,
                v |-> IF svc \in DOMAIN routes_ THEN routes_[svc] ELSE <<>>,
                pop |-> ServingPop(routes_, svc)]
  /\ UNCHANGED <<routes_, loads>>

\* The bound on loads is tested before the tables are enumerated.
Next ==
  \/ loads < MaxLoads /\ \E rt \in RouteTables : LoadRoutes(rt)
  \/ \E svc \in Services : Query(svc)

Spec == Init /\ [][Next]_vars

\* serving_pop answers with the pop of the best route by the header's
\* tie-breaking order, and with nullopt only for a service without routes.
ServingPopIsBestRoute ==
  IF answer.v = <<>> THEN answer.pop = NoPop ELSE answer.pop = BestPopRef(answer.v)
=============================================================================
