-------------------------- MODULE MCIngressSelector --------------------------
EXTENDS IngressSelector
CONSTANTS svc, c1

MCPopIds == {1, 2, 3}
\* PoP lists of two and of three PoPs: round robin wraps at either length.
MCPopLists == {<<1, 2>>, <<1, 2, 3>>}
\* A single one-PoP list, for the counterexample of a stale oracle answer.
MCOnePopList == {<<1>>}
MCServices == {svc}
MCClients == {c1}
MCIpHash == [c \in MCClients |-> 1]
\* Values of mix(x, seed) for the flow hashes used, reduced to small numbers.
MCMixOf == [x \in 0..1 |-> (x * 5 + 3) % 7]
\* Two-valued attributes and two PoPs: every comparison of the oracle's
\* tie-breaking chain can be decided at every level, in either direction.
MCRoute == [lp : {1, 2}, as : {1, 2}, med : {0, 1}, igp : {0, 1}, pop : {1, 2}]
\* Every route vector of up to two routes for the service.
MCRouteTables ==
  {[s \in {svc} |-> v] : v \in UNION {[1..k -> MCRoute] : k \in 0..2}}
=============================================================================
