---------------------------- MODULE IngressSelector ----------------------------
(***************************************************************************)
(* IngressSelector (ingress_selector.cpp): chooseIngress, with and without *)
(* a client address, over the loaded PoP list, the configured mode and     *)
(* strategy, and an attached SimulatedBgpOracle. Control-plane calls       *)
(* (loadPops, update_config, attachOracle, load_routes) and data-plane     *)
(* chooseIngress calls interleave; each call is one step (the plain-member *)
(* races are listed as hazards, not modelled).                             *)
(*                                                                         *)
(* mix (a splitmix64-style avalanche over 64-bit words) is the table       *)
(* MixOf of its values for the flow hashes that occur, under the default   *)
(* seed. The u64 counter rr_ is unbounded here: its wrap needs 2^64 calls. *)
(***************************************************************************)
EXTENDS Naturals, Sequences, SequencesExt

CONSTANTS PopIds,      \* PoP ids, ordered as their strings
          PopLists,    \* the PoP lists loadPops can install
          Services,    \* service ids
          RouteTables, \* the route maps load_routes can install
          Clients,     \* client source addresses
          IpHash,      \* IpHash[c]: the 32-bit hash of a client address
          MixOf,       \* MixOf[x] = mix(x, seed)
          MaxCalls,    \* bound on chooseIngress calls
          MaxLoads     \* bound on load_routes calls

NoClient == "none"   \* the overload without clientSrcIp
Modes == {"PolicyDeterministic", "RouteInformed"}
Strategies == {"RoundRobin", "HashSourceIP", "Hash5Tuple"}

VARIABLES mode, strategy, \* cfg_
          pops,           \* pops_, as the sequence of PoP ids
          hasOracle,      \* oracle_ != nullptr
          routes,         \* the attached simulator's routes_
          rr,             \* rr_
          calls,          \* chooseIngress calls so far
          loads,          \* load_routes calls so far
          last,           \* ghost: the last chooseIngress call and its answer
          prevRR          \* ghost: index of the last round-robin choice over
                          \* the current PoP list (-1: none)

vars == <<mode, strategy, pops, hasOracle, routes, rr, calls, loads, last, prevRR>>

\* The oracle's selection operators; the simulator's own state is the
\* variable routes here.
Bgp == INSTANCE BgpOracleSim WITH routes_ <- routes, answer <- last
NoPop == Bgp!NoPop   \* also the empty string of an empty PoP list

\* choose_policy_deterministic(ids, flow_hash): [pop, idx, via, rr'].
ChoosePolicyDeterministic(ids, flowHash, r) ==
  IF ids = <<>> THEN [pop |-> NoPop, idx |-> 0, via |-> "empty", rr |-> r]
  ELSE IF strategy = "RoundRobin"
  THEN [pop |-> ids[(r % Len(ids)) + 1], idx |-> r % Len(ids),
        via |-> "rr", rr |-> r + 1]
  ELSE LET h == MixOf[flowHash] IN
       [pop |-> ids[(h % Len(ids)) + 1], idx |-> h % Len(ids),
        via |-> "hash", rr |-> r]

\* Mutant: the counter is advanced before the oracle is consulted.
ChooseIngressEagerRR(svc, ip) ==
  LET ans == Bgp!ServingPop(routes, svc) IN
  IF mode = "RouteInformed" /\ hasOracle /\ ans # NoPop
  THEN [pop |-> ans, idx |-> 0, via |-> "oracle", rr |-> rr + 1]
  ELSE ChoosePolicyDeterministic(pops, 0, rr)

\* chooseIngress(serviceId) and chooseIngress(serviceId, clientSrcIp): the
\* oracle's serving PoP in RouteInformed mode when it has one; otherwise
\* the local policy over the PoP ids with flow hash 0 (the client address
\* reaches only the oracle).
ChooseIngress(svc, ip) ==
  LET ans == Bgp!ServingPop(routes, svc) IN
  IF mode = "RouteInformed" /\ hasOracle /\ ans # NoPop
  THEN [pop |-> ans, idx |-> 0, via |-> "oracle", rr |-> rr]
  ELSE ChoosePolicyDeterministic(pops, 0, rr)

Init ==
  /\ mode = "PolicyDeterministic" /\ strategy = "RoundRobin"
  /\ pops = <<>>
  /\ hasOracle = FALSE
  /\ routes = [s \in {} |-> <<>>]
  /\ rr = 0
  /\ calls = 0
  /\ loads = 0
  /\ last = [svc |-> CHOOSE s \in Services : TRUE, ip |-> NoClient,
             asked |-> FALSE, v |-> <<>>, pop |-> NoPop, idx |-> 0,
             via |-> "none"]
  /\ prevRR = -1

\* loadPops: pops_ = pops.
LoadPops(pl) ==
  /\ pops' = pl
  /\ prevRR' = -1
  /\ UNCHANGED <<mode, strategy, hasOracle, routes, rr, calls, loads, last>>

\* update_config: cfg_ = c.
UpdateConfig(m, s) ==
  /\ mode' = m /\ strategy' = s
  /\ UNCHANGED <<pops, hasOracle, routes, rr, calls, loads, last, prevRR>>

\* attachOracle: oracle_ = oracle.
AttachOracle ==
  /\ hasOracle' = TRUE
  /\ UNCHANGED <<mode, strategy, pops, routes, rr, calls, loads, last, prevRR>>

\* SimulatedBgpOracle::load_routes on the attached simulator.
LoadRoutes(rt) ==
  /\ loads < MaxLoads
  /\ routes' = rt
  /\ loads' = loads + 1
  /\ UNCHANGED <<mode, strategy, pops, hasOracle, rr, calls, last, prevRR>>

\* A data-plane chooseIngress call.
Choose(svc, ip) ==
  /\ calls < MaxCalls
  /\ LET a == ChooseIngress(svc, ip) IN
     /\ rr' = a.rr
     /\ last' = [svc |-> svc, ip |-> ip,
                 asked |-> mode = "RouteInformed" /\ hasOracle,
                 v |-> IF svc \in DOMAIN routes THEN routes[svc] ELSE <<>>,
                 pop |-> a.pop, idx |-> a.idx, via |-> a.via]
     /\ prevRR' = IF a.via = "rr" THEN a.idx ELSE prevRR
  /\ calls' = calls + 1
  /\ UNCHANGED <<mode, strategy, pops, hasOracle, routes, loads>>

Next ==
  \/ \E pl \in PopLists : LoadPops(pl)
  \/ \E m \in Modes, s \in Strategies : UpdateConfig(m, s)
  \/ AttachOracle
  \/ loads < MaxLoads /\ \E rt \in RouteTables : LoadRoutes(rt)
  \/ \E svc \in Services, ip \in Clients \cup {NoClient} : Choose(svc, ip)

Spec == Init /\ [][Next]_vars

(***************************************************************************)
(* Properties.                                                             *)
(***************************************************************************)

\* Round robin visits the PoP list in order: every round-robin choice takes
\* the index after the previous one over the same list, however many
\* oracle answers, hash-strategy choices and configuration changes come
\* between them.
RoundRobinRotates ==
  [][calls' = calls + 1 /\ last'.via = "rr" /\ prevRR # -1
     => last'.idx = (prevRR + 1) % Len(pops)]_vars

\* In RouteInformed mode with the oracle attached, chooseIngress answers
\* with the PoP of the service's best route by the tie-breaking order of
\* bgp_oracle_sim.hpp (highest local-pref, then shortest AS path, lowest
\* MED, lowest IGP cost, smallest PoP id), and falls back to the local
\* policy only for a service without routes.
OracleAnswerIsBestRoute ==
  last.asked =>
    IF last.v = <<>> THEN last.via # "oracle"
    ELSE last.via = "oracle" /\ last.pop = Bgp!BestPopRef(last.v)

\* An ingress that is chosen is a PoP of the loaded list.
IngressIsLoadedPop ==
  last.pop # NoPop => \E k \in DOMAIN pops : pops[k] = last.pop

\* With a hash strategy, a call with a client address picks the PoP its
\* source-address hash selects (IngressStrategy::HashSourceIP: "Hash 32-bit
\* source IP into PoP index").
HashUsesClient ==
  last.via = "hash" /\ last.ip # NoClient
    => last.idx = MixOf[IpHash[last.ip]] % Len(pops)
=============================================================================
