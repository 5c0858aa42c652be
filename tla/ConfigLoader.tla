----------------------------- MODULE ConfigLoader -----------------------------
(***************************************************************************)
(* Loader::load_from_file (config_loader.cpp) and the named defaults of   *)
(* constants.hpp.  The loader ignores its path and returns the defaults:  *)
(* default_qos() for QoS, FailoverConfig{} and IngressConfig{}.           *)
(*                                                                         *)
(* Units.  Latency and jitter are in units of 500 us and loss in units of *)
(* 0.005, so that every default is a natural and the QoS scores, which    *)
(* depend only on ratios, stay exact and small.  Weights are in tenths.   *)
(* The failover improvement is in percent, the hold times in ms.          *)
(***************************************************************************)
EXTENDS TLC

\* enum class QoSClass : uint8_t, by its underlying value.
Bulk == 0
BestEffort == 1
Interactive == 2
Realtime == 3
QoSClasses == {Bulk, BestEffort, Interactive, Realtime}

\* DSCP PHB codepoints, as the constants give them.
DSCP_BE == 0      \* 0x00
DSCP_CS1 == 8     \* 0x08
DSCP_AF31 == 40   \* 0x28
DSCP_EF == 46     \* 0x2E

\* QoS default thresholds: [lat, jit, loss] per class.
QosBulk == [lat |-> 40, jit |-> 20, loss |-> 10]  \* 20 ms, 10 ms, 5%
QosBE   == [lat |-> 30, jit |-> 16, loss |-> 4]   \* 15 ms, 8 ms, 2%
QosInt  == [lat |-> 16, jit |-> 6,  loss |-> 2]   \* 8 ms, 3 ms, 1%
QosRt   == [lat |-> 8,  jit |-> 3,  loss |-> 1]   \* 4 ms, 1.5 ms, 0.5%

\* QoSThresholds{}, what score_path uses for an unmapped class: 10 ms, 5 ms, 1%.
DefaultThresholds == [lat |-> 20, jit |-> 10, loss |-> 2]

\* QoS weighting defaults 0.6, 0.3, 0.1.
QosWeightDefaults == [latency |-> 6, jitter |-> 3, loss |-> 1]

\* default_qos(): thresholds_by_class, weights and dscp_by_class.
DefaultQos ==
  [thresholds |-> (Bulk :> QosBulk) @@ (BestEffort :> QosBE)
                    @@ (Interactive :> QosInt) @@ (Realtime :> QosRt),
   weights |-> QosWeightDefaults,
   dscp |-> (Bulk :> DSCP_CS1) @@ (BestEffort :> DSCP_BE)
              @@ (Interactive :> DSCP_AF31) @@ (Realtime :> DSCP_EF)]

\* FailoverConfig{}: the empty primary id (0), and the failover defaults.
DefaultFailover ==
  [primary |-> 0, returnToPrimary |-> TRUE, improvePct |-> 10,
   minHoldMs |-> 3000, recoveryHoldMs |-> 5000]

\* IngressConfig{}: PolicyDeterministic, RoundRobin and the hash seed
\* 0xA17A5EED, which only mix() reads (IngressSelector's MixOf table).
DefaultIngress ==
  [mode |-> "PolicyDeterministic", strategy |-> "RoundRobin", seed |-> "INGRESS_HASH_SEED_DEFAULT"]

\* Loader::load_from_file(path): the defaults, whatever the path.
LoadFromFile == [qos |-> DefaultQos, failover |-> DefaultFailover,
                 ingress |-> DefaultIngress]
==============================================================================
