----------------------------- MODULE MCQosPolicy -----------------------------
(* The QoS policy built with the configuration Loader::load_from_file    *)
(* returns (default_qos(): four classes, their thresholds, weights and    *)
(* DSCP codepoints), and the same configuration with all-zero weights,    *)
(* either of which update_config may install.  Metric values straddle the *)
(* class targets (ConfigLoader's units: 500 us, loss 0.005).              *)
EXTENDS QosPolicy
CONSTANTS a, b

Cfg == INSTANCE ConfigLoader

MCIds == {a, b}
MCClasses == Cfg!QoSClasses
MCDefaults == Cfg!DefaultThresholds
MCConfigs == {Cfg!LoadFromFile.qos,
              [Cfg!LoadFromFile.qos EXCEPT !.weights = [latency |-> 0, jitter |-> 0, loss |-> 0]]}
\* Realtime: met by 8; Bulk and BestEffort only: 20; none: 44.
MCLatValues == {8, 20, 44}
\* Realtime: met by 3; BestEffort and Bulk only: 10.
MCJitValues == {3, 10}
\* Realtime: met by 1; Bulk only: 5.
MCLossValues == {1, 5}
\* The same configurations with a zero latency target for Realtime.
MCZeroConfigs == {[conf EXCEPT !.thresholds[Cfg!Realtime].lat = 0] : conf \in MCConfigs}
=============================================================================
