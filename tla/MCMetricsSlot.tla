---------------------------- MODULE MCMetricsSlot ----------------------------
(* Readers do not interact with each other, only with the writer: one DP   *)
(* reader shows every reader/writer interleaving.                         *)
EXTENDS MetricsSlot
CONSTANTS r1
MCReaders == {r1}
=============================================================================
