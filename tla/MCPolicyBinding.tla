--------------------------- MODULE MCPolicyBinding ---------------------------
(* Readers interact only with the writer: one DP reader shows every        *)
(* reader/writer interleaving.                                             *)
EXTENDS PolicyBinding
CONSTANTS A, B, r1
MCPolicies == {A, B}
MCReaders == {r1}
=============================================================================
