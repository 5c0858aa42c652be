------------------------ MODULE MCPolicyBindingRelaxed ------------------------
(* One CP writer, one DP reader, two policies: a publish of A followed by *)
(* a publish of B is the shortest history with two non-null bindings.     *)
EXTENDS PolicyBindingRelaxed
CONSTANTS A, B, r1
MCPolicies == {A, B}
MCReaders == {r1}
=============================================================================
