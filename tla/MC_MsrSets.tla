------------------------------ MODULE MC_MsrSets ------------------------------
EXTENDS MsrSets

(* Guest MSR accesses: the TSC, the debug control MSR, index 0 (no MSR),  *)
(* and the architectural IA32_XSS index 0xDA0.                            *)
MC_ProbeMsrs == {<<0, \h0010>>, <<0, \h01D9>>, <<0, 0>>, <<0, \h0DA0>>}
====
