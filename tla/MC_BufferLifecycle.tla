-------------------------- MODULE MC_BufferLifecycle --------------------------
(* Two blocks and three Buffer::new calls: enough for the allocator to hand *)
(* a freed block out again while a stale Buffer still points at it.        *)
EXTENDS BufferLifecycle

CONSTANTS a1, a2

MC_Addr == {a1, a2}
MC_Sizes == {1, 2}
MC_Aligns == {1, 3}
MC_MaxBuffers == 3

=============================================================================
