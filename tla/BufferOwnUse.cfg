\* Buffer as regs.rs uses it: new, zero_out_buf, drop, in any interleaving
\* of three buffers over two blocks.  A panicked or exhausted behaviour
\* stops, so deadlock is not an error.
CONSTANTS
  a1 = a1
  a2 = a2
  Null = Null
  Addr <- MC_Addr
  Sizes <- MC_Sizes
  Aligns <- MC_Aligns
  MaxBuffers <- MC_MaxBuffers
SPECIFICATION OwnUseSpec
INVARIANT TypeOK
INVARIANT NoUndefinedBehaviour
INVARIANT ExclusiveOwnership
INVARIANT NoLeak
CHECK_DEADLOCK FALSE
