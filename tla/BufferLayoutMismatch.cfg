\* Every public operation of Buffer: the client may assign the pub layout
\* field and then let the Buffer drop, which frees with that layout.
CONSTANTS
  a1 = a1
  a2 = a2
  Null = Null
  Addr <- MC_Addr
  Sizes <- MC_Sizes
  Aligns <- MC_Aligns
  MaxBuffers <- MC_MaxBuffers
SPECIFICATION Spec
INVARIANT DeallocWithOwnLayout
CHECK_DEADLOCK FALSE
