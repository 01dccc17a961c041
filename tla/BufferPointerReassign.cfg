\* Every public operation of Buffer: the client may assign the pub buf
\* field, which leaves the block it pointed at with no owner to free it.
CONSTANTS
  a1 = a1
  a2 = a2
  Null = Null
  Addr <- MC_Addr
  Sizes <- MC_Sizes
  Aligns <- MC_Aligns
  MaxBuffers <- MC_MaxBuffers
SPECIFICATION Spec
INVARIANT NoLeak
CHECK_DEADLOCK FALSE
