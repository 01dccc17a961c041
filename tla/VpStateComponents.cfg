\* The directory driven by save and restore transfers, with a transfer
\* buffer that may be too small for a component (the copy then panics and
\* the process stops, so a state with no successor is expected).
CONSTANTS
  Uninit = Uninit
  HV_PAGE_SIZE <- MC_HV_PAGE_SIZE
  LapicStateSize <- MC_LapicStateSize
  XSaveSize <- MC_XSaveSize
  SyntheticTimersSize <- MC_SyntheticTimersSize
  AllocSizes <- MC_AllocSizes
SPECIFICATION Spec
INVARIANT TypeOK
INVARIANT DirFaithful
INVARIANT HvFaithful
CHECK_DEADLOCK FALSE
PROPERTY TransferRefined
