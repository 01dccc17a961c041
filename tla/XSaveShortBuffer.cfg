CONSTANTS
  Uninit = Uninit
  XSaveSize <- MC_XSaveSize
  HV_PAGE_SIZE <- MC_HV_PAGE_SIZE
  HV_HYP_PAGE_SHIFT <- MC_HV_HYP_PAGE_SHIFT
  GetSizes <- MC_GetSizes
  Values <- MC_Values
  MaxEdits <- MC_MaxEdits
SPECIFICATION Spec
INVARIANT DecodeRejectsShortBuffer
