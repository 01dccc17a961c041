\* Save, edit and restore cycles of the LAPIC state of one VP.
CONSTANTS
  Uninit = Uninit
  W <- MC_W
  NW <- MC_NW
  HV_PAGE_SIZE <- MC_HV_PAGE_SIZE
  HV_HYP_PAGE_SHIFT <- MC_HV_HYP_PAGE_SHIFT
  HvStateSize <- MC_HvStateSize
  GetSizes <- MC_GetSizes
  Values <- MC_Values
  EditSlots <- MC_EditSlots
  MaxEdits <- MC_MaxEdits
SPECIFICATION Spec
INVARIANT TypeOK
INVARIANT PprIsHighestInService
INVARIANT RoundTrip
INVARIANT EncodeFits
