CONSTANTS
  Values <- MC_Values
  MaxEdits <- MC_MaxEdits
SPECIFICATION Spec
INVARIANT AllAttributesRoundTrip
