CONSTANTS
  Values <- MC_Values
  MaxEdits <- MC_MaxEdits
SPECIFICATION Spec
INVARIANT TypeOK
INVARIANT SetRestoresRegisters
INVARIANT PackedAttributesRoundTrip
PROPERTY TransferRefined
