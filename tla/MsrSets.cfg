CONSTANT ProbeMsrs <- MC_ProbeMsrs
SPECIFICATION Spec
INVARIANT TypeOK
INVARIANT ListResolves
INVARIANT DistinctRegisters
