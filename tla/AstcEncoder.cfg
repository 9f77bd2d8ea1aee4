SPECIFICATION FairSpec
CONSTANTS
  N = 3
  Code = {0, 1}
  MaxRuns = 3
  NumImages = 2
  MipCount <- MCMipCount
  BlockOf <- MCBlockOf
INVARIANTS
  ContextInUse
  OnlyFailureSpoils
PROPERTIES
  RefinesForkJoin
  EncodeAllReturns
