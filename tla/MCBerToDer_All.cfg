SPECIFICATION EncodingsSpec
CONSTANTS
  None = None
  SignedDataOid <- MCSignedDataOid
  MaxBerDepth = 9
  MaxUsize = 65535
  Tree <- MCTree
  Broken <- MCBroken
INVARIANTS TypeOK DescentStaysInBounds OutputIsCanonical RefusedForAReason
PROPERTY EveryStepAdvances
