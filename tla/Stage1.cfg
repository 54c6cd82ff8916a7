CONSTANTS
  P = 251
  BabyStep = 4
  EncodePerThread = 2
  MaxFaults = 1
  Dims <- MCDims
  Payloads <- MCPayloads
  Configs <- MCConfigs
SPECIFICATION Spec
INVARIANT KeysCover
INVARIANT RotationsExact
INVARIANT LevelsSuffice
INVARIANT PlaintextsExact
INVARIANT BoundOfOwner
INVARIANT VerdictExact
PROPERTY ComputesReference
PROPERTY Concludes
