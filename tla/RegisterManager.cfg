CONSTANTS
  Requests <- MCRequests
  Changes <- MCChanges
  Deviations <- MCDeviations
  Gains <- MCGains
  EnergyBound <- MCEnergyBound
SPECIFICATION Spec
CHECK_DEADLOCK FALSE
INVARIANTS
  TypeOK
  EnergyBalance
  DecodedReadMatchesState
  RetryIsHarmless
PROPERTIES
  LedgerSpec
  TransportsAgree
  WriteReadsBack
