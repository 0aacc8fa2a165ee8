CONSTANTS
  Requests <- MCRequests
  Changes <- MCChanges
  Deviations <- MCDeviations
  Gains <- MCGains
  EnergyBound <- MCEnergyBound
SPECIFICATION Spec
CHECK_DEADLOCK FALSE
INVARIANT OutOfRangeReadIsRejected
