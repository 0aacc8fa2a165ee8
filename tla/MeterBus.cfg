CONSTANTS
  w1 = w1
  w2 = w2
  Workers = {w1}
  Jobs <- AllJobs
  InitialID = 1
  Additions <- MCAdditions
  MaxMeters = 2
  Deviations <- MCDeviations
  Gains <- MCGains
  EnergyBound = 60000
SPECIFICATION FairSpec
INVARIANTS
  TypeOK
PROPERTIES
  LedgerSpec
  OpenRelaySettles
