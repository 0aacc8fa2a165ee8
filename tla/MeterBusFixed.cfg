CONSTANTS
  w1 = w1
  w2 = w2
  Workers <- MCWorkers
  Jobs <- FixedJobs
  InitialID = 1
  Additions <- MCAdditions
  MaxMeters = 3
  Deviations <- MCDeviations
  Gains = {0}
  EnergyBound = 60000
SPECIFICATION Spec
SYMMETRY Symmetry
INVARIANTS
  AtLeastOneMeter
  EveryMeterAnswers
  OnlyTheAddresseeServes
