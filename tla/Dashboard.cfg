CONSTANTS
  Stations = {1, 2}
  First = 1
  Currents = {0, 5}
  Measures = {0, 9}
  NewCurrent = 5
  MaxActs = 2
  MaxEvents = 1
SPECIFICATION FairSpec
INVARIANTS
  TypeOK
  LastMoveIsKept
  DialogAwaitsAnswer
PROPERTIES
  PageCatchesUp
  FormCatchesUp
  AddDialogEnds
CHECK_DEADLOCK FALSE
