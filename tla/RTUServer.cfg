CONSTANTS
  Names = {"COM1"}
  Bauds = {0}
  Messages <- MCMessages
  Units = {1, 2}
  MaxPorts = 2
  MaxSent = 2
SPECIFICATION FairSpec
INVARIANTS
  TypeOK
  StatusTellsPort
  OnlySentFramesAreServed
  AwaitedFrameIsWhole
  CRCIsRemainder
PROPERTIES
  LoopsEnd
  MasterIsAnswered
