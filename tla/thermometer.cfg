SPECIFICATION FairSpec
CONSTANTS
  Fittings <- EverySensor
  Lab = {"lab2_2", "lab3_3"}
  Channels <- ThreeChannels
  MaxResets = 2
INVARIANTS TypeOK FoundIsInReach ShownIsUndamaged
PROPERTY KeepsShowing
