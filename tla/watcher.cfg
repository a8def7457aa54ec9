SPECIFICATION FairSpec
CONSTANTS
  Sources = {1, 2}
  Removable = {2}
  Threshold = 3
  ErrorCap = 4
  MinPause = 2
  FloodWaits = {1, 3}
  SlowTicks = 1
INVARIANTS TypeOK PauseIsKept
PROPERTIES DisabledIsEarned KeepsHealth EverySourceIsAsked
