SPECIFICATION NvdaFairSpec
CONSTANTS
  d1 = d1
  d2 = d2
  Drives <- MCDrives
  Warm = Warm
  MAX_CAPTURES_PER_NVDA = 2
  NVDA_START_ATTEMPTS = 2
  MAX_WARM_ATTEMPTS = 2
  Worlds <- ThreeWorlds
INVARIANT RecycledInTime
PROPERTIES
  FreshAfterFailure
  Heals
