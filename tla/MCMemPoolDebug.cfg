SPECIFICATION FairSpec
CONSTANTS
  Size = 5
  Padding = 2
  Modulus = 64
  Enough = 2
  MaxPacket = 3
  MaxBytes = 12
  Reload = TRUE
INVARIANT FullnessIsDataAmount
