SPECIFICATION LiveSpec
CONSTANTS
  r1 = r1  seeded = seeded  d1 = d1  boot = boot  hand = hand
  Readings <- MCReadings
  Demo = demo
  Seeds <- MCSeeds
  Boot = boot
  Drafts <- MCDrafts
  Seeded = seeded
  Window = 2
  MaxDelay = 1
  MaxUpdate = 0
PROPERTY ServesAgain
CHECK_DEADLOCK FALSE
