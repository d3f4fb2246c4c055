SPECIFICATION FairSpec
CONSTANTS
  p1 = p1
  p2 = p2
  boot = boot
  d1 = d1
  d2 = d2
  Preparations <- MCPreparations
  Boot = boot
  Dialogs <- MCDialogs
  MaxMisfortunes = 3

PROPERTIES SelfHeals
