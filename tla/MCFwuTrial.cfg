\* No fault at all, and updates of single images which U-Boot itself accepts.
CONSTANTS
  NumBanks = 2
  Images = {1, 2}
  TrialCnt = 1
  Versions = {2}
  Capsules <- SomeCapsules
  MaxDir = 1
  FaultSets = {{}}
SPECIFICATION Spec
INVARIANT AllowedTrialBoots
