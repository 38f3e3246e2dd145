\* Both versions of the metadata; power failures, failing EFI services, failing
\* metadata writes and failing capsules, the last two with boots of another bank.
CONSTANTS
  NumBanks = 2
  Images = {1, 2}
  TrialCnt = 1
  Versions = {1, 2}
  Capsules <- SomeCapsules
  MaxDir = 2
  FaultSets = {{"power", "window"}, {"efi"}, {"mdata", "earlier_stage"}, {"capsule", "earlier_stage"}}
SPECIFICATION Spec
INVARIANTS
  MetadataSurvives
  SomeBankBoots
  ActiveBankComplete
  TrialCanRevert
  CountedTrial
PROPERTY AcceptNeedsAll
