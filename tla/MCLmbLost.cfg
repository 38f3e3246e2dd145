\* A reservation lost after regions were left uncoalesced.
SPECIFICATION Spec
CONSTANTS
  AddrMax = 7
  Banks <- TwoBanks
  Flags = {0, 4}
  Aligns = {1, 2}
  MaxAddrs = {0, 6}
CHECK_DEADLOCK TRUE
INVARIANTS ReservesWhatItSays
