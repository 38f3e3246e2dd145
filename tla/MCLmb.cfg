\* Every sequence of reservations, allocations and frees over eight addresses.
SPECIFICATION Spec
CONSTANTS
  AddrMax = 7
  Banks <- TwoBanks
  Flags = {0, 4}
  Aligns = {1, 2}
  MaxAddrs = {0, 6}
INVARIANTS RegionsSorted ExactWhenCoalesced SlotsAreThePlaces AllocIsHighest
CHECK_DEADLOCK TRUE
