\* A file longer than the sequence space, a small one, one too large and one that
\* is refused, with three faults anywhere and two Ethernet devices.
SPECIFICATION Spec
CONSTANTS
  SequenceSize = 8
  WindowSize = 2
  FileSizes = {0, 3, 9, 10}
  LoadLimit = 9
  TimeoutMax = 1
  RetryCount = 3
  EthDevices = 2
  MaxFaults = 3
  Sessions = {1, 2}
INVARIANTS LoadedIsFile AckedIsStored
PROPERTIES TransferEnds
