\* Hooks that fail, hooks that probe other devices in cycles, and removal flags
\* that select what is stopped when U-Boot is left; no vital device is below a
\* regular one.
SPECIFICATION Spec
CONSTANTS
  root = root
  bus = bus
  dev = dev
  dev2 = dev2
  gpio = gpio
  Root = root
  Devices <- TreeDevices
  ParentOf <- Tree
  Boards <- AllBoards
  order <- Ranks
  HookDepth = 9
INVARIANTS ActiveParents HookDataLive RunningIsActivated ProbeInOrder TreeIntact
PROPERTIES ActiveStopped VitalLast
