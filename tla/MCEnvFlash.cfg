\* Any flags in flash, power failures and failing flash operations, with the
\* "env load" command.
SPECIFICATION Spec
CONSTANTS
  Data = {d1, d2, d3}
  DefaultEnv = d1
  FlagValues = {0, 1, 2, 3, 255}
  FlashErrors = TRUE
  CmdEnvLoad = TRUE
PROPERTIES SavesAreAtomic  KeepsABackup
