\* Power failures at any point, failing reads, writes and erases.
SPECIFICATION Spec
CONSTANTS
  Data = {d0, d1, d2}
  DefaultEnv = d0
  FlagsMax = 5
  WriteErrors = TRUE
  ReadErrors = TRUE
  BothHwparts = FALSE
  EraseEnv = TRUE
  Upgrade = TRUE
PROPERTIES SavesAreAtomic SuccessfulEraseErases ValidBackup
