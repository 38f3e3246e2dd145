\* "env load" after "env save", with a flash that works.
SPECIFICATION Spec
CONSTANTS
  Data = {d1, d2, d3}
  DefaultEnv = d1
  FlagValues = {0, 1, 2, 3, 255}
  FlashErrors = FALSE
  CmdEnvLoad = TRUE
PROPERTIES LoadsWhatIsStored
