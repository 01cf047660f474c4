SPECIFICATION FairSpec
CONSTANTS
  CodeSize = 4
  Program <- Text
  BpAddrs = {}
  PcTargets = {}
  StubTimely = TRUE
  CloseWakes = FALSE
  Patient = TRUE
  MaxBreaks = 0
  HostMayStop = FALSE
PROPERTIES
  TeardownCompletes
CHECK_DEADLOCK FALSE
