SPECIFICATION FairSpec
CONSTANTS
  CodeSize = 4
  Program <- Text
  BpAddrs = {}
  PcTargets = {}
  StubTimely = TRUE
  CloseWakes = TRUE
  Patient = TRUE
  MaxBreaks = 0
  HostMayStop = FALSE
PROPERTIES
  KillEndsSession
