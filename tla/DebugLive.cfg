SPECIFICATION FairSpec
CONSTANTS
  CodeSize = 4
  Program <- LeapText
  BpAddrs = {2}
  PcTargets = {}
  StubTimely = TRUE
  CloseWakes = TRUE
  Patient = TRUE
  MaxBreaks = 0
  HostMayStop = FALSE
PROPERTIES
  NoPacketDropped
  StepAnswered
  TeardownCompletes
