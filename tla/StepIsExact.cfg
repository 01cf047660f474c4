SPECIFICATION Spec
CONSTANTS
  CodeSize = 4
  Program <- Text
  BpAddrs = {0}
  PcTargets = {3}
  StubTimely = TRUE
  CloseWakes = TRUE
  Patient = TRUE
  MaxBreaks = 0
  HostMayStop = FALSE
PROPERTIES
  StepIsExact
