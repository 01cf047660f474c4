SPECIFICATION Spec
CONSTANTS
  CodeSize = 4
  Program <- SlotText
  BpAddrs = {0}
  PcTargets = {}
  StubTimely = TRUE
  CloseWakes = TRUE
  Patient = TRUE
  MaxBreaks = 0
  HostMayStop = FALSE
PROPERTIES
  ReportedPcIsNext
