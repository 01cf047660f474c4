SPECIFICATION Spec
CONSTANTS
  CodeSize = 4
  Program <- Text
  BpAddrs = {0}
  PcTargets = {3}
  StubTimely = TRUE
  CloseWakes = TRUE
  Patient = TRUE
  MaxBreaks = 1
  HostMayStop = TRUE
INVARIANTS
  TypeOK
  ToldStopped
  NoMissedBreakpoint
  StepBounded
PROPERTIES
  SessionKept
