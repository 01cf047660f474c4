CONSTANTS
  N = 9
  Programs <- MCPrograms
  Answers = {0, 1}
  CheckInterval = 3
  BlockLimit = 3
SPECIFICATION Spec
INVARIANTS TypeOK LinksSound CountExact ReturnsCode
PROPERTIES ExecutesProgram StoppedEnds
