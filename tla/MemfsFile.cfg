CONSTANTS
  Fds = {f1, f2}
  Bytes = {0, 1}
  Modes = {"r", "rw"}
  Packed <- Contents
  ChunkSize = 2
  FillSize = 2
  Top = 4
  MaxBuf = 2
  MaxEnd = 3
SPECIFICATION Spec
SYMMETRY Symmetry
INVARIANTS TypeOK Backed
PROPERTIES BytesShared
