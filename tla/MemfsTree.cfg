CONSTANTS
  Slots = {n1, n2, n3}
  Root = root
  None = none
  Files = {f1, f2}
  Dirps = {s1}
  Names = {a, b}
  NoName = noname
SPECIFICATION NamesSpec
SYMMETRY Symmetry
INVARIANTS TypeOK CountsRight FreeIsEmpty ScanExact
PROPERTIES StreamsStayPut NamesKept
