CONSTANTS
  Slots = {n1, n2}
  Root = root
  None = none
  Files = {f1}
  Dirps = {s1}
  Names = {a, b}
  NoName = noname
SPECIFICATION NamesSpec
INVARIANTS LastCloseFrees
