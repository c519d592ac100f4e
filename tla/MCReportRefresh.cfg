CONSTANTS
  a = a
  b = b
  p1 = p1
  p2 = p2
  Crates = {a}
  Procs = {p1, p2}
  MaxVersion = 2
  MaxNow = 3
  Menu = {"partial", "refresh", "sweep"}
  NoProc = NoProc
  NoFact = NoFact
SPECIFICATION Spec
SYMMETRY Symmetry
CHECK_DEADLOCK FALSE
PROPERTY ReplacesOnlyOlder
