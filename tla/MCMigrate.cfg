CONSTANTS
  c1 = c1  c2 = c2  b1 = b1  b2 = b2
  p1 = p1  p2 = p2  P = P  Q = Q
  Prefixes = {P, Q}
  Crates = {c1}
  Bins = {b1, b2}
  Procs = {p1, p2}
  MaxVersion = 2
  MaxRustc = 2
  Provides <- MCProvides
  PersonRemoves = FALSE
  NoProc = NoProc  NoEntry = NoEntry  NoCrate = NoCrate  NoPrefix = NoPrefix
SYMMETRY MCSymmetry
SPECIFICATION Spec
PROPERTIES NeverWithout RetiresAsConfirmed PolicyTravels ReportTrue
