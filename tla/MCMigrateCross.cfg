CONSTANTS
  c1 = c1  c2 = c2  b1 = b1  b2 = b2  p1 = p1  p2 = p2  P = P  Q = Q
  Prefixes = {P, Q}
  Crates = {c1, c2}
  Bins = {b1}
  Procs = {p1, p2}
  MaxVersion = 1
  MaxRustc = 1
  Provides <- CrossProvides
  PersonRemoves = TRUE
  NoProc = NoProc  NoEntry = NoEntry  NoCrate = NoCrate  NoPrefix = NoPrefix
SPECIFICATION FairSpec
PROPERTIES LockReleased EachPrefix
