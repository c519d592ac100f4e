CONSTANTS
  c1 = c1  c2 = c2  b1 = b1  b2 = b2
  p1 = p1  p2 = p2
  Crates = {c1, c2}
  Bins = {b1, b2}
  Procs = {p1, p2}
  MaxVersion = 2
  Provides <- MCProvides
  Menu <- MCMenu
  LockedChoices = {FALSE}
  NoProc = NoProc  NoEntry = NoEntry  NoCrate = NoCrate
  Absent = Absent  Foreign = Foreign
SPECIFICATION FairSpec
INVARIANTS MemoryFresh StoreAccepted FilesAccounted WholeUnlessTorn VerifyTruthful
PROPERTIES ForeignSpared PinHolds PlanHonoured ImplementsManifestSpec LockReleased
