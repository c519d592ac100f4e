CONSTANTS
  r1 = r1
  r2 = r2
  c1 = c1
  c2 = c2
  d1 = d1
  d2 = d2
  Runs = {r1}
  Cleaners = {c1, c2}
  Cargo = Cargo
  Descendants = {d1, d2}
  Nobody = Nobody
  NoRun = NoRun
SPECIFICATION FairSpec
INVARIANTS NoRemovalUnderWriter ScratchUnderNobody FoundOwnerless PayloadVisible SummaryTrue
PROPERTY ScratchBounded
