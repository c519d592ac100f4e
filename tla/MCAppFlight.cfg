CONSTANTS
  first = first  second = second  third = third
  Crates = {first, second, third}  Plans <- MCPlans  Pair <- MCPair
  Nowhere = Nowhere  NoJob = NoJob  NoQuestion = NoQuestion  NoRequest = NoRequest
  NoCrate = NoCrate  NoQueue = NoQueue  NoBatch = NoBatch  NoReport = NoReport
  NoEvent = NoEvent
SPECIFICATION Spec
INVARIANTS SingleFlight
CHECK_DEADLOCK FALSE
