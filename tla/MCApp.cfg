CONSTANTS
  first = first  second = second  third = third
  Crates = {first, second, third}  Plans <- MCPlans  Pair <- MCPair
  Nowhere = Nowhere  NoJob = NoJob  NoQuestion = NoQuestion  NoRequest = NoRequest
  NoCrate = NoCrate  NoQueue = NoQueue  NoBatch = NoBatch  NoReport = NoReport
  NoEvent = NoEvent
SPECIFICATION FairSpec
INVARIANTS AllHere PlanShown MutationAlone SummaryTrue
PROPERTIES AnswersWanted StopHeeded QuitWaits QueueEnds
CHECK_DEADLOCK FALSE
