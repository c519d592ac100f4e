CONSTANTS N = 2
SPECIFICATION FairSpec
INVARIANTS OneWinner EndTrue PasswordInTime
PROPERTIES StoppedMeansStopped GroupEmptied StopEnds
CHECK_DEADLOCK FALSE
