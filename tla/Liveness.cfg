\* Callers that keep calling, a provider that may never answer, a crash or a lost lock.
SPECIFICATION LiveSpec
CONSTANTS
  Passes = {p1, p2}
  NoPass = NoPass
  Contracts <- JustThreeAttempts
  InitialRecords <- Nothing
  Authorizations = {FALSE}
  Verdicts = {"proceed"}
  Doubts = {}
  Async = FALSE
  DecidedAts = {}
  Expiries = {}
  Lateness = 1
  MaxClock = 9
  MaxVersion = 20
  MaxFaults = 1
PROPERTIES CallsReturn EventuallySettled
CHECK_DEADLOCK FALSE
