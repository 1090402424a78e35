\* A deploy lengthens the window between two attempts.
SPECIFICATION Spec
CONSTANTS
  Passes = {p1}
  NoPass = NoPass
  Contracts <- LengtheningDeploy
  InitialRecords <- Nothing
  Authorizations = {FALSE}
  Verdicts = {"proceed"}
  Doubts = {}
  Async = FALSE
  DecidedAts = {}
  Expiries = {}
  Lateness = 1
  MaxClock = 4
  MaxVersion = 6
  MaxFaults = 0
PROPERTIES ReobservedAfterActingWindow
CHECK_DEADLOCK FALSE
