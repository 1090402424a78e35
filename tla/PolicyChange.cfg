\* A deploy turns retries off between two attempts.
SPECIFICATION Spec
CONSTANTS
  Passes = {p1}
  NoPass = NoPass
  Contracts <- PolicyDeploy
  InitialRecords <- Nothing
  Authorizations = {FALSE}
  Verdicts = {"proceed"}
  Doubts = {}
  Async = FALSE
  DecidedAts = {}
  Expiries = {}
  Lateness = 1
  MaxClock = 4
  MaxVersion = 6
  MaxFaults = 0
PROPERTIES PolicyAppliesToOpenOperations
CHECK_DEADLOCK FALSE
