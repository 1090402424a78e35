\* An asynchronous provider, uncertain answers, and deploys of every kind, one fault.
SPECIFICATION Spec
CONSTANTS
  Passes = {p1}
  NoPass = NoPass
  Contracts <- AnyDeploy
  InitialRecords <- Nothing
  Authorizations = {FALSE}
  Verdicts = {"proceed"}
  Doubts = {"UNKNOWN", "CONFLICTED"}
  Async = TRUE
  DecidedAts = {}
  Expiries = {}
  Lateness = 1
  MaxClock = 3
  MaxVersion = 6
  MaxFaults = 1
INVARIANTS ReportIsHonest SafetyInvariant
PROPERTIES Promise
CHECK_DEADLOCK FALSE
