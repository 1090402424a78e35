\* Two callers, lost locks, crashes, late landings, a deploy that shortens the window.
SPECIFICATION Spec
CONSTANTS
  Passes = {p1, p2}
  NoPass = NoPass
  Contracts <- ShorteningDeploy
  InitialRecords <- Nothing
  Authorizations = {FALSE}
  Verdicts = {"proceed"}
  Doubts = {}
  Async = FALSE
  DecidedAts = {}
  Expiries = {}
  Lateness = 1
  MaxClock = 3
  MaxVersion = 5
  MaxFaults = 2
SYMMETRY Callers
INVARIANTS AtMostOneEffect EarlierRequestsGone OneExecutionPerAttempt HistoryIsSettled
  RetryBudget SafetyInvariant
PROPERTIES ClosedIsFinal ReobservedBeforeRetry
CHECK_DEADLOCK FALSE
