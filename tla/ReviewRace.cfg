\* A reviewer and a caller racing across a lost lock or a crash, also on a record whose
\* review an older release left without an episode.
SPECIFICATION Spec
CONSTANTS
  Passes = {p1, p2}
  NoPass = NoPass
  Contracts <- JustReviewing
  InitialRecords <- NothingOrUnanswerable
  Authorizations = {TRUE, FALSE}
  Verdicts = {"proceed", "requiresReview"}
  Doubts = {}
  Async = FALSE
  DecidedAts <- NoTimes
  Expiries <- LateOrNone
  Lateness = 1
  MaxClock = 3
  MaxVersion = 5
  MaxFaults = 1
SYMMETRY Callers
PROPERTIES AttemptsAreApproved DecisionAnswersItsReview Promise
CHECK_DEADLOCK FALSE
