\* One caller at a time, reviews, expiring approvals, records of older releases.
SPECIFICATION Spec
CONSTANTS
  Passes = {p1}
  NoPass = NoPass
  Contracts <- ReviewContracts
  InitialRecords <- FromAnyRelease
  Authorizations = {TRUE, FALSE}
  Verdicts = {"proceed", "requiresReview", "reject", "failed"}
  Doubts = {"UNKNOWN", "CONFLICTED"}
  Async = FALSE
  DecidedAts <- EarlyOrNone
  Expiries <- SomeTimes
  Lateness = 1
  MaxClock = 3
  MaxVersion = 6
  MaxFaults = 1
INVARIANTS TypeOK ReportIsHonest OutcomeInvariant
PROPERTIES AwaitedReviewIsOpen AttemptsAreApproved DecisionAnswersItsReview ReobservedAfterApproval
CHECK_DEADLOCK FALSE
