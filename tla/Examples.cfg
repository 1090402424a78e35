\* Every example, from every start, with three faults or changes by others.
SPECIFICATION Spec
CONSTANTS
  Workers = {w1, w2}
  NoWorker = NoWorker
  Starts <- AllStarts
  Readable = 2
  MaxObservations = 3
  MaxPolls = 5
  MaxClock = 2
  MaxFaults = 3
INVARIANTS OneEffect AnswerIsTrue NoFalseAlarm HistoryKeepsEnds RowTellsTruth
PROPERTIES RowsRepaired
CHECK_DEADLOCK FALSE
