\* Two callers, any intent, contract and deploy, one fault.
SPECIFICATION Spec
CONSTANTS
  Passes = {p1, p2}
  NoPass = NoPass
  Contracts <- AllContracts
  Intents <- SomeIntents
  MaxVersion = 2
  MaxFaults = 1
SYMMETRY Callers
INVARIANTS HooksSeeRecordedIntent ResendAccepted
PROPERTIES OnlyOwnOperation
CHECK_DEADLOCK FALSE
