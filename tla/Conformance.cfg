\* Every policy and window, right contracts and those broken in one or two ways.
SPECIFICATION Spec
CONSTANTS
  Contracts <- AllContracts
  Options <- AllOptions
INVARIANTS GoodContractsPass BadContractsFail
