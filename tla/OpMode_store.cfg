SPECIFICATION Spec
CONSTANTS
  Handlers = {h1, h2}
  None = None
  Garbled = Garbled
  Placeholder = Placeholder
  MaxRev = 3
  MaxCommits = 3
  Slots = 2
  Files = {1}
  PlanOf <- MCPlanOf
  WithNat <- MCWithNat
  OpsModes = {"dry-run", "apply"}
  NftApplies = {TRUE, FALSE}
  Faults = {"crash", "file", "apply"}
  MaxFaults = 2
CHECK_DEADLOCK FALSE
INVARIANTS
  TypeOK
  OneWinner
  HistoryNamesActive
  AckedIsInForce
PROPERTIES
  OnlyTheExpected
  ActivationSpec
