SPECIFICATION Spec
CONSTANTS
  Handlers = {h1, h2}
  None = None
  Garbled = Garbled
  Placeholder = Placeholder
  MaxRev = 2
  MaxCommits = 2
  Slots = 1
  Files = {1}
  PlanOf <- MCPlanOf
  WithNat <- MCWithNat
  OpsModes = {"dry-run"}
  NftApplies = {TRUE}
  Faults = {}
  MaxFaults = 0
CHECK_DEADLOCK FALSE
INVARIANT KernelRunsActive
