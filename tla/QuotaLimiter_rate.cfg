SPECIFICATION Spec
CONSTANTS
  a1 = a1
  Agents <- OneAgent
  Limits <- MCLimits
  TicksPerSecond = 2
  SecondsPerMinute = 2
  Scale = 2
  MaxTime = 10
  MaxAdmitted = 8
CHECK_DEADLOCK FALSE
INVARIANTS
  TypeOK
  AdmittedBound
  PollingRestores
