SPECIFICATION FairSpec
CONSTANTS
  Requests <- MCRequests
  p1 = p1
  p2 = p2
  Inputs <- MCInputs
  a1 = a1
  a2 = a2
  k1 = k1
  NoAgent = NoAgent
  Agents <- MCAgents
  Keys <- MCKeys
  OwnerIn <- MCOwnerIn
  AllowedIn <- MCAllowedIn
  MaxVersion = 1
  MaxSent = 1
  MaxRestarts = 1
  Faults = {"upstream", "hijack", "disk_full"}
CHECK_DEADLOCK FALSE
INVARIANTS
  TypeOK
  AuditTellsTheTruth
  DenialsOnRecord
  ForwardedIsAuthorised
  ClientCloseCounted
PROPERTIES
  AuditNeverBlocks
  TunnelsWindDown
