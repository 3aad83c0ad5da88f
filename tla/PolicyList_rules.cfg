SPECIFICATION Spec
CONSTANTS
  AnyAgent = AnyAgent
  NoAgent = NoAgent
  None = None
  a1 = a1
  a2 = a2
  GET = GET
  POST = POST
  prod = prod
  dev = dev
  Bodies <- MCBodies
  Contexts <- MCContexts
  Files <- MCFiles
  MaxRules = 2
  Ops <- AllOps
INVARIANTS
  TypeOK
  ConflictsExact
  ZoneFollowsDenyRules
PROPERTY
  EditsStayLocal
