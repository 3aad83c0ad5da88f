SPECIFICATION Spec
CONSTANTS
  AnyAgent = AnyAgent
  NoAgent = NoAgent
  None = None
  Unwritten = Unwritten
  a1 = a1
  GET = GET
  h1 = h1
  h2 = h2
  x1 = x1
  x2 = x2
  r1 = r1
  Bodies <- FourBodies
  Contexts <- TwoHosts
  Files <- MCFiles
  MaxRules = 3
  MaxSeen = 2
  MaxCap = 4
  Ops <- AllOps
  Readers <- OneReader
  Arrays <- TwoArrays
INVARIANTS
  DecisionOfSomeList
PROPERTIES
  ListSpec
