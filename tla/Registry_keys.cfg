SPECIFICATION Spec
CONSTANTS
  a1 = a1
  a2 = a2
  k1 = k1
  k2 = k2
  Ids = {a1, a2}
  Keys = {k1, k2}
  None = None
  FirstDocs <- MCFirstDocs
  Backends = {"file", "sqlite"}
  MaxCalls = 2
INVARIANTS
  TypeOK
  GatewayKnowsTheRegistered
  IndicesAgree
  SavedWhole
  RowsResolve
CHECK_DEADLOCK FALSE
