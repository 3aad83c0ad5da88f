SPECIFICATION Spec
CONSTANTS
  s1 = s1
  s2 = s2
  Shells = {s1, s2}
  None = None
  Schema <- MCSchema
  Dashed <- MCDashed
  Dotted <- MCDotted
  Printed <- MCPrinted
  Spaced <- MCSpaced
  Names <- MCNames
  Commands <- MCCommands
  FirstTyped <- MCFirstTyped
  Read <- MCRead
  Units <- MCUnits
  MaxSets = 2
  MaxRev = 2
  MaxFaults = 1
SYMMETRY Symmetry
INVARIANTS
  TypeOK
  LoneSetsKept
  AppliedIsLive
  RulesFollowCommands
  PlanFollowsCommands
  ShownCommandsRestore
PROPERTIES
  CommitIsOwn
CHECK_DEADLOCK FALSE
