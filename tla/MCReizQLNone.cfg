\* Yield(value = None).
SPECIFICATION Spec
CONSTANTS
  Fields = {"none"}
  Atoms <- FieldAtoms
  Hosts <- FieldHosts
  Depth <- FieldDepth
INVARIANT MatcherHitsType
CHECK_DEADLOCK FALSE
