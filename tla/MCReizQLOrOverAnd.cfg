\* (Name() & Name()) | Yield() and its like.
SPECIFICATION Spec
CONSTANTS
  Fields = {"type"}
  Atoms <- FieldAtoms
  Hosts <- FieldHosts
  Depth <- FieldDepth
INVARIANT EitherHits
CHECK_DEADLOCK FALSE
