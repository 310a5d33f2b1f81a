\* An optional field and a list, operators nested twice; lists in lists, operators once.
SPECIFICATION Spec
CONSTANTS
  Fields = {"optional", "list", "nested"}
  Atoms <- FieldAtoms
  Hosts <- FieldHosts
  Depth <- FieldDepth
INVARIANTS OptimizerKeepsMeaning TextKeepsMeaning HitsMatch MatchesHit
CHECK_DEADLOCK FALSE
