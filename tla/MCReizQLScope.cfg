\* Two names, fields of three types, up to three scopes and four references.
SPECIFICATION Spec
CONSTANTS
  Names = {x, y}
  Types = {str, expr, stmt}
  Referable = {str, expr}
  MaxScopes = 3
  MaxSeen = 4
INVARIANTS TypeOK CompiledIffUsed SameType
CHECK_DEADLOCK FALSE
