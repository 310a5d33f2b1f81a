\* One name, two sibling lists.
SPECIFICATION Spec
CONSTANTS
  Names = {x}
  Types = {str, expr, stmt}
  Referable = {str, expr}
  MaxScopes = 3
  MaxSeen = 4
INVARIANT LinearAccess
CHECK_DEADLOCK FALSE
