\* The types of ten definitions in every order; pairs of expressions, in a module and
\* in a function, an annotation and an exception handler.
SPECIFICATION Spec
CONSTANTS
  Definitions <- MCDefinitions
  UniqueFields <- MCUniqueFields
  TagExclusions <- MCTagExclusions
  Positions <- MCPositions
  Trees <- MCTrees
  Prepare <- PreparedAst
  NodesOf <- EnteredNodes
INVARIANTS ReferencesResolved QueriesAccepted TreeKept AllLinked TagsIdentify
CHECK_DEADLOCK FALSE
