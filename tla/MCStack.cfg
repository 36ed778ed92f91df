SPECIFICATION Spec
CONSTANTS
  Capacity = 4
  Item = {z, x, y}
  Zero = z
  NULL = NULL
  RESET_MAX = 2
INVARIANTS
  TypeOK
PROPERTIES
  ImplementsSequence
