SPECIFICATION Spec
CONSTANTS
  Capacity = 3
  Item = {z, x, y}
  Zero = z
INVARIANTS
  TypeOK
  FreeListSound
  LengthCounts
PROPERTY
  ImplementsMap
