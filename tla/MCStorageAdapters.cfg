SPECIFICATION Spec
CONSTANTS
  u1 = u1
  u2 = u2
  u3 = u3
  Uploads = {u1, u2, u3}
  Names <- MCNames
  Dest <- MCDest
  Size <- MCSize
  Hole = Hole
  Adapters <- MCAdapters
  Prefixes <- MCPrefixes
CHECK_DEADLOCK FALSE
INVARIANTS
  TypeOK
  ReturnedIsIntact
PROPERTIES
  IntactIsKept
