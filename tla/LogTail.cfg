SPECIFICATION Spec
CONSTANTS
  Bytes = {a, b}
  Zero = Zero
  Requested = 5
  MaxChunk = 7
INVARIANTS
  IInv
PROPERTIES
  ImplementsTail
