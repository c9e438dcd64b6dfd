SPECIFICATION Spec
CONSTANTS
  Writers = {w1, w2, w3}
  AppendRetries = 2
  MaxCalls = 2
INVARIANTS ChainVerifies TamperEvident
PROPERTIES RaisesOnlyContended ImplementsContract
SYMMETRY WriterSymmetry
CHECK_DEADLOCK FALSE
