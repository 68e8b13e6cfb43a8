CONSTANTS
  FileLen = 3
  BlockLen = 2
  Uninitialized = {0}
  MarkedFiles = {{}}
SPECIFICATION Spec
INVARIANTS
  Delivered
