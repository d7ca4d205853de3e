SPECIFICATION Spec
CONSTANTS
  FnOffsets <- MCFnOffsets
  MaxArray = 2
  LoadBase = 4096
  ArrayOffset = 256
INVARIANTS
  TypeOK
  InitOrder
  CtorsBeforeMain
\* The process exits after main: the final state has no successor.
CHECK_DEADLOCK FALSE
