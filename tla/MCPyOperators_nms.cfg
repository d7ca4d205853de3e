SPECIFICATION Spec
CONSTANTS
  Extents = {1, 2}
  UserObjects <- MCNmsObjects
  OutShapes <- MCOutShapes
  OutSizeLists <- MCOutSizeLists
  MaxObjs = 5
  MaxJobs = 2
INVARIANT
  NmsInputsAgree
\* Every object id is used once and the stream drains: the model stops
\* when MaxObjs objects exist and no work is pending.
CHECK_DEADLOCK FALSE
