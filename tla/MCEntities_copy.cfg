\* Programs of two objects that build, copy, use and destroy tensors,
\* images and Remap / BndBox operators in any order.
CONSTANTS
  o1 = o1  o2 = o2
  x1 = x1  x2 = x2
  Objs <- MCObjs
  Handles <- MCHandles
  NoHandle = NoHandle
SPECIFICATION Spec
INVARIANT NoInvalidHandleUse
\* The handles run out and every object is eventually destroyed: the
\* program ends there.
CHECK_DEADLOCK FALSE
