\* A process that starts with descriptor 0 closed (a daemon).
CONSTANTS
  t1 = t1
  t2 = t2
  Threads <- MCThreads
  FlagValues <- MCFlagValuesNoRandom
  MaxFd = 5
  StdinOpen = FALSE
  WeakCasSpurious = FALSE
SPECIFICATION Spec
SYMMETRY MCSymmetry
INVARIANT FdRandomAssert
