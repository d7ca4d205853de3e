\* x86-64 build, stdin open, two threads, every flags value.
CONSTANTS
  t1 = t1
  t2 = t2
  Threads <- MCThreads
  FlagValues <- MCFlagValues
  MaxFd = 5
  StdinOpen = TRUE
  WeakCasSpurious = FALSE
SPECIFICATION Spec
SYMMETRY MCSymmetry
INVARIANT TypeOK
INVARIANT FdRandomAssert
INVARIANT ReadsOwnMode
INVARIANT NoLeakedFd
PROPERTY CacheStable
PROPERTY AtomicCalls
