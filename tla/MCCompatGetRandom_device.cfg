\* Callers mixing GRND_RANDOM with plain calls: does each read hit the
\* device its flags select?
CONSTANTS
  t1 = t1
  t2 = t2
  Threads <- MCThreads
  FlagValues <- MCFlagValues
  MaxFd = 5
  StdinOpen = TRUE
  WeakCasSpurious = FALSE
SPECIFICATION Spec
SYMMETRY MCSymmetry
INVARIANT ReadsRequestedDevice
