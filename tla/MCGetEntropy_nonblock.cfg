\* getrandom(..., GRND_NONBLOCK) on a kernel with SYS_getrandom.
CONSTANTS
  Lengths <- MCLengths
  RandomLengths <- MCRandomLengths
  FlagValues <- MCFlagValues
  MaxEintr = 1
SPECIFICATION Spec
INVARIANT NonblockNeverWaits
