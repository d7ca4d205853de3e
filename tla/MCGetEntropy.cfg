\* Old and new kernels, pool initialised at any point, one signal per call.
CONSTANTS
  Lengths <- MCLengths
  RandomLengths <- MCRandomLengths
  FlagValues <- MCFlagValues
  MaxEintr = 1
SPECIFICATION Spec
INVARIANT TypeOK
INVARIANT FillsExactly
INVARIANT NoEintrEscapes
INVARIANT ParamTestsPass
PROPERTY GetentropyReturns
