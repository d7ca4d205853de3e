\* Every multiple of 0.1 in [-6, 6] and both signs of zero as free calls,
\* ties 0.5 .. 5.5, and every finite row of the unit-test table.
CONSTANTS
  Den = 10000
  Step = 1000
  MaxMag = 60000
SPECIFICATION Spec
INVARIANT TypeOK
INVARIANT MatchesReference
INVARIANT TestsPass
