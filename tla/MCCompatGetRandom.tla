------------------------- MODULE MCCompatGetRandom -------------------------
(* Model-checking instance of CompatGetRandom.                             *)
EXTENDS CompatGetRandom, TLC

CONSTANTS t1, t2

MCThreads == {t1, t2}

\* 0, each valid combination of GRND_NONBLOCK and GRND_RANDOM, and the
\* invalid 0x666 of the unit test.
MCFlagValues == {0, GRND_NONBLOCK, GRND_RANDOM, GRND_RANDOM + GRND_NONBLOCK, 1638}

\* Only the urandom flags, as a caller that never sets GRND_RANDOM.
MCFlagValuesNoRandom == {0, GRND_NONBLOCK, 1638}

\* The threads run the same code: any permutation of them is a symmetry.
MCSymmetry == Permutations(MCThreads)
=============================================================================
