---------------------------- MODULE MCGetEntropy ----------------------------
(* Model-checking instance of GetEntropy.                                  *)
EXTENDS GetEntropy

\* An empty buffer, a buffer filled in up to two reads, and one over the
\* 256-byte limit.
MCLengths == {0, 2, 257}

\* getrandom() flags from the application: none, GRND_NONBLOCK, and the
\* invalid 0x666 of the unit test.
\* getrandom() lengths: empty and a two-byte buffer.
MCRandomLengths == {0, 2}

MCFlagValues == {0, GRND_NONBLOCK, 1638}
=============================================================================
