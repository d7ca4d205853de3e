------------------------------ MODULE RoundEven ------------------------------
(***************************************************************************)
(* Compat_roundevenf and Compat_roundeven (src/src/util/Compat.c.in): round *)
(* half to even, built from round() (half away from zero), a tie test and  *)
(* copysign().  Both have the same body; only the width differs.           *)
(*                                                                         *)
(* A real number is a sign and a magnitude in fixed point: mag / Den.      *)
(* The sign is kept apart so that -0.0 is a value, as in IEEE arithmetic   *)
(* (the unit test expects roundeven(-0.1) = -0.0).  For the values the     *)
(* model takes, the subtraction px - rounded is exact in binary floating  *)
(* point, so fixed point loses nothing the code can tell apart.            *)
(***************************************************************************)
EXTENDS Integers, FiniteSets

CONSTANTS
  Den,      \* fixed-point denominator: values are multiples of 1/Den
  Step,     \* free calls take multiples of Step / Den
  MaxMag    \* largest input magnitude, in units of 1/Den

\* The unit-test table has inputs such as 0.4999: Den must resolve 1/10000.
ASSUME Den \in Nat /\ Den % 10000 = 0 /\ Step \in Nat /\ Step > 0 /\ MaxMag \in Nat

\* A floating-point value: sign bit and magnitude.
Num(neg, mag) == [neg |-> neg, mag |-> mag]
Inputs == {Num(s, k * Step) : s \in BOOLEAN, k \in 0..(MaxMag \div Step)}

---------------------------------------------------------------------------
(* MakeRoundEvenParams, the table of CompatRoundEvenFParamTest and         *)
(* CompatRoundEvenParamTest (nvcv/Tensor.hpp): <<input, gold result>>.      *)
(* P and N are +x and -x for x in units of 1/10000.  numeric_limits'       *)
(* min() and denorm_min() are below the grid: the smallest positive value  *)
(* of the model (1/Den) stands for them, on the same path of the code      *)
(* (rounded = 0, not a tie).  The infinity and NaN rows are left out.      *)
P(x) == Num(FALSE, x * (Den \div 10000))
N(x) == Num(TRUE, x * (Den \div 10000))
Tiny(neg) == Num(neg, 1)

MakeRoundEvenParams ==
  {<<P(k * 10000), P(k * 10000)>> : k \in 1..5} \cup
  {<<N(k * 10000), N(k * 10000)>> : k \in 1..5} \cup
  { <<P(1000), P(0)>>,  <<N(1000), N(0)>>,  <<P(2000), P(0)>>,  <<N(2000), N(0)>>,
    <<P(3000), P(0)>>,  <<N(3000), N(0)>>,  <<P(4990), P(0)>>,  <<N(4999), N(0)>>,
    <<P(5000), P(0)>>,  <<N(5000), N(0)>>,  <<P(5001), P(10000)>>, <<N(5001), N(10000)>>,
    <<P(7000), P(10000)>>, <<N(7000), N(10000)>>, <<P(11000), P(10000)>>, <<N(11000), N(10000)>>,
    <<P(12000), P(10000)>>, <<N(12000), N(10000)>>, <<P(13000), P(10000)>>, <<N(13000), N(10000)>>,
    <<P(14990), P(10000)>>, <<N(14999), N(10000)>>, <<P(15000), P(20000)>>, <<N(15000), N(20000)>>,
    <<P(15001), P(20000)>>, <<N(15001), N(20000)>>, <<P(17000), P(20000)>>, <<N(17000), N(20000)>>,
    <<P(0), P(0)>>, <<N(0), N(0)>>,
    <<Tiny(FALSE), P(0)>>, <<Tiny(TRUE), N(0)>> }

\* No gold value (no magnitude is negative): the last call was not a test row.
NoGold == Num(FALSE, -1)

VARIABLES
  in,     \* argument of the last call
  out,    \* its result
  gold    \* the gold result of the test row that made the call, or NoGold

vars == <<in, out, gold>>

---------------------------------------------------------------------------
(* libm primitives the code calls, on magnitudes in units of 1/Den.        *)

\* Mutant: roundf replaced by px + 0.5 without the floor.
RoundAwayNoFloor(m) == m + Den \div 2

\* roundf(px) for px >= 0: the nearest integer, halfway cases away from 0.
RoundAway(m) == ((2 * m + Den) \div (2 * Den)) * Den

\* Mutant: the parity test inverted (fmodf(rounded, 2.0f) == 0).
IsOddFlipped(m) == (m \div Den) % 2 = 0

\* fmodf(rounded, 2.0f) != 0 for an integral rounded >= 0.
IsOdd(m) == (m \div Den) % 2 = 1

\* Mutant: the result takes the sign of rounded (always +) instead of x.
Compat_roundevenfNoSign(x) ==
  LET px      == x.mag
      rounded == RoundAway(px)
      tie     == 2 * (rounded - px) = Den \/ 2 * (px - rounded) = Den
  IN  Num(FALSE, IF tie /\ IsOdd(rounded) THEN rounded - Den ELSE rounded)

\* px = fabsf(x); rounded = roundf(px);
\* if (fabsf(px - rounded) == 0.5f && fmodf(rounded, 2.0f) != 0) rounded -= 1;
\* return copysignf(rounded, x);
Compat_roundevenf(x) ==
  LET px      == x.mag
      rounded == RoundAway(px)
      tie     == 2 * (rounded - px) = Den \/ 2 * (px - rounded) = Den
  IN  Num(x.neg, IF tie /\ IsOdd(rounded) THEN rounded - Den ELSE rounded)

\* The double version: the same steps with fabs, round, fmod, copysign.
Compat_roundeven(x) ==
  LET px      == x.mag
      rounded == RoundAway(px)
      tie     == 2 * (rounded - px) = Den \/ 2 * (px - rounded) = Den
  IN  Num(x.neg, IF tie /\ IsOdd(rounded) THEN rounded - Den ELSE rounded)

---------------------------------------------------------------------------
(* The callers: roundevenf/roundeven on any input, and the two tests.      *)

CallF(x) == in' = x /\ out' = Compat_roundevenf(x) /\ gold' = NoGold
CallD(x) == in' = x /\ out' = Compat_roundeven(x) /\ gold' = NoGold

\* CompatRoundEvenFParamTest: result = Compat_roundevenf(input), compared
\* with the gold result bit for bit.
TestF(row) ==
  in' = row[1] /\ out' = Compat_roundevenf(row[1]) /\ gold' = row[2]

\* CompatRoundEvenParamTest, meant for the double version, also calls
\* Compat_roundevenf.  The table's doubles convert to floats on the same
\* path of the code, so the value is Compat_roundevenf of the row's input.
TestD(row) ==
  in' = row[1] /\ out' = Compat_roundevenf(row[1]) /\ gold' = row[2]

Init == in = Num(FALSE, 0) /\ out = Num(FALSE, 0) /\ gold = NoGold

Next ==
  \/ \E x \in Inputs : CallF(x) \/ CallD(x)
  \/ \E row \in MakeRoundEvenParams : TestF(row) \/ TestD(row)

Spec == Init /\ [][Next]_vars

---------------------------------------------------------------------------
(* Reference: IEEE 754 roundTiesToEven applied to an integral result.      *)

\* The integer multiples of Den nearest to m: one, or two on a tie.
Nearest(m) ==
  LET lo == (m \div Den) * Den
      hi == IF m % Den = 0 THEN lo ELSE lo + Den
  IN  IF 2 * (m - lo) < Den THEN {lo}
      ELSE IF 2 * (m - lo) > Den THEN {hi}
      ELSE {lo, hi}

\* Round half to even, keeping the sign of the argument (so -0.4 -> -0.0).
RoundHalfEven(x) ==
  Num(x.neg, CHOOSE n \in Nearest(x.mag) :
               Cardinality(Nearest(x.mag)) = 1 \/ (n \div Den) % 2 = 0)

TypeOK ==
  /\ in \in Inputs \cup {row[1] : row \in MakeRoundEvenParams}
  /\ out \in {Num(s, k * Den) : s \in BOOLEAN, k \in 0..(MaxMag \div Den + 1)}
  /\ gold \in {row[2] : row \in MakeRoundEvenParams} \cup {NoGold}

\* Every result of Compat_roundevenf and Compat_roundeven is the
\* round-half-to-even of its argument, with the argument's sign: halfway
\* cases go to the even neighbour and small negatives give -0.0.
MatchesReference == out = RoundHalfEven(in)

\* The roundeven unit tests pass: for every row of MakeRoundEvenParams the
\* result of Compat_roundevenf has the gold value's bits, sign included:
\* 0.5 -> +0.0, -0.5 -> -0.0, 1.5 -> 2, -0.4999 -> -0.0, 0.5001 -> 1.
TestsPass == gold # NoGold => out = gold

=============================================================================
