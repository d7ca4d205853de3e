------------------------------- MODULE Version -------------------------------
(***************************************************************************)
(* NVCV version numbers (src/src/nvcv_types/include/nvcv/VersionDef.h).    *)
(* NVCV_MAKE_VERSION(major[, minor[, patch[, tweak]]]) picks one of        *)
(* NVCV_MAKE_VERSION1..4 by counting its arguments and packs the           *)
(* components into a uint32_t as major*1000000 + minor*10000 + patch*100 + *)
(* tweak.  The header promises that "Integer versions can be compared,     *)
(* recent versions are greater than older ones."                           *)
(*                                                                         *)
(* A preprocessor invocation is a sequence of 1 to 4 components.  The      *)
(* model compares the numbers of two invocations x and y.                  *)
(*                                                                         *)
(* The API selection: a translation unit may define NVCV_VERSION_API       *)
(* before including the header (apiDef); the header checks it with a #if  *)
(* against MAJOR.0 .. MAJOR.MINOR, or defines it as MAJOR.MINOR.          *)
(***************************************************************************)
EXTENDS Integers, Sequences, FiniteSets

CONSTANTS
  Majors,       \* values tried for the major component
  Components,   \* values tried for minor, patch and tweak
  ApiDefs,      \* NVCV_MAKE_VERSION arguments a user defines NVCV_VERSION_API as
  Undefined     \* NVCV_VERSION_API not defined by the user

ASSUME Majors \subseteq 0..2146 /\ Components \subseteq Nat

\* The argument lists NVCV_MAKE_VERSION may be called with.
Args ==      {<<a>> : a \in Majors}
         \cup {<<a, b>> : a \in Majors, b \in Components}
         \cup {<<a, b, c>> : a \in Majors, b, c \in Components}
         \cup {<<a, b, c, d>> : a \in Majors, b, c, d \in Components}

VARIABLES
  x, y,    \* two NVCV_MAKE_VERSION invocations
  apiDef   \* the user's NVCV_VERSION_API definition, or Undefined

vars == <<x, y, apiDef>>

---------------------------------------------------------------------------

\* ((uint32_t)((major)*1000000 + (minor)*10000 + (patch)*100 + (tweak))).
\* TLC integers are 32-bit signed, so the model keeps majors below 2147,
\* where the uint32_t cast is the identity; the wrap above 4294 is not
\* modelled.
NVCV_MAKE_VERSION4(major, minor, patch, tweak) ==
  major * 1000000 + minor * 10000 + patch * 100 + tweak

\* Mutant: the three-argument form passes patch as the tweak component.
NVCV_MAKE_VERSION3Swapped(major, minor, patch) ==
  NVCV_MAKE_VERSION4(major, minor, 0, patch)

NVCV_MAKE_VERSION3(major, minor, patch) == NVCV_MAKE_VERSION4(major, minor, patch, 0)
NVCV_MAKE_VERSION2(major, minor) == NVCV_MAKE_VERSION4(major, minor, 0, 0)
NVCV_MAKE_VERSION1(major) == NVCV_MAKE_VERSION4(major, 0, 0, 0)

\* NVCV_DETAIL_GET_MACRO(__VA_ARGS__, VERSION4, VERSION3, VERSION2,
\* VERSION1)(__VA_ARGS__): the argument count selects the macro.
NVCV_MAKE_VERSION(v) ==
  CASE Len(v) = 4 -> NVCV_MAKE_VERSION4(v[1], v[2], v[3], v[4])
    [] Len(v) = 3 -> NVCV_MAKE_VERSION3(v[1], v[2], v[3])
    [] Len(v) = 2 -> NVCV_MAKE_VERSION2(v[1], v[2])
    [] Len(v) = 1 -> NVCV_MAKE_VERSION1(v[1])

---------------------------------------------------------------------------

\* NVCV_VERSION_MAJOR and NVCV_VERSION_MINOR of this release.
NVCV_VERSION_MAJOR == 0
NVCV_VERSION_MINOR == 3
\* The value of NVCV_VERSION_API when the translation unit does not compile.
Rejected == -1

\* NVCV_MAKE_VERSION inside a #if.  After macro expansion the preprocessor
\* replaces every remaining identifier by 0, so the cast of
\* NVCV_MAKE_VERSION4, ((uint32_t)(e)), becomes ((0)(e)): an operand
\* followed by a parenthesis, which is not a #if expression.
\* A #if operand: well-formed with a value, or not an expression.
IllFormed == [wf |-> FALSE, v |-> 0]
PPMakeVersion(v) == IllFormed

\* #if operators: an ill-formed operand makes the expression ill-formed.
PPLess(a, b) == [wf |-> a.wf /\ b.wf, v |-> a.wf /\ b.wf /\ a.v < b.v]
PPOr(p, q) == [wf |-> p.wf /\ q.wf, v |-> p.wf /\ q.wf /\ (p.v \/ q.v)]

\* #ifdef NVCV_VERSION_API: #if API < MAKE_VERSION(MAJOR) ||
\* API > MAKE_VERSION(MAJOR, MINOR) then #error; the user writes the API
\* with NVCV_MAKE_VERSION too.  A directive that is ill-formed or true
\* stops the compilation.  #else: #define NVCV_VERSION_API
\* NVCV_MAKE_VERSION(MAJOR, MINOR), used in C++ expressions.
NVCV_VERSION_API ==
  IF apiDef = Undefined
  THEN NVCV_MAKE_VERSION(<<NVCV_VERSION_MAJOR, NVCV_VERSION_MINOR>>)
  ELSE LET api == PPMakeVersion(apiDef)
           cond == PPOr(PPLess(api, PPMakeVersion(<<NVCV_VERSION_MAJOR>>)),
                        PPLess(PPMakeVersion(<<NVCV_VERSION_MAJOR, NVCV_VERSION_MINOR>>), api))
       IN  IF cond.wf /\ ~cond.v THEN NVCV_MAKE_VERSION(apiDef) ELSE Rejected

---------------------------------------------------------------------------

Init == x \in Args /\ y \in Args /\ apiDef \in {Undefined} \cup ApiDefs

\* The preprocessor evaluates another invocation on either side.
NewX == x' \in Args /\ UNCHANGED <<y, apiDef>>
NewY == y' \in Args /\ UNCHANGED <<x, apiDef>>

\* Another translation unit, with its own NVCV_VERSION_API definition.
DefineApi == apiDef' \in {Undefined} \cup ApiDefs /\ UNCHANGED <<x, y>>

Next == NewX \/ NewY \/ DefineApi

Spec == Init /\ [][Next]_vars

---------------------------------------------------------------------------
(* Reference: versions ordered component by component, missing ones 0.     *)

Padded(v) == [i \in 1..4 |-> IF i <= Len(v) THEN v[i] ELSE 0]

RECURSIVE LexLess(_, _, _)
LexLess(a, b, i) ==
  IF i > 4 THEN FALSE
  ELSE IF a[i] # b[i] THEN a[i] < b[i]
  ELSE LexLess(a, b, i + 1)

OlderThan(v, w) == LexLess(Padded(v), Padded(w), 1)

\* Comparing NVCV_MAKE_VERSION numbers orders versions: x's number is
\* smaller than y's exactly when version x is older than version y, for
\* every way of writing them (1 to 4 components).
OrderPreserved ==
  (NVCV_MAKE_VERSION(x) < NVCV_MAKE_VERSION(y)) <=> OlderThan(x, y)

\* The APIs this release supports: MAJOR.0 up to MAJOR.MINOR.
SupportedApis == {<<NVCV_VERSION_MAJOR, m>> : m \in 0..NVCV_VERSION_MINOR}

\* "User can override the version by defining this macro before including
\* NVCV headers" (VersionDef.h:150), and the spec: callers may select a
\* supported API version, and out-of-range selections are a compile-time
\* error.  A translation unit compiles exactly when it selects no API or
\* one of the supported ones.
ApiSelection ==
  (NVCV_VERSION_API # Rejected) <=>
    (apiDef = Undefined \/ \E a \in SupportedApis : Padded(a) = Padded(apiDef))

=============================================================================
