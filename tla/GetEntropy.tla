----------------------------- MODULE GetEntropy -----------------------------
(***************************************************************************)
(* The weak getrandom() wrapper and Compat_getentropy of                   *)
(* src/src/util/Compat.c.in, with the kernel behind them.                  *)
(*                                                                         *)
(* getrandom() first issues the raw SYS_getrandom syscall and falls back   *)
(* to Compat_getrandom when the kernel answers ENOSYS.  Compat_getentropy  *)
(* rejects lengths above 256 and otherwise calls getrandom() in a loop     *)
(* until the buffer is full, retrying on EINTR and failing with EIO when   *)
(* no byte comes back.                                                     *)
(*                                                                         *)
(* Bytes are counted, not stored.  The kernel's entropy pool starts        *)
(* uninitialised and becomes ready at some point; a syscall without        *)
(* GRND_NONBLOCK blocks until then and can be interrupted by signals.      *)
(* Compat_getrandom (modelled step by step in CompatGetRandom) is seen     *)
(* here through its results: -1 with errno from open() or read(), or a     *)
(* byte count returned by read().                                          *)
(***************************************************************************)
EXTENDS Integers, Bitwise

CONSTANTS
  Lengths,        \* buffer lengths callers pass to getentropy()
  RandomLengths,  \* buffer lengths callers pass to getrandom()
  FlagValues,     \* flags callers pass to getrandom()
  MaxEintr        \* signals that may interrupt one public call

ASSUME Lengths \cup RandomLengths \subseteq Nat /\ FlagValues \subseteq Nat /\ MaxEintr \in Nat

GRND_NONBLOCK == 1
GRND_RANDOM   == 2

\* errno values
Errnos == {"none", "EINTR", "EIO", "EAGAIN", "EINVAL", "EMFILE", "ENOSYS", "EFAULT"}

\* Compat_getentropy's limit
MaxEntropyLength == 256

\* The buffers of the unit tests: g_buf, NULL and (void *)0x666.  The
\* kernel fails a copy of n > 0 bytes to the last two with EFAULT.
Buffers == {"good", "null", "bad"}

\* (size_t)-1 of the unit test.  No code on its path does arithmetic on it,
\* so TLC's largest integer stands for it.
SIZE_MAX == 2147483647

---------------------------------------------------------------------------
(* The tables of CompatGetRandomParamTest, CompatGetRandomExecTest,        *)
(* CompatGetEntropyParamTest and CompatGetEntropyExecTest (nvcv/Tensor.hpp)*)
(* as rows: the function called, its arguments and the gold results.      *)
(* gold_errno "none" is the tables' "0 /*ignored*/".                       *)
Row(api, b, n, f, r, e) ==
  [api |-> api, buffer |-> b, length |-> n, flags |-> f, gold_retval |-> r, gold_errno |-> e]

CompatGetRandomParams ==
  { Row("Compat_getrandom", "null", 1,        0,    -1,  "EFAULT"),
    Row("Compat_getrandom", "bad",  1,        0,    -1,  "EFAULT"),
    Row("Compat_getrandom", "bad",  SIZE_MAX, 0,    -1,  "EFAULT"),
    Row("Compat_getrandom", "good", 1,        1638, -1,  "EINVAL"),
    Row("Compat_getrandom", "good", 256,      0,    256, "none"),
    Row("Compat_getrandom", "good", 1,        0,    1,   "none"),
    Row("Compat_getrandom", "good", 0,        0,    0,   "none") } \cup
  {Row("Compat_getrandom", "good", 256, f, 256, "none") :
     f \in {0, GRND_NONBLOCK, GRND_RANDOM, GRND_RANDOM + GRND_NONBLOCK}}

CompatGetEntropyParams ==
  { Row("getentropy", "null", 1,   0, -1, "EFAULT"),
    Row("getentropy", "bad",  1,   0, -1, "EFAULT"),
    Row("getentropy", "good", 257, 0, -1, "EIO"),
    Row("getentropy", "good", 256, 0, 0,  "none"),
    Row("getentropy", "good", 1,   0, 0,  "none"),
    Row("getentropy", "good", 0,   0, 0,  "none"),
    Row("getentropy", "good", 255, 0, 0,  "none") }

TestRows == CompatGetRandomParams \cup CompatGetEntropyParams

\* No test row: a call of the application.
NoTest == Row("none", "good", 0, 0, 0, "none")

VARIABLES
  hasSyscall,  \* does the running kernel implement SYS_getrandom (>= 3.17)?
  poolReady,   \* has the kernel's random pool been initialised?
  api,         \* the public call in progress: "getentropy" or "getrandom"
  pc,          \* where the call is
  len,         \* getentropy: length of the buffer
  filled,      \* getentropy: bytes already written (buffer - start)
  req,         \* length passed to the current getrandom()
  gflags,      \* flags passed to the current getrandom()
  nbytes,      \* result of the current getrandom()
  ret,         \* return value of the public call
  errno,
  eintr,       \* signals delivered during the current public call
  buffer,      \* the buffer of the current public call (Buffers)
  test         \* the test row that made the call, or NoTest

vars == <<hasSyscall, poolReady, api, pc, len, filled, req, gflags, nbytes,
          ret, errno, eintr, buffer, test>>

Steps == {"idle", "loop", "syscall", "compat", "got", "done"}

---------------------------------------------------------------------------
(* The flags SYS_getrandom is issued with: syscall(SYS_getrandom, buffer,   *)
(* length, 0).                                                             *)
KernelFlags(f) == 0

\* A syscall that would wait for the pool: no GRND_NONBLOCK, pool not ready.
SyscallWaits == ~poolReady /\ (KernelFlags(gflags) & GRND_NONBLOCK) = 0

\* The public call returns r with errno e.
Return(r, e) ==
  /\ ret' = r
  /\ errno' = e
  /\ pc' = "done"

\* getrandom() returned n with errno e: back to the caller of getrandom().
GetrandomReturns(n, e) ==
  /\ nbytes' = n
  /\ errno' = e
  /\ pc' = "got"
  /\ UNCHANGED ret

\* The unit tests run on a healthy kernel, as they assume ("when using
\* urandom, it's guaranteed that it'll return at least 256 bytes"): an
\* answer that is an error the caller did not cause (EINTR, EAGAIN,
\* EMFILE) or a short count (fault) happens only to the application's calls.
Healthy(fault) == fault => test = NoTest

---------------------------------------------------------------------------
(* Entry points                                                            *)

\* Mutant: the length > 256 check is missing.
GetentropyNoLimit(n, b) ==
  /\ pc = "idle"
  /\ api' = "getentropy"
  /\ len' = n
  /\ filled' = 0
  /\ eintr' = 0
  /\ buffer' = b
  /\ pc' = "loop"
  /\ UNCHANGED <<ret, errno, hasSyscall, poolReady, req, gflags, nbytes>>

\* Mutant: the limit is off by one (length >= 256 fails).
GetentropyOffByOne(n, b) ==
  /\ pc = "idle"
  /\ api' = "getentropy"
  /\ len' = n
  /\ filled' = 0
  /\ eintr' = 0
  /\ buffer' = b
  /\ IF n >= MaxEntropyLength
       THEN Return(-1, "EIO")
       ELSE /\ pc' = "loop"
            /\ UNCHANGED <<ret, errno>>
  /\ UNCHANGED <<hasSyscall, poolReady, req, gflags, nbytes>>

\* Compat_getentropy(buffer, length): length > 256 fails with EIO.
Getentropy(n, b) ==
  /\ pc = "idle"
  /\ api' = "getentropy"
  /\ len' = n
  /\ filled' = 0
  /\ eintr' = 0
  /\ buffer' = b
  /\ IF n > MaxEntropyLength
       THEN Return(-1, "EIO")
       ELSE /\ pc' = "loop"
            /\ UNCHANGED <<ret, errno>>
  /\ UNCHANGED <<hasSyscall, poolReady, req, gflags, nbytes>>

\* The weak getrandom(buffer, length, flags) called by the application.
Getrandom(n, f) ==
  /\ pc = "idle"
  /\ api' = "getrandom"
  /\ req' = n
  /\ gflags' = f
  /\ eintr' = 0
  /\ buffer' = "good"
  /\ pc' = "syscall"
  /\ UNCHANGED <<hasSyscall, poolReady, len, filled, nbytes, ret, errno>>

\* Compat_getrandom(buffer, length, flags) called directly, as the unit
\* tests do.
CompatGetrandom(n, f, b) ==
  /\ pc = "idle"
  /\ api' = "Compat_getrandom"
  /\ req' = n
  /\ gflags' = f
  /\ eintr' = 0
  /\ buffer' = b
  /\ pc' = "compat"
  /\ UNCHANGED <<hasSyscall, poolReady, len, filled, nbytes, ret, errno>>

\* Mutant: every iteration asks for the whole length.
LoopFullLength ==
  /\ pc = "loop"
  /\ IF filled < len
       THEN /\ req' = len
            /\ gflags' = 0
            /\ pc' = "syscall"
            /\ UNCHANGED <<ret, errno>>
       ELSE Return(0, errno) /\ UNCHANGED <<req, gflags>>
  /\ UNCHANGED <<hasSyscall, poolReady, api, len, filled, nbytes, eintr, buffer, test>>

\* while(buffer < endBuffer) getrandom(buffer, endBuffer - buffer, 0);
\* return 0 once the buffer is full.
Loop ==
  /\ pc = "loop"
  /\ IF filled < len
       THEN /\ req' = len - filled
            /\ gflags' = 0
            /\ pc' = "syscall"
            /\ UNCHANGED <<ret, errno>>
       ELSE Return(0, errno) /\ UNCHANGED <<req, gflags>>
  /\ UNCHANGED <<hasSyscall, poolReady, api, len, filled, nbytes, eintr, buffer, test>>

---------------------------------------------------------------------------
(* getrandom(): the syscall, then the ENOSYS fallback.                     *)

\* The kernel answers.  An old kernel says ENOSYS and getrandom() goes on
\* to Compat_getrandom.  Otherwise: a waiting syscall can only be
\* interrupted by a signal; a ready pool fills the request (a request of
\* n > 0 bytes returns between 1 and n), or fails with EFAULT when the
\* buffer is not writable; a non-blocking call on an unready pool fails
\* with EAGAIN.
Syscall ==
  /\ pc = "syscall"
  /\ \/ /\ ~hasSyscall
        /\ pc' = "compat"
        /\ UNCHANGED <<nbytes, ret, errno, eintr>>
     \/ /\ hasSyscall
        /\ SyscallWaits
        /\ eintr < MaxEintr
        /\ eintr' = eintr + 1
        /\ GetrandomReturns(-1, "EINTR") /\ Healthy(TRUE)
     \/ /\ hasSyscall
        /\ poolReady /\ (buffer = "good" \/ req = 0)
        /\ \E n \in IF req = 0 THEN {0} ELSE 1..req :
             GetrandomReturns(n, "none") /\ Healthy(n < req)
        /\ UNCHANGED eintr
     \/ /\ hasSyscall
        /\ poolReady /\ buffer # "good" /\ req > 0
        /\ GetrandomReturns(-1, "EFAULT")
        /\ UNCHANGED <<eintr>>
     \/ /\ hasSyscall
        /\ ~poolReady /\ ~SyscallWaits
        /\ GetrandomReturns(-1, "EAGAIN") /\ Healthy(TRUE)
        /\ UNCHANGED eintr
  /\ UNCHANGED <<hasSyscall, poolReady, api, len, filled, req, gflags, buffer, test>>

\* return Compat_getrandom(buffer, length, flags): invalid flags give
\* EINVAL; open() may fail; read() returns up to length bytes, 0 at end of
\* file, fails with EFAULT on a buffer that is not writable, or is
\* interrupted.
Compat ==
  /\ pc = "compat"
  /\ \/ /\ (gflags | (GRND_RANDOM | GRND_NONBLOCK)) # (GRND_RANDOM | GRND_NONBLOCK)
        /\ GetrandomReturns(-1, "EINVAL")
        /\ UNCHANGED <<eintr>>
     \/ /\ (gflags | (GRND_RANDOM | GRND_NONBLOCK)) = (GRND_RANDOM | GRND_NONBLOCK)
        /\ \/ GetrandomReturns(-1, "EMFILE") /\ Healthy(TRUE) /\ UNCHANGED eintr
           \/ /\ buffer = "good" \/ req = 0
              /\ \E n \in 0..req : GetrandomReturns(n, "none") /\ Healthy(n < req)
              /\ UNCHANGED eintr
           \/ /\ buffer # "good" /\ req > 0
              /\ GetrandomReturns(-1, "EFAULT") /\ UNCHANGED <<eintr>>
           \/ /\ eintr < MaxEintr
              /\ eintr' = eintr + 1
              /\ GetrandomReturns(-1, "EINTR") /\ Healthy(TRUE)
  /\ UNCHANGED <<hasSyscall, poolReady, api, len, filled, req, gflags, buffer, test>>

\* Mutant: EINTR is not retried.
GotNoRetry ==
  /\ pc = "got"
  /\ IF api # "getentropy"
       THEN Return(nbytes, errno) /\ UNCHANGED filled
     ELSE IF nbytes < 0
       THEN Return(-1, errno) /\ UNCHANGED filled
     ELSE IF nbytes = 0
       THEN Return(-1, "EIO") /\ UNCHANGED filled
     ELSE /\ filled' = filled + nbytes
          /\ pc' = "loop"
          /\ UNCHANGED <<ret, errno>>
  /\ UNCHANGED <<hasSyscall, poolReady, api, len, req, gflags, nbytes, eintr,
                 buffer, test>>

\* Mutant: a 0-byte result is not treated as an error.
GotNoEof ==
  /\ pc = "got"
  /\ IF api # "getentropy"
       THEN Return(nbytes, errno) /\ UNCHANGED filled
     ELSE IF nbytes < 0
       THEN IF errno = "EINTR"
              THEN pc' = "loop" /\ UNCHANGED <<filled, ret, errno>>
              ELSE Return(-1, errno) /\ UNCHANGED filled
     ELSE /\ filled' = filled + nbytes
          /\ pc' = "loop"
          /\ UNCHANGED <<ret, errno>>
  /\ UNCHANGED <<hasSyscall, poolReady, api, len, req, gflags, nbytes, eintr,
                 buffer, test>>

\* Back in the caller of getrandom().  The application gets the result.
\* Compat_getentropy retries on EINTR, fails on any other error, fails
\* with EIO on a 0-byte result, and otherwise advances the buffer.
Got ==
  /\ pc = "got"
  /\ IF api # "getentropy"
       THEN Return(nbytes, errno) /\ UNCHANGED filled
     ELSE IF nbytes < 0
       THEN IF errno = "EINTR"
              THEN pc' = "loop" /\ UNCHANGED <<filled, ret, errno>>
              ELSE Return(-1, errno) /\ UNCHANGED filled
     ELSE IF nbytes = 0
       THEN Return(-1, "EIO") /\ UNCHANGED filled
     ELSE /\ filled' = filled + nbytes
          /\ pc' = "loop"
          /\ UNCHANGED <<ret, errno>>
  /\ UNCHANGED <<hasSyscall, poolReady, api, len, req, gflags, nbytes, eintr,
                 buffer, test>>

\* The application consumes the result and may call again; the call's
\* locals are gone.
Finish ==
  /\ pc = "done"
  /\ pc' = "idle"
  /\ len' = 0 /\ filled' = 0 /\ req' = 0 /\ gflags' = 0 /\ nbytes' = 0 /\ eintr' = 0
  /\ UNCHANGED <<hasSyscall, poolReady, api, ret, errno, buffer, test>>

\* The kernel initialises its random pool.
PoolInit ==
  /\ ~poolReady
  /\ poolReady' = TRUE
  /\ UNCHANGED <<hasSyscall, api, pc, len, filled, req, gflags, nbytes, ret,
                 errno, eintr, buffer, test>>

Init ==
  /\ hasSyscall \in BOOLEAN
  /\ poolReady = FALSE
  /\ api = "getentropy"
  /\ pc = "idle"
  /\ len = 0 /\ filled = 0 /\ req = 0 /\ gflags = 0 /\ nbytes = 0
  /\ ret = 0 /\ errno = "none" /\ eintr = 0
  /\ buffer = "good" /\ test = NoTest

\* A call of the application, or one made by a test row.
NotATest == test' = NoTest
RunTest(row) == test' = row

Next ==
  \/ \E n \in Lengths : Getentropy(n, "good") /\ NotATest
  \/ \E n \in RandomLengths, f \in FlagValues : Getrandom(n, f) /\ NotATest
  \/ \E row \in CompatGetEntropyParams :
       Getentropy(row.length, row.buffer) /\ RunTest(row)
  \/ \E row \in CompatGetRandomParams :
       CompatGetrandom(row.length, row.flags, row.buffer) /\ RunTest(row)
  \/ Loop \/ Syscall \/ Compat \/ Got \/ Finish \/ PoolInit

\* Every step of the calling thread is weakly fair, and so is the kernel's
\* pool initialisation; signals are bounded per call by MaxEintr.
Fairness ==
  /\ WF_vars(Loop) /\ WF_vars(Syscall) /\ WF_vars(Compat) /\ WF_vars(Got)
  /\ WF_vars(PoolInit)

Spec == Init /\ [][Next]_vars /\ Fairness

---------------------------------------------------------------------------
(* Properties                                                              *)

TypeOK ==
  /\ hasSyscall \in BOOLEAN /\ poolReady \in BOOLEAN
  /\ api \in {"getentropy", "getrandom", "Compat_getrandom"}
  /\ pc \in Steps
  /\ len \in Lengths \cup {row.length : row \in CompatGetEntropyParams} \cup {0}
  /\ req \in 0..MaxEntropyLength \cup {SIZE_MAX}
  /\ filled \in 0..MaxEntropyLength
  /\ errno \in Errnos
  /\ eintr \in 0..MaxEintr
  /\ buffer \in Buffers /\ test \in TestRows \cup {NoTest}

\* Compat_getentropy never writes past the end of the buffer, and when it
\* returns 0 the whole buffer has been filled: partial getrandom() results
\* are accumulated exactly.
FillsExactly ==
  api = "getentropy" =>
    /\ filled <= len
    /\ (pc = "done" /\ ret = 0) => filled = len

\* "getentropy must not be interrupted by signals": a failing
\* Compat_getentropy never reports EINTR.
NoEintrEscapes ==
  (api = "getentropy" /\ pc = "done" /\ ret = -1) => errno # "EINTR"

\* Every Compat_getentropy call returns, whatever getrandom() answers:
\* a signal, an error, a short read or a 0-byte read.
GetentropyReturns ==
  [](api = "getentropy" /\ pc = "loop" => <>(pc = "done"))

\* A getrandom() call with GRND_NONBLOCK never waits for the kernel's
\* random pool (getrandom(2): it fails with EAGAIN instead).
\* The getrandom and getentropy unit tests pass: a call made by a row of
\* their tables returns the row's gold value, and a failing one sets the
\* gold errno (EFAULT for NULL and 0x666, EINVAL for flags 0x666, EIO for
\* 257 bytes), on a kernel that answers every request in full.
ParamTestsPass ==
  (pc = "done" /\ test # NoTest) =>
    /\ ret = test.gold_retval
    /\ ret < 0 => errno = test.gold_errno

NonblockNeverWaits ==
  (pc = "syscall" /\ api = "getrandom" /\ hasSyscall /\ (gflags & GRND_NONBLOCK) # 0)
    => ~SyscallWaits

=============================================================================
