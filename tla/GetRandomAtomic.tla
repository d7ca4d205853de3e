-------------------------- MODULE GetRandomAtomic --------------------------
(***************************************************************************)
(* What Compat_getrandom (src/src/util/Compat.c.in) promises its callers   *)
(* when every call is taken as one atomic step: an invalid flags value    *)
(* returns EINVAL; otherwise the call uses the descriptor cached for its  *)
(* blocking mode, opening and caching one on any free descriptor first    *)
(* when there is none, or fails when the open fails.  Then it reads.      *)
(* There is at most one cached descriptor per blocking mode, it is never *)
(* replaced, and no other descriptor of the random devices is ever open.  *)
(*                                                                         *)
(* CompatGetRandom refines this specification: each thread's call takes  *)
(* effect at one of its steps (its load of a cached descriptor, its       *)
(* winning exchange, or its close after a lost one).                      *)
(***************************************************************************)
EXTENDS Integers, Bitwise

CONSTANTS Threads, MaxFd, FlagValues, StdinOpen

GRND_NONBLOCK == 1
GRND_RANDOM   == 2

Fds == 0..MaxFd
File(k, nb) == [kind |-> k, nonblock |-> nb]
NoFile == File("none", FALSE)
Slots == {"afdrandom_block", "afdrandom_nonblock"}

VARIABLES
  afd,       \* [Slots -> Fds]: the cached descriptors, 0 = not opened
  fdTable,   \* [Fds -> file]: the process descriptor table
  pc,        \* [Threads -> {"idle", "read"}]
  flags,     \* [Threads -> Nat]: flags of a reading thread, else 0
  fdrandom   \* [Threads -> Fds]: the descriptor a reading thread reads, else 0

vars == <<afd, fdTable, pc, flags, fdrandom>>

ValidFlags(f) == (f | (GRND_RANDOM | GRND_NONBLOCK)) = (GRND_RANDOM | GRND_NONBLOCK)
Slot(f) == IF (f & GRND_NONBLOCK) # 0 THEN "afdrandom_nonblock" ELSE "afdrandom_block"
Device(f) == IF (f & GRND_RANDOM) # 0 THEN "random" ELSE "urandom"

Init ==
  /\ afd = [s \in Slots |-> 0]
  /\ fdTable = [d \in Fds |-> IF d \in {1, 2} \/ (d = 0 /\ StdinOpen)
                                THEN File("tty", FALSE) ELSE NoFile]
  /\ pc = [t \in Threads |-> "idle"]
  /\ flags = [t \in Threads |-> 0]
  /\ fdrandom = [t \in Threads |-> 0]

\* The whole call up to read(): a valid call reads the cached descriptor,
\* or opens one on a free descriptor and caches it.  The calls that return
\* -1 (EINVAL, a failed open) leave the state as it was.
UseCached(t, f) ==
  /\ pc[t] = "idle" /\ ValidFlags(f) /\ afd[Slot(f)] # 0
  /\ pc' = [pc EXCEPT ![t] = "read"]
  /\ flags' = [flags EXCEPT ![t] = f]
  /\ fdrandom' = [fdrandom EXCEPT ![t] = afd[Slot(f)]]
  /\ UNCHANGED <<afd, fdTable>>

OpenAndCache(t, f) ==
  /\ pc[t] = "idle" /\ ValidFlags(f) /\ afd[Slot(f)] = 0
  /\ \E d \in Fds :
       /\ fdTable[d].kind = "none"
       /\ fdTable' = [fdTable EXCEPT ![d] =
                        File(Device(f), (f & GRND_NONBLOCK) # 0)]
       /\ afd' = [afd EXCEPT ![Slot(f)] = d]
       /\ fdrandom' = [fdrandom EXCEPT ![t] = d]
  /\ pc' = [pc EXCEPT ![t] = "read"]
  /\ flags' = [flags EXCEPT ![t] = f]

\* return read(fdrandom, buffer, length)
ReadDone(t) ==
  /\ pc[t] = "read"
  /\ pc' = [pc EXCEPT ![t] = "idle"]
  /\ flags' = [flags EXCEPT ![t] = 0]
  /\ fdrandom' = [fdrandom EXCEPT ![t] = 0]
  /\ UNCHANGED <<afd, fdTable>>

Next ==
  \E t \in Threads :
    \/ \E f \in FlagValues : UseCached(t, f) \/ OpenAndCache(t, f)
    \/ ReadDone(t)

Spec == Init /\ [][Next]_vars
=============================================================================
