-------------------------- MODULE CompatGetRandom --------------------------
(***************************************************************************)
(* Compat_getrandom (src/src/util/Compat.c.in): the getrandom(2)           *)
(* replacement used on kernels without SYS_getrandom.  Each call validates *)
(* its flags, then lazily opens /dev/random or /dev/urandom and caches the *)
(* descriptor in one of two process-wide atomics, chosen by GRND_NONBLOCK: *)
(* afdrandom_block or afdrandom_nonblock.  0 in an atomic means "not yet   *)
(* opened".  Concurrent first callers race: each opens its own descriptor *)
(* and publishes it with atomic_compare_exchange_weak; the losers close    *)
(* theirs.  The call then reads from the cached descriptor.                *)
(*                                                                         *)
(* Threads are model values; each runs calls forever, one step of the C    *)
(* code per action.  The process descriptor table is modelled with the     *)
(* POSIX rule that open() returns the lowest free descriptor.              *)
(***************************************************************************)
EXTENDS Integers, FiniteSets, Bitwise

CONSTANTS
  Threads,          \* threads calling Compat_getrandom concurrently
  MaxFd,            \* descriptors are 0..MaxFd; open() fails with EMFILE beyond
  FlagValues,       \* flags arguments the callers pass
  StdinOpen,        \* is descriptor 0 open when the process starts?
  WeakCasSpurious   \* may atomic_compare_exchange_weak fail spuriously (LL/SC)?

ASSUME Threads # {} /\ MaxFd \in Nat /\ MaxFd >= 3
ASSUME FlagValues \subseteq Nat
ASSUME StdinOpen \in BOOLEAN /\ WeakCasSpurious \in BOOLEAN

\* <sys/random.h>
GRND_NONBLOCK == 1
GRND_RANDOM   == 2

Fds == 0..MaxFd

\* What an open descriptor refers to: a terminal (0, 1, 2), one of the two
\* random devices, or nothing.  nonblock records O_NONBLOCK.
Kinds == {"none", "tty", "random", "urandom"}
File(k, nb) == [kind |-> k, nonblock |-> nb]
NoFile == File("none", FALSE)

\* The two atomics, named after the C globals.
Slots == {"afdrandom_block", "afdrandom_nonblock"}

VARIABLES
  afd,       \* [Slots -> Fds]: the cached descriptors, 0 = not opened
  fdTable,   \* [Fds -> file]: the process descriptor table
  pc,        \* [Threads -> step]: where each thread is in the call
  flags,     \* [Threads -> Nat]: flags of the thread's current call
  fdrandom,  \* [Threads -> Fds]: the local fdrandom
  fd         \* [Threads -> Fds]: the local fd returned by open()

vars == <<afd, fdTable, pc, flags, fdrandom, fd>>

Steps == {"idle", "open", "cas", "close", "read"}

---------------------------------------------------------------------------
(* Helpers translating the C expressions.                                  *)

\* (flags | validFlags) != validFlags
ValidFlags(f) == (f | (GRND_RANDOM | GRND_NONBLOCK)) = (GRND_RANDOM | GRND_NONBLOCK)

\* Mutant: the cache slot keyed on GRND_RANDOM instead of GRND_NONBLOCK.
SlotByRandom(f) == IF (f & GRND_RANDOM) # 0 THEN "afdrandom_nonblock" ELSE "afdrandom_block"

\* flags & GRND_NONBLOCK ? &afdrandom_nonblock : &afdrandom_block
Slot(f) == IF (f & GRND_NONBLOCK) # 0 THEN "afdrandom_nonblock" ELSE "afdrandom_block"

\* flags & GRND_RANDOM ? "/dev/random" : "/dev/urandom"
Device(f) == IF (f & GRND_RANDOM) # 0 THEN "random" ELSE "urandom"

\* open() returns the lowest-numbered descriptor not currently open.
FreeFds == {d \in Fds : fdTable[d].kind = "none"}
LowestFree == CHOOSE d \in FreeFds : \A e \in FreeFds : d <= e

---------------------------------------------------------------------------
(* Actions: one per step of Compat_getrandom.                              *)

\* Mutant: the early return on invalid flags is missing.
CallNoValidate(t, f) ==
  /\ pc[t] = "idle"
  /\ flags' = [flags EXCEPT ![t] = f]
  /\ fdrandom' = [fdrandom EXCEPT ![t] = afd[Slot(f)]]
  /\ pc' = [pc EXCEPT ![t] = IF afd[Slot(f)] = 0 THEN "open" ELSE "read"]
  /\ UNCHANGED <<afd, fdTable, fd>>

\* Entry, flag validation and atomic_load(afdrandom).  Invalid flags return
\* -1 with EINVAL; a non-zero cached descriptor goes straight to read().
Call(t, f) ==
  /\ pc[t] = "idle"
  /\ IF ~ValidFlags(f)
       THEN UNCHANGED <<pc, flags, fdrandom>>
       ELSE /\ flags' = [flags EXCEPT ![t] = f]
            /\ fdrandom' = [fdrandom EXCEPT ![t] = afd[Slot(f)]]
            /\ pc' = [pc EXCEPT ![t] = IF afd[Slot(f)] = 0 THEN "open" ELSE "read"]
  /\ UNCHANGED <<afd, fdTable, fd>>

\* fd = open(src, openFlags); a descriptor is allocated in the table.
Open(t) ==
  /\ pc[t] = "open"
  /\ FreeFds # {}
  /\ fd' = [fd EXCEPT ![t] = LowestFree]
  /\ fdTable' = [fdTable EXCEPT ![LowestFree] =
                   File(Device(flags[t]), (flags[t] & GRND_NONBLOCK) # 0)]
  /\ pc' = [pc EXCEPT ![t] = "cas"]
  /\ UNCHANGED <<afd, flags, fdrandom>>

\* open() fails (EMFILE when the table is full, or ENOENT, EACCES ...):
\* the call returns -1.
OpenFail(t) ==
  /\ pc[t] = "open"
  /\ pc' = [pc EXCEPT ![t] = "idle"]
  /\ UNCHANGED <<afd, fdTable, flags, fdrandom, fd>>

\* Mutant: on success the local fdrandom is not set to fd.
CasNoFdUpdate(t) ==
  LET s == Slot(flags[t]) IN
  /\ pc[t] = "cas"
  /\ \/ /\ afd[s] = fdrandom[t]
        /\ afd' = [afd EXCEPT ![s] = fd[t]]
        /\ pc' = [pc EXCEPT ![t] = "read"]
        /\ UNCHANGED fdrandom
     \/ /\ afd[s] # fdrandom[t] \/ WeakCasSpurious
        /\ fdrandom' = [fdrandom EXCEPT ![t] = afd[s]]
        /\ pc' = [pc EXCEPT ![t] = "close"]
        /\ UNCHANGED afd
  /\ UNCHANGED <<fdTable, flags, fd>>

\* Mutant: the losing thread reads without closing its own descriptor.
CasNoClose(t) ==
  LET s == Slot(flags[t]) IN
  /\ pc[t] = "cas"
  /\ \/ /\ afd[s] = fdrandom[t]
        /\ afd' = [afd EXCEPT ![s] = fd[t]]
        /\ fdrandom' = [fdrandom EXCEPT ![t] = fd[t]]
     \/ /\ afd[s] # fdrandom[t] \/ WeakCasSpurious
        /\ fdrandom' = [fdrandom EXCEPT ![t] = afd[s]]
        /\ UNCHANGED afd
  /\ pc' = [pc EXCEPT ![t] = "read"]
  /\ UNCHANGED <<fdTable, flags, fd>>

\* Mutant: a plain atomic_store publishes fd whatever the atomic holds.
CasStore(t) ==
  LET s == Slot(flags[t]) IN
  /\ pc[t] = "cas"
  /\ afd' = [afd EXCEPT ![s] = fd[t]]
  /\ fdrandom' = [fdrandom EXCEPT ![t] = fd[t]]
  /\ pc' = [pc EXCEPT ![t] = "read"]
  /\ UNCHANGED <<fdTable, flags, fd>>

\* atomic_compare_exchange_weak(afdrandom, &fdrandom, fd).  On success the
\* atomic holds fd and fdrandom = fd.  On failure the current value of the
\* atomic is written back into fdrandom and the thread goes on to close(fd).
\* A weak exchange may also fail when the values are equal (spuriously).
Cas(t) ==
  LET s == Slot(flags[t]) IN
  /\ pc[t] = "cas"
  /\ \/ /\ afd[s] = fdrandom[t]
        /\ afd' = [afd EXCEPT ![s] = fd[t]]
        /\ fdrandom' = [fdrandom EXCEPT ![t] = fd[t]]
        /\ pc' = [pc EXCEPT ![t] = "read"]
     \/ /\ afd[s] # fdrandom[t] \/ WeakCasSpurious
        /\ fdrandom' = [fdrandom EXCEPT ![t] = afd[s]]
        /\ pc' = [pc EXCEPT ![t] = "close"]
        /\ UNCHANGED afd
  /\ UNCHANGED <<fdTable, flags, fd>>

\* Mutant: the loser closes fdrandom (the winner's descriptor) instead of fd.
CloseWrongFd(t) ==
  /\ pc[t] = "close"
  /\ fdTable' = [fdTable EXCEPT ![fdrandom[t]] = NoFile]
  /\ pc' = [pc EXCEPT ![t] = "read"]
  /\ UNCHANGED <<afd, flags, fdrandom, fd>>

\* close(fd): some other thread opened it already.
Close(t) ==
  /\ pc[t] = "close"
  /\ fdTable' = [fdTable EXCEPT ![fd[t]] = NoFile]
  /\ pc' = [pc EXCEPT ![t] = "read"]
  /\ UNCHANGED <<afd, flags, fdrandom, fd>>

\* assert(fdrandom != 0); return read(fdrandom, buffer, length).  The
\* assert is compiled out in release builds, so the read happens anyway.
Read(t) ==
  /\ pc[t] = "read"
  /\ pc' = [pc EXCEPT ![t] = "idle"]
  /\ UNCHANGED <<afd, fdTable, flags, fdrandom, fd>>

Init ==
  /\ afd = [s \in Slots |-> 0]
  /\ fdTable = [d \in Fds |-> IF d \in {1, 2} \/ (d = 0 /\ StdinOpen)
                                THEN File("tty", FALSE) ELSE NoFile]
  /\ pc = [t \in Threads |-> "idle"]
  /\ flags = [t \in Threads |-> 0]
  /\ fdrandom = [t \in Threads |-> 0]
  /\ fd = [t \in Threads |-> 0]

Next ==
  \E t \in Threads :
    \/ \E f \in FlagValues : Call(t, f)
    \/ Open(t) \/ OpenFail(t) \/ Cas(t) \/ Close(t) \/ Read(t)

Spec == Init /\ [][Next]_vars

---------------------------------------------------------------------------
(* Properties                                                              *)

TypeOK ==
  /\ afd \in [Slots -> Fds]
  /\ fdTable \in [Fds -> [kind : Kinds, nonblock : BOOLEAN]]
  /\ pc \in [Threads -> Steps]
  /\ flags \in [Threads -> {f \in FlagValues : ValidFlags(f)}]
  /\ fdrandom \in [Threads -> Fds]
  /\ fd \in [Threads -> Fds]

\* The assert(fdrandom != 0) before read() never fires: whenever a thread
\* is about to read, its fdrandom is a real, opened descriptor.
FdRandomAssert ==
  \A t \in Threads : pc[t] = "read" => fdrandom[t] # 0

\* Every read goes to a random device opened in the blocking mode the
\* caller asked for (GRND_NONBLOCK <=> O_NONBLOCK): a thread never reads a
\* terminal, a closed descriptor, or a device opened by a call with the
\* other blocking mode.
ReadsOwnMode ==
  \A t \in Threads : pc[t] = "read" =>
    /\ fdTable[fdrandom[t]].kind \in {"random", "urandom"}
    /\ fdTable[fdrandom[t]].nonblock = ((flags[t] & GRND_NONBLOCK) # 0)

\* Every read goes to the device the flags select: /dev/random exactly
\* when GRND_RANDOM is set, as the open() branch of Compat_getrandom says.
ReadsRequestedDevice ==
  \A t \in Threads : pc[t] = "read" =>
    fdTable[fdrandom[t]].kind = Device(flags[t])

\* No descriptor opened by Compat_getrandom is leaked: each open random
\* device is either the one cached in its atomic, or one a thread still
\* holds between open() and close().
NoLeakedFd ==
  \A d \in Fds : fdTable[d].kind \in {"random", "urandom"} =>
    \/ \E s \in Slots : afd[s] = d /\ d # 0
    \/ \E t \in Threads : pc[t] \in {"cas", "close"} /\ fd[t] = d

\* Once a cached descriptor is published it is never replaced: a later
\* racer can only lose the exchange, so readers never see the atomic move.
CacheStable ==
  [][\A s \in Slots : afd[s] # 0 => afd'[s] = afd[s]]_afd

---------------------------------------------------------------------------
(* Refinement: each call is atomic.  A thread between open() and the end   *)
(* of its exchange, or between a lost exchange and close(), holds a       *)
(* descriptor no caller can see; the mapping hides it.  A thread's call   *)
(* takes effect at its load of a cached descriptor, its winning exchange, *)
(* or its close(); until then it is idle in the abstract specification.   *)

Transient == {fd[t] : t \in {u \in Threads : pc[u] \in {"cas", "close"}}}

Atomic == INSTANCE GetRandomAtomic WITH
  fdTable  <- [d \in Fds |-> IF d \in Transient THEN NoFile ELSE fdTable[d]],
  pc       <- [t \in Threads |-> IF pc[t] = "read" THEN "read" ELSE "idle"],
  flags    <- [t \in Threads |-> IF pc[t] = "read" THEN flags[t] ELSE 0],
  fdrandom <- [t \in Threads |-> IF pc[t] = "read" THEN fdrandom[t] ELSE 0]

\* Compat_getrandom is linearizable: however the steps of concurrent calls
\* interleave (racing opens, lost exchanges, closes), the descriptor table,
\* the cached atomics and what each reader reads are those of some order of
\* atomic calls of GetRandomAtomic.
AtomicCalls == Atomic!Spec

=============================================================================
