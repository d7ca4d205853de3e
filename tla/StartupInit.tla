----------------------------- MODULE StartupInit -----------------------------
(***************************************************************************)
(* Process start-up through __wrap___libc_start_main and CallInit          *)
(* (src/src/util/Compat.c.in).  The library is linked against the old      *)
(* __libc_start_main@GLIBC_2.2.5.  Built against glibc >= 2.34, the crt1   *)
(* start code passes init == NULL, and the wrapper substitutes CallInit,   *)
(* which walks the executable's dynamic section and calls DT_INIT and      *)
(* every DT_INIT_ARRAY entry itself.  Built against an older glibc, crt1   *)
(* passes __libc_csu_init, which does the same from libc_nonshared.        *)
(*                                                                         *)
(* The old __libc_start_main of every glibc calls init when it is not NULL *)
(* and then main.  With init == NULL, a glibc >= 2.34 runs the             *)
(* constructors itself (call_init) and an older one runs none.             *)
(*                                                                         *)
(* Addresses: a constructor is its offset in the executable (FnOffsets),   *)
(* loaded at lAddr (0, or LoadBase for a PIE).  d_ptr values in _DYNAMIC   *)
(* are offsets; the DT_INIT_ARRAY slots hold absolute addresses after the  *)
(* loader's relative relocations.                                          *)
(***************************************************************************)
EXTENDS Integers, Sequences, SequencesExt

CONSTANTS
  FnOffsets,   \* offsets of the executable's constructor functions
  MaxArray,    \* longest DT_INIT_ARRAY the model builds
  LoadBase,    \* load address of a PIE executable
  ArrayOffset  \* offset of the .init_array section

ASSUME FnOffsets \subseteq 1..(ArrayOffset - 1) /\ 0 \notin FnOffsets
ASSUME MaxArray \in Nat /\ LoadBase > ArrayOffset

AddrSize == 8  \* sizeof(ElfW(Addr)) on x86_64

\* An executable: its load bias, its _init offset (0: none), its
\* .init_array contents as offsets, and the order of its _DYNAMIC entries.
Entry(tag, v) == [tag |-> tag, val |-> v]

DynEntries(init, arr) ==
     (IF init # 0 THEN {Entry("DT_INIT", init)} ELSE {})
  \cup (IF arr # <<>>
        THEN {Entry("DT_INIT_ARRAY", ArrayOffset),
              Entry("DT_INIT_ARRAYSZ", Len(arr) * AddrSize)}
        ELSE {})
  \cup {Entry("DT_NEEDED", 0)}

Executables ==
  UNION {{[lAddr |-> la, init |-> fi, array |-> arr, dyn |-> d] :
            d \in SetToSeqs(DynEntries(fi, arr))} :
         la \in {0, LoadBase}, fi \in {0} \cup FnOffsets,
         arr \in BoundedSeq(FnOffsets, MaxArray)}

\* The constructors ELF says the executable has, in the order they run.
Expected(exe) ==
  (IF exe.init # 0 THEN <<exe.init>> ELSE <<>>) \o exe.array

VARIABLES
  exe,            \* the executable being started
  buildNew,       \* compiled with __GLIBC_MINOR__ >= 34
  runtimeNew,     \* the glibc the process runs on is >= 2.34
  pc,             \* where the start-up thread is
  init,           \* the init argument of __libc_start_main
  fnCalled,       \* CallInit's static guard
  dlRefs,         \* references taken by dlopen(NULL, RTLD_NOLOAD) not closed
  dtInit, dtInitArray, dtInitArraySize,  \* CallInit's locals
  i,              \* index of the DT_INIT_ARRAY loop
  ran             \* offsets of the constructors called so far, in order

vars == <<exe, buildNew, runtimeNew, pc, init, fnCalled, dlRefs,
          dtInit, dtInitArray, dtInitArraySize, i, ran>>

Pcs == {"wrap", "libc", "csu", "callinit", "ci_init", "ci_array", "main",
        "done", "crash"}

---------------------------------------------------------------------------
(* Memory: calling an address, and reading a DT_INIT_ARRAY slot.          *)

IsFn(a) == a - exe.lAddr \in FnOffsets

\* The content of .init_array: absolute addresses, relocated at load time.
ArraySlot(a, k) ==
  IF a = exe.lAddr + ArrayOffset /\ k \in 1..Len(exe.array)
  THEN exe.lAddr + exe.array[k] ELSE 0

\* ((init_t)a)(argc, argv, env): a constructor runs, anything else faults.
Invoke(a, next) ==
  IF IsFn(a) THEN ran' = Append(ran, a - exe.lAddr) /\ pc' = next
             ELSE pc' = "crash" /\ UNCHANGED ran

---------------------------------------------------------------------------
(* The scan of _DYNAMIC: a switch on d_tag for every entry before DT_NULL. *)

\* Mutant: DT_INIT_ARRAYSZ kept in bytes, not divided by sizeof(ElfW(Addr)).
ScanStepNoDivide(e, acc) ==
  CASE e.tag = "DT_INIT"         -> [acc EXCEPT !.init = exe.lAddr + e.val]
    [] e.tag = "DT_INIT_ARRAY"   -> [acc EXCEPT !.array = exe.lAddr + e.val]
    [] e.tag = "DT_INIT_ARRAYSZ" -> [acc EXCEPT !.size = e.val]
    [] OTHER                     -> acc

\* Mutant: DT_INIT taken as an absolute address, without l->l_addr.
ScanStepNoBias(e, acc) ==
  CASE e.tag = "DT_INIT"         -> [acc EXCEPT !.init = e.val]
    [] e.tag = "DT_INIT_ARRAY"   -> [acc EXCEPT !.array = exe.lAddr + e.val]
    [] e.tag = "DT_INIT_ARRAYSZ" -> [acc EXCEPT !.size = e.val \div AddrSize]
    [] OTHER                     -> acc

ScanStep(e, acc) ==
  CASE e.tag = "DT_INIT"         -> [acc EXCEPT !.init = exe.lAddr + e.val]
    [] e.tag = "DT_INIT_ARRAY"   -> [acc EXCEPT !.array = exe.lAddr + e.val]
    [] e.tag = "DT_INIT_ARRAYSZ" -> [acc EXCEPT !.size = e.val \div AddrSize]
    [] OTHER                     -> acc

RECURSIVE ScanDyn(_, _)
ScanDyn(dyn, acc) ==
  IF dyn = <<>> THEN acc ELSE ScanDyn(Tail(dyn), ScanStep(Head(dyn), acc))

---------------------------------------------------------------------------
(* The start-up path.                                                     *)

\* NVCV_ASSERT(x): assert(x), then, as NDEBUG builds drop the assert, an
\* explicit abort() when x is false.  The pc continues at next or aborts.
NVCV_ASSERT(x, next) == IF x THEN next ELSE "crash"

\* Mutant: the wrapper forgets init = &CallInit.
WrapNoReplace ==
  /\ pc = "wrap"
  /\ pc' = IF buildNew THEN NVCV_ASSERT(init = "NULL", "libc") ELSE "libc"
  /\ UNCHANGED <<exe, buildNew, runtimeNew, init, fnCalled, dlRefs, dtInit,
                 dtInitArray, dtInitArraySize, i, ran>>

\* __wrap___libc_start_main: NVCV_ASSERT(init == NULL); init = &CallInit
\* when built against glibc >= 2.34, then the old __libc_start_main.
Wrap ==
  /\ pc = "wrap"
  /\ pc' = IF buildNew THEN NVCV_ASSERT(init = "NULL", "libc") ELSE "libc"
  /\ init' = IF buildNew THEN "CallInit" ELSE init
  /\ UNCHANGED <<exe, buildNew, runtimeNew, fnCalled, dlRefs, dtInit,
                 dtInitArray, dtInitArraySize, i, ran>>

\* __libc_start_main@GLIBC_2.2.5 (glibc): call init if not NULL; with a
\* NULL init a glibc >= 2.34 runs call_init, an older one nothing; then main.
LibcStartMain ==
  /\ pc = "libc"
  /\ CASE init = "CallInit" -> pc' = "callinit" /\ UNCHANGED ran
       [] init = "csu_init" -> pc' = "csu" /\ UNCHANGED ran
       [] init = "NULL"     -> pc' = "main" /\
                               ran' = IF runtimeNew THEN Expected(exe) ELSE ran
  /\ UNCHANGED <<exe, buildNew, runtimeNew, init, fnCalled, dlRefs, dtInit,
                 dtInitArray, dtInitArraySize, i>>

\* __libc_csu_init of an old crt: the executable's constructors, in order.
CsuInit ==
  /\ pc = "csu"
  /\ ran' = Expected(exe)
  /\ pc' = "main"
  /\ UNCHANGED <<exe, buildNew, runtimeNew, init, fnCalled, dlRefs, dtInit,
                 dtInitArray, dtInitArraySize, i>>

\* CallInit up to the calls: the fnCalled guard, dlopen and dlinfo of the
\* executable (they cannot fail for it), and the scan of _DYNAMIC.
CallInit ==
  /\ pc = "callinit"
  /\ IF fnCalled
     THEN pc' = "main" /\ UNCHANGED <<fnCalled, dlRefs, dtInit, dtInitArray,
                                      dtInitArraySize>>
     ELSE LET s == ScanDyn(exe.dyn, [init |-> 0, array |-> 0, size |-> 0])
          IN  /\ fnCalled' = TRUE
              /\ dlRefs' = dlRefs + 1
              /\ dtInit' = s.init
              /\ dtInitArray' = s.array
              /\ dtInitArraySize' = s.size
              /\ pc' = "ci_init"
  /\ UNCHANGED <<exe, buildNew, runtimeNew, init, i, ran>>

\* if(dtInit) ((init_t)dtInit)(argc, argv, env);
CallDtInit ==
  /\ pc = "ci_init"
  /\ i' = 0
  /\ IF dtInit # 0 THEN Invoke(dtInit, "ci_array")
                   ELSE pc' = "ci_array" /\ UNCHANGED ran
  /\ UNCHANGED <<exe, buildNew, runtimeNew, init, fnCalled, dlRefs, dtInit,
                 dtInitArray, dtInitArraySize>>

\* One iteration of for(i = 0; i < dtInitArraySize; ++i).
CallDtInitArray ==
  /\ pc = "ci_array"
  /\ i < dtInitArraySize
  /\ Invoke(ArraySlot(dtInitArray, i + 1), "ci_array")
  /\ i' = i + 1
  /\ UNCHANGED <<exe, buildNew, runtimeNew, init, fnCalled, dlRefs, dtInit,
                 dtInitArray, dtInitArraySize>>

\* The loop ends: dlclose(hexec); return 0, back in __libc_start_main.
CallInitReturn ==
  /\ pc = "ci_array"
  /\ i >= dtInitArraySize
  /\ dlRefs' = dlRefs - 1
  /\ pc' = "main"
  /\ UNCHANGED <<exe, buildNew, runtimeNew, init, fnCalled, dtInit,
                 dtInitArray, dtInitArraySize, i, ran>>

\* main runs and the process exits.
Main ==
  /\ pc = "main"
  /\ pc' = "done"
  /\ UNCHANGED <<exe, buildNew, runtimeNew, init, fnCalled, dlRefs, dtInit,
                 dtInitArray, dtInitArraySize, i, ran>>

\* crt1's _start: the init it passes depends on the glibc it was built with.
Init ==
  /\ exe \in Executables
  /\ buildNew \in BOOLEAN
  /\ runtimeNew \in BOOLEAN
  /\ pc = "wrap"
  /\ init = IF buildNew THEN "NULL" ELSE "csu_init"
  /\ fnCalled = FALSE
  /\ dlRefs = 0
  /\ dtInit = 0 /\ dtInitArray = 0 /\ dtInitArraySize = 0
  /\ i = 0
  /\ ran = <<>>

Next ==
  \/ Wrap \/ LibcStartMain \/ CsuInit \/ CallInit \/ CallDtInit
  \/ CallDtInitArray \/ CallInitReturn \/ Main

Spec == Init /\ [][Next]_vars

---------------------------------------------------------------------------

TypeOK ==
  /\ pc \in Pcs
  /\ init \in {"NULL", "CallInit", "csu_init"}
  /\ fnCalled \in BOOLEAN
  /\ dlRefs \in 0..1
  /\ dtInitArraySize \in 0..MaxArray
  /\ i \in 0..dtInitArraySize
  /\ ran \in BoundedSeq(FnOffsets, MaxArray + 1)

\* Every call CallInit or libc makes before main is the next constructor
\* of the executable in ELF order (DT_INIT, then DT_INIT_ARRAY in array
\* order), whatever the load address and the order of the _DYNAMIC entries:
\* start-up never jumps to an address that is not a constructor.
InitOrder == pc # "crash" /\ IsPrefix(ran, Expected(exe))

\* When main starts, every constructor of the executable has run exactly
\* once, for every combination of build-time and run-time glibc, and the
\* executable's handle taken by CallInit's dlopen has been closed.
CtorsBeforeMain ==
  pc \in {"main", "done"} => ran = Expected(exe) /\ dlRefs = 0

=============================================================================
