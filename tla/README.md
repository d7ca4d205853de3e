# TLA+ models of the CV-CUDA / NVCV support code

This directory holds TLA+ models of the repository's code under `src/`, the TLC
configurations that check them, and `PROJECT.json`, which records every
component, run, mutant, source mapping, finding and hazard.

## 1. The system and its parts

| Part | Source | State | Operations | Interactions |
|------|--------|-------|------------|--------------|
| Compat getrandom fallback | `src/util/Compat.c.in` 250-304 | two `_Atomic int` slots (`afdrandom_block`, `afdrandom_nonblock`), the process's descriptor table | validate flags, load slot, open device, CAS publish, close loser's fd, read | shared by every thread of the process; reached through the getrandom wrapper |
| getrandom wrapper | 306-323 | kernel entropy pool (ready or not), kernel has the syscall or not | syscall with flags 0, fallback on ENOSYS | called by getentropy and by any user |
| getentropy | 329-382 | caller's buffer, bytes filled | length check, fill loop with EINTR retry, EIO on 0 bytes | calls the wrapper |
| roundeven fallbacks | 388-429 | none (pure) | `Compat_roundevenf`, `Compat_roundeven` | exercised by the Compat unit test |
| libc start-up shim | 83-188 | `fnCalled`, dynamic-section initialisers | `CallInit`, `__wrap___libc_start_main` | runs before `main` |
| stat / symbol-version shims | 190-242 | none | forwarders | generated by CMake substitution |
| version macros | `src/nvcv_types/include/nvcv/VersionDef.h` | none (preprocessor) | `NVCV_MAKE_VERSION[1-4]` and the API selection | used by every `#if` on versions |
| Tensor handles | `src/nvcv_types/include/nvcv/Tensor.hpp` 1-107 | handle, allocator, cleanup callback | construct, wrap data, wrap image, destroy | a wrapped tensor borrows an image's buffer |
| Operator wrappers | `src/cvcuda/include/cvcuda/OpRemap.hpp`, `src/cvcuda/priv/OpThreshold.hpp` | operator handle | create, submit, destroy | C++ RAII around the C API |
| Python bindings | `src/python/mod_nvcv/Image.hpp`, `src/unnamed/part_000`, `part_001` | wrapped image data, resource guards | PillowResize, NMS, BndBox | hold locks on tensors until the stream finishes |
| Tests | `src/tests/.../TestOpJointBilateralFilter.cpp`, second half of `Tensor.hpp` | gold tables | the Compat getrandom, getentropy and roundeven tests | call the Compat functions |

The hard behaviours are in the getrandom fallback: any number of threads may
call it at once, they race to open a descriptor and publish it with a weak
compare-and-swap, and the published value 0 means "not opened yet" although 0 is
a descriptor `open()` can return. getentropy adds retry loops on signals and
short reads.

## 2. Modules and how they correspond to the code

**`CompatGetRandom`**: `Compat_getrandom` for a set of threads `Threads`.
- State:
  - `afd`: the two atomic slots, keyed by `Slot(flags)`;
  - `fdTable`: which file each descriptor 0..`MaxFd` is open on, with its `O_NONBLOCK` bit;
  - per thread: `pc`, `flags`, the local `fdrandom` and the fresh `fd`.
- Actions, one per step between two shared-memory accesses:
  - `Call`: flag validation and `atomic_load`;
  - `Open`: `open()` returns the lowest free descriptor;
  - `OpenFail`: `fd < 0` return;
  - `Cas`: `atomic_compare_exchange_weak`, either disjunct;
  - `Close`: the loser's `close(fd)`;
  - `Read`: `assert`, then `read`.
- Constants:
  - `StdinOpen`: whether descriptor 0 is taken at start;
  - `WeakCasSpurious`: whether the CAS may fail although the slot still holds the expected value, as LL/SC hardware allows.
- `Atomic == INSTANCE GetRandomAtomic WITH ...` maps the threads' steps onto atomic calls:
  - a descriptor held between `open()` and the exchange, or between a lost exchange and `close()`, is hidden (`Transient`);
  - a thread is "reading" in the abstract spec only once its own `pc` is `read`, so its call takes effect at its load of a cached descriptor, its winning exchange, or its `close()`.

**`GetRandomAtomic`**: what `Compat_getrandom` promises when every call is one atomic step.
- `UseCached`: a valid call reads the descriptor cached for its blocking mode.
- `OpenAndCache`: when there is none, it opens one on any free descriptor and caches it.
- `ReadDone`: the read.
- A call that returns -1 (EINVAL, failed open) leaves the state alone.

**`GetEntropy`**: `getentropy`, `Compat_getentropy`, the `getrandom` wrapper and the fallback's results.
- One caller at a time.
- The environment chooses:
  - whether the kernel has `SYS_getrandom`;
  - when the entropy pool becomes ready;
  - how many bytes each read returns;
  - whether a signal interrupts a call (at most `MaxEintr` times).
- `api` records whether the current call came through getentropy, the getrandom wrapper, or a direct `Compat_getrandom`.
- `buffer` is the caller's pointer: `"good"`, `"null"` or `"bad"` (the tests' `(void *)0x666`). Writing to an invalid one gives `EFAULT` from the syscall or from `read()`.
- The unit tests of `Tensor.hpp` (`CompatGetRandomParamTest`, `CompatGetRandomExecTest`, `CompatGetEntropyParamTest`, `CompatGetEntropyExecTest`) are the record sets `CompatGetRandomParams` and `CompatGetEntropyParams`. A test step starts the call of one row and records the row in `test`. `SIZE_MAX` stands for the `(size_t)-1` length; only its size matters.
- `Healthy`: the tests assume a kernel that answers in full ("when using urandom, it's guaranteed that it'll return at least 256 bytes"). So EINTR, EAGAIN, EMFILE and short reads happen only in calls that are not tests.
- Actions:
  - `Getentropy`: the length check;
  - `CompatGetrandom`: a test's direct call of `Compat_getrandom`;
  - `Loop`: one pass of the `while` test;
  - `Syscall` and `Compat`: the wrapper's two paths;
  - `Got`: the tests on `nbytes`;
  - `Finish`: the return;
  - `PoolInit`: the kernel initialising its pool.

**`RoundEven`**: `Compat_roundevenf` and `Compat_roundeven` as operators on fixed-point values (`mag/Den`) with a separate sign bit, so that -0.0 exists.
- `roundf`, `fmodf` and `copysignf` are modelled by what they compute.
- `RoundHalfEven` is the reference definition.
- `MakeRoundEvenParams` is the unit tests' gold table (`Tensor.hpp` 273-333) as a set of `<<input, gold>>` pairs. `numeric_limits` `min()` and `denorm_min()` are represented by the smallest model value, 1/`Den`, which takes the same path through the code. The infinity and NaN rows are left out.
- `TestF` and `TestD` are `CompatRoundEvenFParamTest` and `CompatRoundEvenParamTest`. Both call `Compat_roundevenf`, as the code does (`Tensor.hpp:370`); `gold` holds the row's expected result.
- Free calls (`CallF`, `CallD`) take multiples of `Step`/`Den`.

**`Version`**: `NVCV_MAKE_VERSION` and its argument-count dispatch. `OlderThan` is the reference order (lexicographic, missing components 0).
- `apiDef` is the user's `NVCV_VERSION_API` definition, or `Undefined`; `DefineApi` changes it.
- `NVCV_VERSION_API` is the selected number, or `Rejected` when the translation unit does not compile.
- The range check at `VersionDef.h:156` is a `#if`, and the preprocessor evaluates it differently from C. After macro expansion it replaces every remaining identifier by 0. So the cast `((uint32_t)(e))` of `NVCV_MAKE_VERSION4` becomes `((0)(e))`, which is not an expression. `PPMakeVersion`, `PPLess` and `PPOr` model this: a `#if` operand is a record with a well-formed flag. An ill-formed or true condition stops the compilation.

**`StartupInit`**: `__wrap___libc_start_main` and `CallInit` (`Compat.c.in` 83-188).
- The build glibc (≥ 2.34 or not) and the run-time glibc are constants of each behaviour. So are the executable: PIE or not (`l_addr`), `DT_INIT`, the `DT_INIT_ARRAY` entries, and the order of the tags in `_DYNAMIC`.
- `ScanDyn` is the `for` loop over `_DYNAMIC` as a RECURSIVE operator, with rebasing by `l_addr` and the byte size divided by 8.
- Actions: `Wrap`, `LibcStartMain` (the old or new libc), `CsuInit`, `CallInit`, `CallDtInit`, `CallDtInitArray`, `CallInitReturn`, `Main`.
- `ran` records the constructors in the order they run; `Expected` is `DT_INIT` followed by the array.
- `NVCV_ASSERT` is the assert that still aborts under `NDEBUG`; the wrapper's check that `init` is NULL leads to `crash` when it fails.

**`PyOperators`**: the Python bindings `pillowresize(_into)` for tensors and varshape batches (`OpThreshold.hpp` 92-278) and `nms(_into)` (`part_000` 34-223).
- `obj` holds the Python objects (tensors and image batches as records of their shapes), `live` the ones the program still references.
- `pending` holds the stream's jobs, each with the `ResourceGuard` set that keeps objects alive; `Complete` is the GPU finishing the head job.
- `lastError` is the exception the last call raised.
- Every binding is one action: the call is atomic under the GIL, including output creation, the `ResourceGuard` and the submit.
- `NewObject` and `Drop` are the program creating and releasing objects at any time.
- The NMS binding reads `shape()[1]` of a tensor whose rank may be 1. The read is past the rank, so the value is any extent or 0.

**`Entities`**: the C++ wrappers over the C handle API, as holders of handles.
- Classes: `Tensor`, `TensorWrapData`, `TensorWrapImage` (`Tensor.hpp`), the Python `Image` (`Image.hpp`), `Remap` (`OpRemap.hpp`) and `BndBox` (`part_001`).
- An object slot has a class, a life state and `m_handle`.
- The C registry (`hstate`) is not in the repository and is modelled from the spec. Handles come from the free ones and are never reused.
- Only the entity classes' declarations are in the repository. A constructor is modelled as taking a live handle and a destructor as destroying it. Allocation, the stored descriptor and the cleanup callback are left out: the one property here does not tell them apart.
- A failed create throws through `CheckThrow` and leaves no object, so it is no step.
- `OpSubmit` is an operator's `operator()`: it passes its own handle and the tensors' handles to the submit function, and `invalidUse` records a handle that is not live. `RemapSubmitArgs` and `BndBoxSubmitArgs` are the handles each class passes.
- `OpDtor` destroys the operator's handle; `BndBox`'s destructor also sets `m_handle` to null, `Remap`'s does not.
- `OpCopy` is the copy constructor the compiler generates for `Remap` and `BndBox`; the tensor classes delete theirs.

Each `MC*.tla` module gives the constants their values; each `.cfg` names the spec, the invariants and the properties.

## 3. Runs

| Run | Expect | Shows |
|-----|--------|-------|
| getrandom_race | pass | 2 threads, all flag values (0, NONBLOCK, RANDOM, both, one invalid), descriptors 0..5, strong CAS. The assert holds, each thread reads a descriptor of its own blocking mode, no descriptor leaks, a published slot is never overwritten, and the calls refine `GetRandomAtomic` (`AtomicCalls`): they are linearizable. |
| getrandom_device | violation | A GRND_RANDOM call reads the cached /dev/urandom descriptor. |
| getrandom_stdin_closed | violation | With descriptor 0 free, `open()` returns 0 and the assert fails. |
| getentropy | pass | Lengths 0, 2 and 257, reads of 1..n bytes, EINTR, EAGAIN, EMFILE. getentropy fills exactly, never returns EINTR, and always returns under weak fairness of the program's steps. `ParamTestsPass`: every row of the getrandom and getentropy unit tests returns its gold value and, when it fails, its gold errno. |
| getrandom_nonblock | violation | A GRND_NONBLOCK call waits on an uninitialised pool because the wrapper passes flags 0. |
| roundeven | pass | Every multiple of 0.1 in [-6, 6] rounds half to even, with the argument's sign, and both roundeven unit tests pass on every finite row of their table, sign bits included (`TestsPass`). |
| version_order | pass | Majors 0-2 and components {0, 1, 99}, with 1 to 4 arguments: number order equals version order. |
| version_api | violation | `ApiSelection`: a unit compiles exactly when it selects no API or a supported one. TLC finds it violated in the initial state: `NVCV_VERSION_API` defined as `NVCV_MAKE_VERSION(0)`, that is API 0.0, does not compile, because the `#if` of the range check is ill-formed. |
| startup_init | pass | Every build/run-time glibc pair, PIE or not, `DT_INIT` present or not, up to 2 array entries, every tag order: the constructors run once each, in ELF order, before `main`, and the `dlopen` handle is closed. |
| py_operators | pass | Up to 5 objects and 2 pending jobs: no queued job uses a freed object, and the PillowResize operator is sized for the job it runs. |
| nms_rank | violation | A rank-2 `src` with rank-1 `scores` passes the binding's checks and NMS is submitted. |
| operator_copy | violation | Two objects and two handles. The shortest trace is `Remap()`, then its copy, then `~Remap()` twice: the second destructor passes a destroyed handle to `nvcvOperatorDestroy`. |

The spurious weak-CAS failure is reproduced by setting `WeakCasSpurious <- TRUE` in `MCCompatGetRandom_stdin.cfg` with `StdinOpen <- TRUE`. TLC then finds `FdRandomAssert` violated: the thread reads descriptor 0 after closing its own.

Why the bounds are enough:
- Two threads are enough for every race on one slot: a third can only repeat what one of the two does.
- Six descriptors let both slots be filled, plus one descriptor held by a losing racer.
- Length 2 with 1-byte reads gives a short read, and 257 is the first refused length. The length check is a single comparison with 256, so no value between matters.
- `Den = 10000` with `Step = 1000` puts exact ties (x.5) on the grid of free calls, of both parities, and the range contains -0.x values. 10000 is the finest resolution the test table needs (0.4999, 1.5001).
- `99` is the largest component the packing keeps apart.
- StartupInit: two function offsets and arrays of up to 2 entries give an empty, a single and a two-entry array, and a load base different from 0 separates rebased from unrebased addresses.
- PyOperators: 5 objects allow two inputs, two outputs and a program-created object; 2 pending jobs let a second call queue behind a job not yet completed, which is where a dropped object must still be guarded.
- Entities: two objects are an operator and its copy, and two handles give each object its own. That is the smallest program that shows the double destroy.

Fairness: only `GetEntropy` states a liveness property. The other runs check safety, and their programs may stop at any point. `GetEntropy` assumes weak fairness of the program's own steps and of `PoolInit`. The kernel initialises its pool eventually; a scheduler that never runs the calling thread again is not a case the code can handle. Signals are bounded by `MaxEintr`, since unbounded signals can starve any retry loop.

Findings (details in `PROJECT.json`):
1. The descriptor cache is keyed on GRND_NONBLOCK only (`Compat.c.in:262`). The unit test runs its flags-0 case first, so its GRND_RANDOM cases read /dev/urandom.
2. 0 is both a descriptor and the cache's "empty" value (`Compat.c.in:284`, `:301`).
3. The wrapper drops the caller's flags (`Compat.c.in:310`).
4. The NMS binding reads `shape()[1]` of a possibly rank-1 scores tensor (`part_000:68`).
5. A user definition of `NVCV_VERSION_API` never compiles: the cast in `NVCV_MAKE_VERSION4` makes the `#if` at `VersionDef.h:156` ill-formed. The `#if` example in the comment at line 83 fails the same way.
6. `Remap` and `BndBox` declare no copy constructor, unlike the tensor classes (`OpRemap.hpp:40`); unless `IOperator` (not in the repository) deletes it, a copy destroys its handle twice.

## 4. Plan and what is not modelled yet

Next, in order:
1. Image batches (varshape) as entities, once their C++ wrappers are in the repository.

Not modelled:
- The stat and symbol-version shims only forward calls.
- The CUDA kernels and the JointBilateralFilter CPU reference are floating-point image arithmetic over arrays far beyond TLC's reach.
- Of the getrandom and getentropy unit tests (`Tensor.hpp` 108-270), only the check that two reads return different bytes is not modelled: the model does not track the bytes. Their parameter tables and return codes are checked by `ParamTestsPass`.
- `NVCV_VERSION_STRING` and `NVCV_VERSION_SUFFIX` are text for display; no property is about them.
- `NVCV_VERSION`, `NVCV_VERSION_PATCH` and `NVCV_VERSION_TWEAK` are used by no check.
- The uint32_t wrap of `NVCV_MAKE_VERSION4` for majors ≥ 4295 needs integers wider than TLC's 32-bit ones.
- `Threshold`'s constructor and submit are defined outside the repository; only its declaration is here, and its `unique_ptr` members make it non-copyable, so it has no copy hazard. The CV-CUDA operator wrappers are therefore only partly modelled.
- The bodies of the tensor and image constructors and destructors (`detail/TensorImpl.hpp`, the Python module's sources) and the C handle API are not in the repository. `Entities` models these objects only as handle holders, from the spec; allocation, descriptors and cleanup callbacks are not modelled.
- The `NVCV_VERSION_API_IS`, `_AT_LEAST`, `_AT_MOST` and `_IN_RANGE` macros are plain comparisons with `NVCV_VERSION_API`. In a `#if` they are ill-formed for the same reason as the range check, and no property is about them.
- `TensorWrapImage` must not outlive its image. This is a documented precondition that nothing checks, so the model assumes callers keep it.
